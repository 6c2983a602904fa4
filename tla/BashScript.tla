------------------------------- MODULE BashScript -------------------------------
(***************************************************************************)
(* The script runner behind /bash: handle_bash, pipe_read_v2, the two ways *)
(* of stopping a script, and the SIGALRM handlers with their globals.  The *)
(* lines of the pre-forked pool stand for it; multi_server.c and           *)
(* multi_server_pass_socket_fd_to_child_processes.c have copies.           *)
(*                                                                         *)
(* One process runs one script after the other; in multi_server.c it runs  *)
(* a single one and ends.  A script is a child, the leader, which gives    *)
(* itself a process group, and a helper it may leave in that group.        *)
(* signal() restarts what it interrupts (BSD semantics, which glibc and    *)
(* macOS have): no alarm makes read or waitpid return.  Times are not      *)
(* modelled: an alarm may go off at any moment after it was set.           *)
(***************************************************************************)
EXTENDS Naturals, FiniteSets

CONSTANTS Scripts,   \* the scripts clients ask for, each of them once
          Loud,      \* those that write for ever
          Quiet,     \* those that may neither write nor end; all others end
          Stubborn,  \* those whose leader ignores SIGTERM
          MaxOpen,   \* how many descriptors the process may have open
          Nil

ASSUME ScriptAssumption ==
  /\ IsFiniteSet(Scripts) /\ Nil \notin Scripts /\ MaxOpen \in Nat
  /\ Loud \union Quiet \union Stubborn \subseteq Scripts

VARIABLES
  program,           \* "child": multi_server.c, where SIGCHLD is ignored, so that
                     \* nobody becomes a zombie; or "pool"
  sigpipeIgnored,    \* whether the server was started with SIGPIPE ignored
  pc, script,        \* the process: where it is, its local script_pid
  open,              \* how many descriptors it has open: connections and pipes
  handler,           \* the handler of SIGALRM: none, handle_sigalrm_stop_scipt
                     \* ("stop") or handle_sigalrm ("count")
  timer,             \* the script for which alarm() was called last, if it is to come
  need_stop_script,
  alarm_count,       \* whether it is not 0
  echild,            \* whether errno is ECHILD
  leader,            \* of each script: none, running, a zombie, gone
  grouped,           \* the scripts whose leader has called setpgid
  helpers,           \* the scripts that have a helper running
  unread,            \* the scripts with output in their pipe
  \* Auxiliary variables: the scripts started, those whose group got SIGTERM, those
  \* whose alarm set need_stop_script.
  ran, termed, fired

processVars == <<pc, script, open, handler, timer, need_stop_script, alarm_count,
                 echild, ran, fired>>
scriptVars == <<leader, grouped, helpers, unread, termed>>
envVars == <<program, sigpipeIgnored>>
vars == <<envVars, processVars, scriptVars>>

Ended == {"dead", "exit"}
\* The processes that hold the write end of a script's pipe.
Writing(s) == leader[s] = "running" \/ s \in helpers

-----------------------------------------------------------------------------
\* A process that has served no script yet.  The globals are 0.
Init == /\ program \in {"child", "pool"} /\ sigpipeIgnored \in BOOLEAN
        /\ pc = "idle" /\ script = Nil /\ open = 0
        /\ handler = "none" /\ timer = Nil
        /\ need_stop_script = FALSE /\ alarm_count = FALSE /\ echild = FALSE
        /\ leader = [s \in Scripts |-> "none"]
        /\ grouped = {} /\ helpers = {} /\ unread = {}
        /\ ran = {} /\ termed = {} /\ fired = {}

\* The process ends: init takes over its children.
Dies ==
  /\ pc' = "dead"
  /\ leader' = [s \in Scripts |-> IF leader[s] = "zombie" THEN "gone" ELSE leader[s]]
  /\ UNCHANGED <<envVars, script, open, handler, timer, need_stop_script, alarm_count,
                 echild, ran, fired, grouped, helpers, unread, termed>>

\* Where the process is once handle_bash has returned.
Returned == IF program = "child" THEN "exit" ELSE "idle"

\* do_call has a request for a script: pipe_read_v2 makes a pipe and forks.  What
\* was done since the last script may have changed errno.
PipeReadV2(s) ==
  /\ pc = "idle" /\ leader[s] = "none" /\ open + 3 <= MaxOpen
  /\ open' = open + 2  \* the connection and the read end; neither is ever closed
  /\ leader' = [leader EXCEPT ![s] = "running"]
  /\ script' = s /\ ran' = ran \union {s}
  /\ echild' \in {echild, FALSE}
  /\ pc' = "status"
  /\ UNCHANGED <<envVars, handler, timer, need_stop_script, alarm_count, fired, grouped,
                 helpers, unread, termed>>

\* pipe or fork fails, and 500 is answered; a fork that fails leaves both ends of
\* the pipe open.
PipeReadV2Fails ==
  /\ pc = "idle" /\ pc' = Returned
  /\ \/ open + 1 <= MaxOpen /\ open + 3 > MaxOpen /\ open' = open + 1
     \/ open + 3 <= MaxOpen /\ open' = open + 3
  /\ UNCHANGED <<envVars, script, handler, timer, need_stop_script, alarm_count,
                 echild, ran, fired, scriptVars>>

\* No descriptor is left: accept fails, and err_sys ends the process.
AcceptFails == pc = "idle" /\ open + 1 > MaxOpen /\ Dies

\* A send: the client is there, or has gone.  Then SIGPIPE ends the process, or,
\* where it is ignored, errno is EPIPE and the script is stopped.
Send(from, to) ==
  /\ pc = from
  /\ \/ pc' = to /\ UNCHANGED echild
     \/ sigpipeIgnored /\ pc' = "stop_epipe" /\ echild' = FALSE
  /\ UNCHANGED <<envVars, script, open, handler, timer, need_stop_script, alarm_count,
                 ran, fired, scriptVars>>

Sigpipe == pc \in {"status", "crlf", "send"} /\ ~ sigpipeIgnored /\ Dies

\* handle_bash: the handler is installed, then the alarm set.  An alarm that is
\* still to come is replaced only here.
Install == /\ pc = "install"
           /\ handler' = "stop"
           /\ pc' = "arm"
           /\ UNCHANGED <<envVars, script, open, timer, need_stop_script, alarm_count,
                          echild, ran, fired, scriptVars>>

Arm == /\ pc = "arm"
       /\ timer' = script
       /\ pc' = "read"
       /\ UNCHANGED <<envVars, script, open, handler, need_stop_script, alarm_count,
                      echild, ran, fired, scriptVars>>

\* read returns output, or 0 once nobody holds the write end of the pipe.
Read == /\ pc = "read"
        /\ \/ script \in unread /\ unread' = unread \ {script} /\ pc' = "test"
           \/ script \notin unread /\ ~ Writing(script) /\ pc' = "after" /\ UNCHANGED unread
        /\ UNCHANGED <<envVars, script, open, handler, timer, need_stop_script,
                       alarm_count, echild, ran, fired, leader, grouped, helpers, termed>>

\* Mutant: the loop does not look at need_stop_script.
TestNever == /\ pc = "test"
             /\ pc' = "send"
             /\ UNCHANGED <<envVars, script, open, handler, timer, need_stop_script,
                            alarm_count, echild, ran, fired, scriptVars>>

\* The second half of the loop's condition; if it does not hold, what was read is
\* not sent.
Test == /\ pc = "test"
        /\ pc' = IF need_stop_script THEN "after" ELSE "send"
        /\ UNCHANGED <<envVars, script, open, handler, timer, need_stop_script,
                       alarm_count, echild, ran, fired, scriptVars>>

\* Mutant: the read end of the pipe is closed.
ReturnCloses == /\ pc' = Returned /\ script' = Nil /\ open' = open - 1
                /\ UNCHANGED <<envVars, handler, timer, need_stop_script, alarm_count,
                               ran, fired>>

\* handle_bash returns.  Nothing is reset, nobody waits for the script.
Return == /\ pc' = Returned /\ script' = Nil
          /\ UNCHANGED <<envVars, open, handler, timer, need_stop_script, alarm_count,
                         ran, fired>>

\* Mutant: a script that ended is reaped before need_stop_script is looked at.
AfterReaps ==
  /\ pc = "after"
  /\ IF need_stop_script
       THEN /\ pc' = "stop_timeout"
            /\ UNCHANGED <<envVars, script, open, handler, timer, need_stop_script,
                           alarm_count, ran, fired>>
       ELSE Return
  /\ leader' = [leader EXCEPT ![script] = IF @ = "zombie" THEN "gone" ELSE @]
  /\ UNCHANGED <<echild, grouped, helpers, unread, termed>>

\* Mutant: the test after the loop has `ret == 0' in place of `ret == -1'.
AfterEof ==
  /\ pc = "after"
  /\ pc' = "stop_timeout"
  /\ UNCHANGED <<envVars, script, open, handler, timer, need_stop_script, alarm_count,
                 echild, ran, fired, scriptVars>>

\* After the loop.
After ==
  /\ pc = "after"
  /\ IF need_stop_script
       THEN /\ pc' = "stop_timeout"
            /\ UNCHANGED <<envVars, script, open, handler, timer, need_stop_script,
                           alarm_count, ran, fired>>
       ELSE Return
  /\ UNCHANGED <<echild, scriptVars>>

-----------------------------------------------------------------------------
\* stop_scirpt_timeout and handle_bash_stop_child_process_group: the same but for
\* the first line, which resets alarm_count in one of them.
StopHandler ==
  /\ pc \in {"stop_timeout", "stop_epipe"}
  /\ alarm_count' = (alarm_count /\ pc = "stop_epipe")
  /\ handler' = "count"
  /\ pc' = "term"
  /\ UNCHANGED <<envVars, script, open, timer, need_stop_script, echild, ran, fired,
                 scriptVars>>

\* kill(-script_pid, SIGTERM).  A leader that has not called setpgid yet is missed.
StopTerm ==
  /\ pc = "term"
  /\ IF script \in grouped
       THEN termed' = termed \union {script} /\ echild' \in {echild, FALSE}
       ELSE echild' = FALSE /\ UNCHANGED termed
  /\ pc' = "alarm"
  /\ UNCHANGED <<envVars, script, open, handler, timer, need_stop_script, alarm_count,
                 ran, fired, leader, grouped, helpers, unread>>

StopAlarm ==
  /\ pc = "alarm"
  /\ timer' = script
  /\ pc' = "wait"
  /\ UNCHANGED <<envVars, script, open, handler, need_stop_script, alarm_count, echild,
                 ran, fired, scriptVars>>

\* waitpid(-script_pid) fails: the group has no child of this process.
NoChild ==
  /\ pc = "wait"
  /\ script \notin grouped \/ leader[script] = "gone"
  /\ Return /\ echild' = TRUE
  /\ UNCHANGED scriptVars

\* waitpid(-script_pid) reaps the leader.  The loop goes on unless errno happens to
\* be an older ECHILD, and if the alarm has gone off, SIGKILL ends the helper.
Reap ==
  /\ pc = "wait" /\ script \in grouped /\ leader[script] = "zombie"
  /\ leader' = [leader EXCEPT ![script] = "gone"]
  /\ IF echild THEN Return /\ UNCHANGED helpers
     ELSE /\ helpers' = IF alarm_count THEN helpers \ {script} ELSE helpers
          /\ UNCHANGED <<envVars, pc, script, open, handler, timer, need_stop_script,
                         alarm_count, ran, fired>>
  /\ UNCHANGED <<echild, grouped, unread, termed>>

\* Mutant: the alarm interrupts waitpid, which fails with EINTR.
StopWaitInterrupted ==
  \/ NoChild \/ Reap
  \/ /\ pc = "wait" /\ alarm_count /\ leader[script] = "running"
     /\ Return /\ UNCHANGED <<echild, scriptVars>>

StopWait == NoChild \/ Reap

\* SIGALRM: handle_sigalrm_stop_scipt or handle_sigalrm.
Alarm ==
  /\ pc \notin Ended /\ timer # Nil
  /\ timer' = Nil
  /\ IF handler = "stop"
       THEN /\ need_stop_script' = TRUE /\ fired' = fired \union {timer}
            /\ UNCHANGED alarm_count
       ELSE alarm_count' = TRUE /\ UNCHANGED <<need_stop_script, fired>>
  /\ UNCHANGED <<envVars, pc, script, open, handler, echild, ran, scriptVars>>

-----------------------------------------------------------------------------
\* The script's side: setpgid, then bash is executed.
SetPgid(s) ==
  /\ leader[s] = "running" /\ s \notin grouped
  /\ grouped' = grouped \union {s}
  /\ UNCHANGED <<envVars, processVars, leader, helpers, unread, termed>>

\* bash starts something that it does not wait for.
StartHelper(s) ==
  /\ leader[s] = "running" /\ s \in grouped /\ s \notin helpers
  /\ helpers' = helpers \union {s}
  /\ UNCHANGED <<envVars, processVars, leader, grouped, unread, termed>>

Write(s) ==
  /\ Writing(s) /\ s \in grouped /\ s \notin unread
  /\ unread' = unread \union {s}
  /\ UNCHANGED <<envVars, processVars, leader, grouped, helpers, termed>>

\* A leader that ends stays a zombie until it is waited for, unless SIGCHLD is
\* ignored or its parent has ended.
LeaderEnds(s) ==
  /\ leader[s] = "running" /\ s \in grouped
  /\ leader' = [leader EXCEPT ![s] = IF program = "child" \/ pc \in Ended
                                     THEN "gone" ELSE "zombie"]
  /\ UNCHANGED <<envVars, processVars, grouped, helpers, unread, termed>>

HelperEnds(s) ==
  /\ s \in helpers
  /\ helpers' = helpers \ {s}
  /\ UNCHANGED <<envVars, processVars, leader, grouped, unread, termed>>

Process == \/ Send("status", "crlf") \/ Send("crlf", "install") \/ Send("send", "read")
           \/ Install \/ Arm \/ Read \/ Test \/ After
           \/ StopHandler \/ StopTerm \/ StopAlarm \/ StopWait

Next == \/ Process \/ PipeReadV2Fails \/ AcceptFails \/ Sigpipe \/ Alarm
        \/ \E s \in Scripts : \/ PipeReadV2(s) \/ SetPgid(s) \/ StartHelper(s)
                              \/ Write(s) \/ LeaderEnds(s) \/ HelperEnds(s)

Spec == Init /\ [][Next]_vars

\* The process is scheduled and alarms go off; clients read what they are sent, or
\* go away.  A script gets to its setpgid, does what its kind says, and
\* obeys SIGTERM unless it ignores it.  Nobody has to ask for a script.
FairSpec ==
  /\ Spec /\ WF_vars(Process) /\ WF_vars(Alarm)
  /\ \A s \in Scripts :
       /\ WF_vars(SetPgid(s))
       /\ s \in Loud => WF_vars(Write(s))
       /\ s \notin Loud \union Quiet => WF_vars(LeaderEnds(s)) /\ WF_vars(HelperEnds(s))
       /\ s \notin Stubborn => WF_vars(s \in termed /\ LeaderEnds(s))

-----------------------------------------------------------------------------
\* The type of every variable.
TypeOK ==
  /\ program \in {"child", "pool"} /\ sigpipeIgnored \in BOOLEAN
  /\ pc \in {"idle", "status", "crlf", "install", "arm", "read", "test", "send", "after",
             "stop_timeout", "stop_epipe", "term", "alarm", "wait", "dead", "exit"}
  /\ script \in Scripts \union {Nil} /\ timer \in Scripts \union {Nil}
  /\ open \in 0..MaxOpen
  /\ handler \in {"none", "stop", "count"}
  /\ need_stop_script \in BOOLEAN /\ alarm_count \in BOOLEAN /\ echild \in BOOLEAN
  /\ leader \in [Scripts -> {"none", "running", "zombie", "gone"}]
  /\ grouped \in SUBSET Scripts /\ helpers \in SUBSET Scripts
  /\ unread \in SUBSET Scripts /\ ran \in SUBSET Scripts
  /\ termed \in SUBSET Scripts /\ fired \in SUBSET Scripts

\* stop_scirpt_timeout is called for a script whose time is over.  Of the first
\* script of a process this is true, wherever the alarm comes; of later ones it is
\* not: need_stop_script is never reset and an alarm never cancelled, so they are
\* stopped after their first output.
FirstStopIsDue == pc = "stop_timeout" /\ ran = {script} => script \in fired

\* In the pool, SIGTERM is sent while the leader is not reaped, so the number of
\* the group cannot be that of anybody else by then: also if the script ended on
\* its own just before its alarm.  (In multi_server.c it can.)
TermNamesOwnGroup ==
  program = "pool" /\ pc \in {"stop_timeout", "stop_epipe", "term"} =>
    leader[script] \in {"running", "zombie"}

\* A script whose group got SIGTERM has lost its leader when handle_bash returns,
\* whatever alarms arrive meanwhile and whatever errno is left from earlier.
StopIsFinal == \A s \in termed : script # s => leader[s] = "gone"

\* A pool process starts at most one script for every two descriptors it may have.
ScriptsBounded == 2 * Cardinality(ran) <= MaxOpen

\* handle_bash returns, or the process ends, whatever state earlier scripts left
\* in handler, timer, flags and errno.  It need not for a script that stays silent or
\* whose leader ignores SIGTERM (the SIGKILL of the loop is not sent before
\* waitpid has returned), nor if SIGTERM came before setpgid and the script
\* waits for somebody to read what it writes.
Missed(s) == pc = "wait" /\ s \in Loud \ termed
WorkerReturns ==
  \A s \in Scripts \ (Quiet \union Stubborn) :
    script = s ~> script # s \/ pc \in Ended \/ Missed(s)
=============================================================================
