----------------------------- MODULE ForkServer -----------------------------
(***************************************************************************)
(* multi_server.c: a server that forks one process per connection.  The    *)
(* processes share a System V segment with the request statistics, guarded *)
(* by a named POSIX semaphore; one more process prints the statistics when *)
(* the server receives SIGUSR1.                                            *)
(*                                                                         *)
(* The server can die alone (a failing accept or fork ends it through      *)
(* err_sys) or together with all its processes (Ctrl-C, which also removes *)
(* the segment), and can be started again.  After a lonely death the       *)
(* processes of the old run live on next to those of the new one: they     *)
(* share the segment but not the semaphore, whose name main unlinks.       *)
(***************************************************************************)
EXTENDS Integers, FiniteSets

CONSTANTS Conns,      \* the connections clients make, each of them once
          MaxRuns,    \* bound: how often the server is started
          MaxSignals, \* bound: how many SIGUSR1 each run receives
          StraySigint, \* whether a single process can receive SIGINT
          Hanging,    \* the connections whose script /bash need not come back from:
                      \* it is silent, ignores SIGTERM, or was not in its group yet
          NoConn      \* no connection

ASSUME ForkAssumption == /\ IsFiniteSet(Conns) /\ MaxRuns \in Nat /\ MaxSignals \in Nat
                         /\ StraySigint \in BOOLEAN /\ NoConn \notin Conns
                         /\ Hanging \subseteq Conns

Runs == 1..MaxRuns
Class == {2, 4, 5}
ClassOf(code) == code \div 100  \* the class is all that write_code looks at

VARIABLES
  run, mpc, mconn,          \* the main process: its run, where it is, its connfd
  name, nsem, sem,          \* the semaphore the name denotes (0: none), the number
                            \* of semaphores created so far, the value of each
  key, shmid,               \* the segment the key denotes (0: none), global_shm_id of
                            \* each run; a segment is named by the run that created it
  requests, codes,          \* struct share_statistics in each segment
  pc, crun,                 \* each child: where it is, the run it belongs to,
  csem, attached,           \* shm_sem, and whether share_address is valid
  reg, class, after,       \* its register, the class of the code it answers, what follows write_code
  total,                    \* and the local total of do_call
  hpc, hsem, huser,         \* each run's SIGUSR1 process: where it is, shm_sem, the
  hattached, hvalue,        \* run whose user1_sem it opened, whether its share_address
                            \* is valid, its local value
  user1,                    \* the value of the user1_sem that each run created
  printed,                  \* how many reports it has printed
  \* Auxiliary variables, which no action reads: who was counted since the
  \* counters of a segment were zeroed, in requests and in its
  \* class, and who ever was; whether a run was started while children that use
  \* the segment were alive;
  \* the count when each connection was accepted.
  counted, classed, everCounted, overlap, floor

mainVars == <<run, mpc, mconn>>
semVars == <<name, nsem, sem>>
shmVars == <<key, shmid, requests, codes>>
childVars == <<crun, csem, attached, reg, class, after, total>>
handlerVars == <<hpc, hsem, huser, hattached, hvalue, user1, printed>>
auxVars == <<counted, classed, everCounted, overlap, floor>>
vars == <<mainVars, semVars, shmVars, pc, childVars, handlerVars, auxVars>>

\* Between sem_wait and sem_post of write_code; "crashed" died there.
Critical == {"load_requests", "store_requests", "load_code", "store_code", "post"}
Dead == {"none", "end", "killed", "crashed", "lost"}
Alive(c) == pc[c] \notin Dead
HCritical == {"read_value", "hpost"}

-----------------------------------------------------------------------------
Init == /\ run = 0 /\ mpc = "down" /\ mconn = NoConn
        /\ name = 0 /\ nsem = 0 /\ sem = [i \in Runs |-> 0]
        /\ key = 0 /\ shmid = [r \in Runs |-> 0] /\ requests = [g \in Runs |-> 0]
        /\ codes = [g \in Runs |-> [k \in Class |-> 0]]
        /\ pc = [c \in Conns |-> "none"] /\ crun = [c \in Conns |-> 0]
        /\ csem = [c \in Conns |-> 0] /\ attached = [c \in Conns |-> FALSE]
        /\ reg = [c \in Conns |-> 0]
        /\ class = [c \in Conns |-> 0] /\ after = [c \in Conns |-> "end"]
        /\ total = [c \in Conns |-> -1]
        /\ hpc = [r \in Runs |-> "none"] /\ hsem = [r \in Runs |-> 0]
        /\ huser = [r \in Runs |-> 0] /\ hattached = [r \in Runs |-> FALSE]
        /\ hvalue = [r \in Runs |-> 0] /\ user1 = [r \in Runs |-> 0]
        /\ printed = [r \in Runs |-> 0]
        /\ counted = [g \in Runs |-> {}] /\ classed = [g \in Runs |-> {}]
        /\ everCounted = [g \in Runs |-> {}] /\ overlap = [g \in Runs |-> FALSE]
        /\ floor = [c \in Conns |-> 0]

\* The segment a child uses.
Seg(c) == shmid[crun[c]]

\* main, first part: the segment is found or created, and zeroed.
MainZero ==
  /\ mpc = "down" /\ run < MaxRuns
  /\ run' = run + 1 /\ mpc' = "unlink"
  /\ key' = IF key = 0 THEN run + 1 ELSE key
  /\ shmid' = [shmid EXCEPT ![run + 1] = key']
  /\ requests' = [requests EXCEPT ![key'] = 0]
  /\ codes' = [codes EXCEPT ![key'] = [k \in Class |-> 0]]
  /\ counted' = [counted EXCEPT ![key'] = {}]
  /\ classed' = [classed EXCEPT ![key'] = {}]
  /\ overlap' = [g \in Runs |-> \/ \E c \in Conns : Alive(c) /\ Seg(c) = g
                                \/ overlap[g] /\ g # key']
  /\ UNCHANGED <<mconn, semVars, pc, childVars, handlerVars, everCounted, floor>>

\* main, second part: both semaphore names are unlinked, user1_sem is created
\* with value 0, the SIGUSR1 process is forked, SIGUSR1 is handled from here on.
MainUnlink ==
  /\ mpc = "unlink"
  /\ mpc' = "accept" /\ name' = 0
  /\ hpc' = [hpc EXCEPT ![run] = "hopen"]
  /\ UNCHANGED <<run, mconn, nsem, sem, shmVars, pc, childVars, hsem,
                 huser, hattached, hvalue, user1, printed, auxVars>>

\* server: accept returns the connection of a client.
Accept(c) ==
  /\ mpc = "accept" /\ pc[c] = "none"
  /\ mpc' = "fork" /\ mconn' = c
  /\ pc' = [pc EXCEPT ![c] = "accepted"]
  /\ crun' = [crun EXCEPT ![c] = run]
  /\ floor' = [floor EXCEPT ![c] = Cardinality(counted[shmid[run]])]
  /\ UNCHANGED <<run, semVars, shmVars, csem, attached, reg, class, after, total,
                 handlerVars, counted, classed, everCounted, overlap>>

\* server: fork; the parent closes its copy of connfd, the child enters do_call.
Fork ==
  /\ mpc = "fork"
  /\ mpc' = "accept" /\ mconn' = NoConn
  /\ pc' = [pc EXCEPT ![mconn] = "open"]
  /\ UNCHANGED <<run, semVars, shmVars, childVars, handlerVars, auxVars>>

\* server: accept or fork fails and err_sys ends the main process, alone.  A
\* connection it had accepted is closed with it.
MainFails ==
  /\ mpc \in {"accept", "fork"}
  /\ mpc' = "down" /\ mconn' = NoConn
  /\ pc' = [c \in Conns |-> IF pc[c] = "accepted" THEN "lost" ELSE pc[c]]
  /\ UNCHANGED <<run, semVars, shmVars, childVars, handlerVars, auxVars>>

\* A process that exits inside write_code keeps the semaphore.
Exited(c) == IF pc[c] \in Critical THEN "crashed"
             ELSE IF Alive(c) THEN "killed" ELSE pc[c]

\* exit_handler, in every process of the group (Ctrl-C): the segment is removed,
\* so its key denotes none, and all of them exit, wherever they are.
ExitHandler ==
  /\ mpc # "down"
  /\ mpc' = "down" /\ mconn' = NoConn
  /\ key' = IF key = shmid[run] THEN 0 ELSE key
  /\ pc' = [c \in Conns |-> IF crun[c] = run THEN Exited(c) ELSE pc[c]]
  /\ hpc' = [hpc EXCEPT ![run] = IF @ \in HCritical \union {"hcrashed"} THEN "hcrashed"
                                ELSE "none"]
  /\ UNCHANGED <<run, semVars, shmid, requests, codes, childVars, hsem, huser,
                 hattached, hvalue, user1, printed, auxVars>>

\* exit_handler, in one child that alone receives SIGINT: children inherit the
\* handler, so the segment is removed under all the others.
StrayExit(c) ==
  /\ StraySigint /\ Alive(c) /\ pc[c] # "accepted"
  /\ key' = IF key = Seg(c) THEN 0 ELSE key
  /\ pc' = [pc EXCEPT ![c] = Exited(c)]
  /\ UNCHANGED <<mainVars, semVars, shmid, requests, codes, childVars,
                 handlerVars, auxVars>>

-----------------------------------------------------------------------------
\* sem_open(..., O_CREAT, ..., 1): the semaphore the name denotes, or a new one.
Opened == IF name = 0 THEN nsem + 1 ELSE name

SemOpen == /\ name' = Opened
           /\ nsem' = IF name = 0 THEN nsem + 1 ELSE nsem
           /\ sem' = IF name = 0 THEN [sem EXCEPT ![nsem + 1] = 1] ELSE sem

\* do_call: sem_open and shmat.  A failing sem_open ends the call without an
\* answer.  shmat may fail if the segment has been removed (it depends on the
\* system); it then returns (void *)-1, which the comparison with 0 lets pass,
\* and a build that logs (DEBUG) reads the title there and dies.
DoCallOpen(c) ==
  /\ pc[c] = "open"
  /\ \/ /\ SemOpen
        /\ csem' = [csem EXCEPT ![c] = Opened]
        /\ \E valid \in BOOLEAN : /\ key = Seg(c) => valid
                                 /\ attached' = [attached EXCEPT ![c] = valid]
        /\ \/ pc' = [pc EXCEPT ![c] = "read"]
           \/ ~ attached'[c] /\ pc' = [pc EXCEPT ![c] = "killed"]
     \/ /\ pc' = [pc EXCEPT ![c] = "end"]
        /\ UNCHANGED <<semVars, csem, attached>>
  /\ UNCHANGED <<mainVars, shmVars, crun, reg, class, after, total, handlerVars, auxVars>>

Goto(c, where, code, next) ==
  /\ pc' = [pc EXCEPT ![c] = where]
  /\ class' = [class EXCEPT ![c] = ClassOf(code)]
  /\ after' = [after EXCEPT ![c] = next]
  /\ UNCHANGED <<mainVars, semVars, shmVars, crun, csem, attached, reg, total,
                 handlerVars, auxVars>>

\* response: status line, headers and body are sent, then the code is counted.
Response(c, code) == Goto(c, "send", code, "end")

\* The 200 answers with a body of their own: the status line is sent, the code
\* counted, and the rest sent afterwards.
Stream(c) == Goto(c, "send", 200, "body")

\* read_request_line gives up (a byte the grammar excludes, or a client that
\* closes) and answers 400, or do_call goes on with the request it has read.
ReadRequestLine(c) ==
  /\ pc[c] = "read"
  /\ Response(c, 400) \/ Goto(c, "dispatch", 0, "end")

\* do_call checks method and version before it looks at the URI.
Refuse(c) == pc[c] = "dispatch" /\ (Response(c, 405) \/ Response(c, 505))

\* Mutant: /statistics counts the request it is part of.
StatisticsPlusOne(c) ==
  /\ pc[c] = "dispatch" /\ attached[c]
  /\ total' = [total EXCEPT ![c] = requests[Seg(c)] + 1]
  /\ pc' = [pc EXCEPT ![c] = "send"]
  /\ class' = [class EXCEPT ![c] = ClassOf(200)]
  /\ UNCHANGED <<mainVars, semVars, shmVars, crun, csem, attached, reg, after,
                 handlerVars, auxVars>>

\* /statistics: do_call reads the counter without taking the semaphore, or
\* dies if shmat had failed.
Statistics(c) ==
  /\ pc[c] = "dispatch"
  /\ IF attached[c]
       THEN /\ total' = [total EXCEPT ![c] = requests[Seg(c)]]
            /\ pc' = [pc EXCEPT ![c] = "send"]
            /\ class' = [class EXCEPT ![c] = ClassOf(200)]
       ELSE /\ pc' = [pc EXCEPT ![c] = "killed"]
            /\ UNCHANGED <<total, class>>
  /\ UNCHANGED <<mainVars, semVars, shmVars, crun, csem, attached, reg, after,
                 handlerVars, auxVars>>

\* handle_bash: 500 if the script cannot be started.  Else the status line is sent
\* and the code counted before the script's output is read.
HandleBash(c) == pc[c] = "dispatch" /\ (Response(c, 500) \/ Goto(c, "send", 200, "bash"))

\* The client has reset the connection, and whoever started the server had SIGPIPE
\* ignored: handle_bash stops the script and returns, and nothing is counted.
\* (The other routes do not look at what send returns.)
Epipe(c) == pc[c] = "send" /\ after[c] = "bash" /\ Goto(c, "stop", 0, "end")

\* handle_bash returns: the script has closed its output, or was stopped, by the
\* alarm or after an EPIPE, and waitpid has come back.  (BashScript has the steps.)
BashEnds(c) ==
  /\ pc[c] \in {"bash", "stop"}
  /\ pc' = [pc EXCEPT ![c] = "end"]
  /\ UNCHANGED <<mainVars, semVars, shmVars, childVars, handlerVars, auxVars>>

\* A silent script keeps its child in read, one that SIGTERM does not end keeps it
\* in waitpid: the alarm's signal interrupts neither, both calls are restarted.
Hangs(c) == pc[c] \in {"bash", "stop"} /\ c \in Hanging

\* Mutant: a listing is sent without write_code.
LsVersionTwoUncounted(c) ==
  pc[c] = "dispatch" /\ (Response(c, 500) \/ Goto(c, "body", 200, "end"))

\* ls_version_two: 500 if opendir fails, else the entries of the directory.
LsVersionTwo(c) == pc[c] = "dispatch" /\ (Response(c, 500) \/ Stream(c))

\* req_parser: 404, 403, 500, the file, or 200 for a URI that starts with '?'.
ReqParser(c) ==
  /\ pc[c] = "dispatch"
  /\ \/ \E code \in {404, 403, 500, 200} : Response(c, code)
     \/ Stream(c)

\* The sends before the code is counted, and those of a streamed body.  (total
\* is a local variable of the block that ends here.)
Send(c) ==
  /\ pc[c] \in {"send", "body"}
  /\ pc' = [pc EXCEPT ![c] = IF pc[c] = "body" THEN "end" ELSE "wait"]
  /\ total' = [total EXCEPT ![c] = -1]
  /\ UNCHANGED <<mainVars, semVars, shmVars, crun, csem, attached, reg, class, after,
                 handlerVars, auxVars>>

\* The client has reset the connection: a send raises SIGPIPE, which nobody
\* handles, and the child dies.
Sigpipe(c) ==
  /\ pc[c] \in {"send", "body", "bash"}
  /\ pc' = [pc EXCEPT ![c] = "killed"]
  /\ UNCHANGED <<mainVars, semVars, shmVars, childVars, handlerVars, auxVars>>

-----------------------------------------------------------------------------
\* write_code, access by access: two children with different semaphores do
\* not exclude each other.
SemWait(c) ==
  /\ pc[c] = "wait" /\ sem[csem[c]] > 0
  /\ sem' = [sem EXCEPT ![csem[c]] = @ - 1]
  /\ pc' = [pc EXCEPT ![c] = "load_requests"]
  /\ UNCHANGED <<mainVars, name, nsem, shmVars, childVars, handlerVars, auxVars>>

\* ++requests, the load; the process dies here if shmat failed.
LoadRequests(c) ==
  /\ pc[c] = "load_requests"
  /\ IF attached[c]
       THEN /\ reg' = [reg EXCEPT ![c] = requests[Seg(c)]]
            /\ pc' = [pc EXCEPT ![c] = "store_requests"]
       ELSE /\ pc' = [pc EXCEPT ![c] = "crashed"]
            /\ UNCHANGED reg
  /\ UNCHANGED <<mainVars, semVars, shmVars, crun, csem, attached, class, after, total,
                 handlerVars, auxVars>>

\* Mutant: a request is counted by response and again by write_code.
StoreRequestsTwice(c) ==
  /\ pc[c] = "store_requests"
  /\ requests' = [requests EXCEPT ![Seg(c)] = reg[c] + 2]
  /\ counted' = [counted EXCEPT ![Seg(c)] = @ \union {c}]
  /\ everCounted' = [everCounted EXCEPT ![Seg(c)] = @ \union {c}]
  /\ reg' = [reg EXCEPT ![c] = 0]
  /\ pc' = [pc EXCEPT ![c] = "load_code"]
  /\ UNCHANGED <<mainVars, semVars, key, shmid, codes, crun, csem, attached, class,
                 after, total, handlerVars, classed, overlap, floor>>

StoreRequests(c) ==
  /\ pc[c] = "store_requests"
  /\ requests' = [requests EXCEPT ![Seg(c)] = reg[c] + 1]
  /\ counted' = [counted EXCEPT ![Seg(c)] = @ \union {c}]
  /\ everCounted' = [everCounted EXCEPT ![Seg(c)] = @ \union {c}]
  /\ reg' = [reg EXCEPT ![c] = 0]
  /\ pc' = [pc EXCEPT ![c] = "load_code"]
  /\ UNCHANGED <<mainVars, semVars, key, shmid, codes, crun, csem, attached, class,
                 after, total, handlerVars, classed, overlap, floor>>

LoadCode(c) ==
  /\ pc[c] = "load_code"
  /\ reg' = [reg EXCEPT ![c] = codes[Seg(c)][class[c]]]
  /\ pc' = [pc EXCEPT ![c] = "store_code"]
  /\ UNCHANGED <<mainVars, semVars, shmVars, crun, csem, attached, class, after, total,
                 handlerVars, auxVars>>

\* Mutant: the case of 4xx falls through to 5xx (its break is missing).
StoreCodeFallsThrough(c) ==
  /\ pc[c] = "store_code"
  /\ codes' = [codes EXCEPT ![Seg(c)] =
                 [k \in Class |-> IF k = class[c] THEN reg[c] + 1
                                  ELSE IF k = 5 /\ class[c] = 4 THEN @[k] + 1
                                  ELSE @[k]]]
  /\ classed' = [classed EXCEPT ![Seg(c)] = @ \union {c}]
  /\ reg' = [reg EXCEPT ![c] = 0]
  /\ pc' = [pc EXCEPT ![c] = "post"]
  /\ UNCHANGED <<mainVars, semVars, key, shmid, requests, crun, csem, attached, class,
                 after, total, handlerVars, counted, everCounted, overlap, floor>>

StoreCode(c) ==
  /\ pc[c] = "store_code"
  /\ codes' = [codes EXCEPT ![Seg(c)][class[c]] = reg[c] + 1]
  /\ classed' = [classed EXCEPT ![Seg(c)] = @ \union {c}]
  /\ reg' = [reg EXCEPT ![c] = 0]
  /\ pc' = [pc EXCEPT ![c] = "post"]
  /\ UNCHANGED <<mainVars, semVars, key, shmid, requests, crun, csem, attached, class,
                 after, total, handlerVars, counted, everCounted, overlap, floor>>

\* Mutant: write_code without sem_post, as in the threaded servers.
SemPostMissing(c) ==
  /\ pc[c] = "post"
  /\ pc' = [pc EXCEPT ![c] = after[c]]
  /\ UNCHANGED <<mainVars, semVars, shmVars, childVars, handlerVars, auxVars>>

SemPost(c) ==
  /\ pc[c] = "post"
  /\ sem' = [sem EXCEPT ![csem[c]] = @ + 1]
  /\ pc' = [pc EXCEPT ![c] = after[c]]
  /\ after' = [after EXCEPT ![c] = "end"]
  /\ UNCHANGED <<mainVars, name, nsem, shmVars, crun, csem, attached, reg, class, total,
                 handlerVars, auxVars>>

-----------------------------------------------------------------------------
\* siguser1_signo_handler: the main process posts user1_sem.
Siguser1 ==
  /\ mpc \in {"accept", "fork"} /\ user1[run] < MaxSignals
  /\ \A r \in Runs : huser[r] = run => user1[run] + printed[r] < MaxSignals
  /\ user1' = [user1 EXCEPT ![run] = @ + 1]
  /\ UNCHANGED <<mainVars, semVars, shmVars, pc, childVars, hpc, hsem, huser,
                 hattached, hvalue, printed, auxVars>>

\* handler_siguser1: a process per run, which outlives a main that dies alone.
HandlerOpen(r) ==
  /\ hpc[r] = "hopen"
  /\ SemOpen
  /\ hsem' = [hsem EXCEPT ![r] = Opened]
  /\ hpc' = [hpc EXCEPT ![r] = "hopen_user1"]
  /\ UNCHANGED <<mainVars, shmVars, pc, childVars, huser, hattached, hvalue, user1,
                 printed, auxVars>>

\* The second name is main's of the latest run that got there: a process that
\* comes late takes the signals of the next run.  shmat may fail unnoticed.
HandlerOpenUser1(r) ==
  /\ hpc[r] = "hopen_user1"
  /\ huser' = [huser EXCEPT ![r] = IF mpc = "unlink" THEN run - 1 ELSE run]
  /\ \E valid \in BOOLEAN : /\ key = shmid[r] => valid
                           /\ hattached' = [hattached EXCEPT ![r] = valid]
  /\ hpc' = [hpc EXCEPT ![r] = "wait_user1"]
  /\ UNCHANGED <<mainVars, semVars, shmVars, pc, childVars, hsem, hvalue, user1,
                 printed, auxVars>>

HandlerWaitUser1(r) ==
  /\ hpc[r] = "wait_user1" /\ user1[huser[r]] > 0
  /\ user1' = [user1 EXCEPT ![huser[r]] = @ - 1]
  /\ hpc' = [hpc EXCEPT ![r] = "wait_shm"]
  /\ UNCHANGED <<mainVars, semVars, shmVars, pc, childVars, hsem, huser, hattached,
                 hvalue, printed, auxVars>>

\* Mutant: the SIGUSR1 process reads without waiting for the semaphore.
HandlerDoesNotWait(r) ==
  /\ hpc[r] = "wait_shm"
  /\ hpc' = [hpc EXCEPT ![r] = "read_value"]
  /\ UNCHANGED <<mainVars, semVars, shmVars, pc, childVars, hsem, huser, hattached,
                 hvalue, user1, printed, auxVars>>

HandlerWaitShm(r) ==
  /\ hpc[r] = "wait_shm" /\ sem[hsem[r]] > 0
  /\ sem' = [sem EXCEPT ![hsem[r]] = @ - 1]
  /\ hpc' = [hpc EXCEPT ![r] = "read_value"]
  /\ UNCHANGED <<mainVars, name, nsem, shmVars, pc, childVars, hsem, huser,
                 hattached, hvalue, user1, printed, auxVars>>

\* value = share_address->requests, or the end of the process if shmat failed.
HandlerRead(r) ==
  /\ hpc[r] = "read_value"
  /\ IF hattached[r]
       THEN /\ hvalue' = [hvalue EXCEPT ![r] = requests[shmid[r]]]
            /\ hpc' = [hpc EXCEPT ![r] = "hpost"]
       ELSE /\ hpc' = [hpc EXCEPT ![r] = "hcrashed"]
            /\ UNCHANGED hvalue
  /\ UNCHANGED <<mainVars, semVars, shmVars, pc, childVars, hsem, huser, hattached,
                 user1, printed, auxVars>>

HandlerPost(r) ==
  /\ hpc[r] = "hpost"
  /\ sem' = [sem EXCEPT ![hsem[r]] = @ + 1]
  /\ printed' = [printed EXCEPT ![r] = @ + 1]
  /\ hvalue' = [hvalue EXCEPT ![r] = 0]
  /\ hpc' = [hpc EXCEPT ![r] = "wait_user1"]
  /\ UNCHANGED <<mainVars, name, nsem, shmVars, pc, childVars, hsem, huser, hattached,
                 user1, auxVars>>

-----------------------------------------------------------------------------
WriteCode(c) == \/ SemWait(c) \/ LoadRequests(c) \/ StoreRequests(c)
                \/ LoadCode(c) \/ StoreCode(c) \/ SemPost(c)

DoCall(c) == \/ DoCallOpen(c) \/ ReadRequestLine(c) \/ Refuse(c) \/ Statistics(c)
             \/ HandleBash(c) \/ Epipe(c) \/ BashEnds(c) \/ LsVersionTwo(c)
             \/ ReqParser(c) \/ Send(c) \/ WriteCode(c)

Handler(r) == \/ HandlerOpen(r) \/ HandlerOpenUser1(r) \/ HandlerWaitUser1(r) \/ HandlerWaitShm(r)
              \/ HandlerRead(r) \/ HandlerPost(r)

Main == MainZero \/ MainUnlink \/ Fork

Next == \/ Main \/ MainFails \/ ExitHandler \/ Siguser1
        \/ \E c \in Conns : Accept(c) \/ DoCall(c) \/ Sigpipe(c) \/ StrayExit(c)
        \/ \E r \in Runs : Handler(r)

Spec == Init /\ [][Next]_vars

\* The kernel schedules every process; every client sends its request line and
\* reads its answer, or closes (recv and send have no timeout: a client that does
\* neither keeps its child); and the scripts of the connections in Hanging, only
\* these, may keep theirs.  Nothing makes clients connect, reset, or send signals.
Fairness == /\ WF_vars(MainUnlink) /\ WF_vars(Fork)
            /\ \A c \in Conns : WF_vars(~ Hangs(c) /\ DoCall(c))
            /\ \A r \in Runs : WF_vars(Handler(r))

FairSpec == Spec /\ Fairness

-----------------------------------------------------------------------------
\* The type of every variable.
TypeOK ==
  /\ run \in 0..MaxRuns /\ mpc \in {"down", "unlink", "accept", "fork"}
  /\ mconn \in Conns \union {NoConn} /\ (mpc = "fork" => mconn \in Conns)
  /\ name \in 0..MaxRuns /\ nsem \in 0..MaxRuns /\ sem \in [Runs -> {0, 1}]
  /\ key \in 0..MaxRuns /\ shmid \in [Runs -> 0..MaxRuns]
  /\ requests \in [Runs -> Nat] /\ codes \in [Runs -> [Class -> Nat]]
  /\ pc \in [Conns -> Critical \union Dead \union
               {"accepted", "open", "read", "dispatch", "send", "body", "bash", "stop", "wait"}]
  /\ crun \in [Conns -> 0..MaxRuns] /\ csem \in [Conns -> 0..MaxRuns] /\ attached \in [Conns -> BOOLEAN]
  /\ reg \in [Conns -> Nat] /\ class \in [Conns -> Class \union {0}]
  /\ after \in [Conns -> {"end", "body", "bash"}] /\ total \in [Conns -> Nat \union {-1}]
  /\ hpc \in [Runs -> HCritical \union
                {"none", "hopen", "hopen_user1", "wait_user1", "wait_shm", "hcrashed"}]
  /\ hsem \in [Runs -> 0..MaxRuns] /\ huser \in [Runs -> 0..MaxRuns]
  /\ hattached \in [Runs -> BOOLEAN] /\ hvalue \in [Runs -> Nat]
  /\ user1 \in [Runs -> Nat] /\ printed \in [Runs -> Nat]
  /\ counted \in [Runs -> SUBSET Conns] /\ classed \in [Runs -> SUBSET Conns]
  /\ everCounted \in [Runs -> SUBSET Conns] /\ overlap \in [Runs -> BOOLEAN] /\ floor \in [Conns -> Nat]

\* Who holds semaphore i, dead or alive.
Writers(i) == {c \in Conns : csem[c] = i /\ pc[c] \in Critical \union {"crashed"}}
Readers(i) == {r \in Runs : hsem[r] = i /\ hpc[r] \in HCritical \union {"hcrashed"}}

\* Each semaphore admits one process at a time, counts exactly its holders, and
\* is never given back by a process that died while it held it.
SemaphoreExact ==
  \A i \in Runs : sem[i] + Cardinality(Writers(i)) + Cardinality(Readers(i))
                    = IF i <= nsem THEN 1 ELSE 0

\* Unless a run overlaps with children of an earlier one, no request is lost
\* or counted twice, whatever the interleaving and whoever died where; and every
\* counted request is also counted in the class of the status it was answered
\* with, except that of the one child that is, or died, in between.
CountExact ==
  \A g \in Runs : ~ overlap[g] =>
    /\ requests[g] = Cardinality(counted[g])
    /\ \A k \in Class :
         codes[g][k] = Cardinality({c \in classed[g] : class[c] = k})
    /\ classed[g] \subseteq counted[g]
    /\ \A c, d \in counted[g] \ classed[g] :
         c = d /\ pc[c] \in {"load_code", "store_code", "crashed"}

\* With any number of overlapping runs updates get lost, but a segment never
\* claims more requests than were ever counted in it.
NeverOvercounts == \A g \in Runs : requests[g] <= Cardinality(everCounted[g])

\* What the SIGUSR1 process of the current run prints is the number of requests
\* at a moment when no child was updating it: the value cannot change until the
\* semaphore is posted.  (One left over from an earlier run holds the wrong
\* semaphore.)
ReportIsCurrent ==
  \A r \in Runs : r = run /\ hpc[r] = "hpost" /\ ~ overlap[shmid[r]]
                    => hvalue[r] = requests[shmid[r]]

\* /statistics, although it reads without the semaphore, reports at least
\* what had been counted when the connection was accepted and no more than
\* has been counted by now.
StatisticsBounded ==
  \A c \in Conns : total[c] # -1 /\ Alive(c) /\ ~ overlap[Seg(c)]
                     => floor[c] <= total[c] /\ total[c] <= requests[Seg(c)]

\* A connection that was answered to the end was counted, whichever of the
\* routes answered it.  (The class is 0 where no answer was begun or, with SIGPIPE
\* ignored, the client was gone before its status line.)
AnsweredIsCounted ==
  \A c \in Conns : pc[c] = "end" /\ class[c] # 0 => c \in everCounted[Seg(c)]

\* Every connection the server forks a child for comes to an end, or its own script
\* keeps it: no child waits for another's script, nor for a semaphore that some
\* child, by whatever route, did not give back.
ConnectionsEnd == \A c \in Conns : pc[c] = "open" ~> ~ Alive(c) \/ Hangs(c)

\* Every SIGUSR1 the main process receives is reported, unless it goes down.
SignalPending(r) == user1[r] > 0 \/ hpc[r] \in {"wait_shm"} \union HCritical

SignalsReported ==
  \A r \in Runs : \A n \in 0..MaxSignals - 1 :
    SignalPending(r) /\ printed[r] = n ~> printed[r] > n \/ mpc = "down"
=============================================================================
