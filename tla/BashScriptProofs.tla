---------------------------- MODULE BashScriptProofs ----------------------------
(***************************************************************************)
(* What holds of the script runner for any number of scripts of any kind,  *)
(* any number of descriptors, and alarms that come at any moment.          *)
(***************************************************************************)
EXTENDS BashScript, FiniteSetTheorems, TLAPS

\* Where the process has a script it has not tried to stop yet, has one at all.
BeforeTerm == {"status", "crlf", "install", "arm", "read", "test", "send", "after",
               "stop_timeout", "stop_epipe", "term"}
Serving == BeforeTerm \union {"alarm", "wait"}

\* Serving a script means having started it, and between requests there is none.
Place == /\ pc \in Serving => script \in ran
         /\ pc = "idle" => script = Nil

\* A pool process reaps nobody before it has sent SIGTERM.
OwnChild ==
  program = "pool" /\ pc \in BeforeTerm => leader[script] \in {"running", "zombie"}

\* Alarms are those of scripts that were started, and the flag is set by them only.
Due == /\ timer \in ran \union {Nil} /\ fired \subseteq ran
       /\ need_stop_script => fired # {}
       /\ pc = "stop_timeout" => need_stop_script

\* SIGTERM goes to a group that exists, and whose leader is waited for.
Final == /\ termed \subseteq grouped
         /\ pc \in BeforeTerm => script \notin termed
         /\ \A s \in termed : script # s => leader[s] = "gone"

\* Two descriptors are used up by each script.
Bounded == 2 * Cardinality(ran) <= open

IInv == TypeOK /\ Place /\ OwnChild /\ Due /\ Final /\ Bounded

\* The invariant holds before the first script.
LEMMA InitIInv == Init => IInv
<1> SUFFICES ASSUME Init PROVE IInv
  OBVIOUS
<1> USE ScriptAssumption DEF Init
<1>1. TypeOK
  <2>1. leader \in [Scripts -> {"none", "running", "zombie", "gone"}] /\ open \in 0..MaxOpen
    OBVIOUS
  <2> QED BY <2>1 DEF TypeOK
<1>2. Place /\ OwnChild /\ Due /\ Final
  BY DEF Place, OwnChild, Due, Final, Serving, BeforeTerm
<1>3. Bounded
  BY FS_EmptySet DEF Bounded
<1> QED BY <1>1, <1>2, <1>3 DEF IInv

-----------------------------------------------------------------------------
\* One more element adds one at most.
LEMMA AddOne ==
  ASSUME NEW S, IsFiniteSet(S), NEW x
  PROVE  /\ Cardinality(S) \in Nat /\ Cardinality(S \union {x}) \in Nat
         /\ Cardinality(S \union {x}) <= Cardinality(S) + 1
<1>1. IsFiniteSet(S \union {x}) /\ Cardinality(S) \in Nat
  BY FS_AddElement, FS_CardinalityType
<1>2. Cardinality(S \union {x}) \in Nat
  BY <1>1, FS_CardinalityType
<1>3. Cardinality(S \union {x}) = IF x \in S THEN Cardinality(S) ELSE Cardinality(S) + 1
  BY FS_AddElement
<1> QED BY <1>1, <1>2, <1>3

\* The process starts a script: the only step that adds to ran.
LEMMA StartStep == IInv /\ (\E s \in Scripts : PipeReadV2(s)) => IInv'
<1> SUFFICES ASSUME IInv, NEW s \in Scripts, PipeReadV2(s) PROVE IInv'
  OBVIOUS
<1> USE ScriptAssumption DEF IInv, PipeReadV2, envVars
<1>1. TypeOK'
  <2>1. open' \in 0..MaxOpen /\ leader' \in [Scripts -> {"none", "running", "zombie", "gone"}]
    BY DEF TypeOK
  <2>2. echild' \in BOOLEAN /\ ran' \in SUBSET Scripts /\ script' \in Scripts \union {Nil}
    BY DEF TypeOK
  <2> QED BY <2>1, <2>2 DEF TypeOK
<1>2. Place' /\ OwnChild'
  BY DEF Place, OwnChild, TypeOK, Serving, BeforeTerm
<1>3. Due'
  BY DEF Due, TypeOK
<1>4. s \notin termed
  BY DEF Final, Place
<1>5. Final'
  BY <1>4 DEF Final, TypeOK, Serving, BeforeTerm, Place
<1>6. Bounded'
  <2>1. IsFiniteSet(ran)
    BY FS_Subset DEF TypeOK
  <2>2. /\ Cardinality(ran \union {s}) \in Nat /\ Cardinality(ran) \in Nat
        /\ Cardinality(ran \union {s}) <= Cardinality(ran) + 1
    BY <2>1, AddOne
  <2> QED BY <2>2 DEF Bounded, TypeOK
<1> QED BY <1>1, <1>2, <1>3, <1>5, <1>6

\* The process goes on within a script it has.
LEMMA ServeStep ==
  IInv /\ (\/ Send("status", "crlf") \/ Send("crlf", "install") \/ Send("send", "read")
           \/ Install \/ Arm \/ Read \/ Test \/ StopHandler \/ StopAlarm) => IInv'
<1> SUFFICES ASSUME IInv, \/ Send("status", "crlf") \/ Send("crlf", "install")
                          \/ Send("send", "read") \/ Install \/ Arm \/ Read \/ Test
                          \/ StopHandler \/ StopAlarm
             PROVE  IInv'
  OBVIOUS
<1> USE ScriptAssumption DEF IInv, Send, Install, Arm, Read, Test, StopHandler, StopAlarm,
        envVars, scriptVars
<1>1. TypeOK'
  <2>1. /\ pc' \in {"crlf", "install", "arm", "read", "test", "send", "after", "stop_epipe",
                    "term", "wait"}
        /\ echild' \in BOOLEAN /\ handler' \in {"none", "stop", "count"}
        /\ timer' \in Scripts \union {Nil} /\ alarm_count' \in BOOLEAN
        /\ unread' \in SUBSET Scripts
    BY DEF TypeOK
  <2>2. UNCHANGED <<program, sigpipeIgnored, script, open, need_stop_script, leader, grouped,
                   helpers, ran, termed, fired>>
    OBVIOUS
  <2> HIDE DEF Send, Install, Arm, Read, Test, StopHandler, StopAlarm
  <2> QED BY <2>1, <2>2 DEF TypeOK
<1>2. Place'
  BY DEF Place, Serving, BeforeTerm
<1>3. OwnChild'
  BY DEF OwnChild, BeforeTerm
<1>4. Due'
  BY DEF Due, Place, Serving, BeforeTerm
<1>5. Final'
  BY DEF Final, BeforeTerm
<1>6. Bounded'
  BY DEF Bounded
<1> QED BY <1>1, <1>2, <1>3, <1>4, <1>5, <1>6

\* What follows the loop: handle_bash returns, or the script is stopped.
LEMMA AfterStep == IInv /\ After => IInv'
<1> SUFFICES ASSUME IInv, After PROVE IInv'
  OBVIOUS
<1> USE ScriptAssumption DEF IInv, After, Return, Returned, envVars, scriptVars
<1>1. TypeOK'
  BY DEF TypeOK
<1>2. Place' /\ OwnChild'
  BY DEF Place, OwnChild, Serving, BeforeTerm
<1>3. Due'
  BY DEF Due
<1>4. Final'
  BY DEF Final, BeforeTerm
<1>5. Bounded'
  BY DEF Bounded
<1> QED BY <1>1, <1>2, <1>3, <1>4, <1>5

\* SIGTERM, and the loop around waitpid.
LEMMA StopStep == IInv /\ (StopTerm \/ StopWait) => IInv'
<1> SUFFICES ASSUME IInv, StopTerm \/ NoChild \/ Reap PROVE IInv'
  BY DEF StopWait
<1> USE ScriptAssumption DEF IInv, StopTerm, NoChild, Reap, Return, Returned, envVars, scriptVars
<1>1. TypeOK'
  <2>1. CASE StopTerm
    <3>1. termed' \in SUBSET Scripts /\ echild' \in BOOLEAN
      BY <2>1 DEF TypeOK
    <3> QED BY <2>1, <3>1 DEF TypeOK
  <2>2. CASE NoChild
    BY <2>2 DEF TypeOK
  <2>3. CASE Reap
    <3>1. leader' \in [Scripts -> {"none", "running", "zombie", "gone"}]
      BY <2>3 DEF TypeOK
    <3>2. CASE echild
      BY <2>3, <3>1, <3>2 DEF TypeOK
    <3>3. CASE ~ echild
      BY <2>3, <3>1, <3>3 DEF TypeOK
    <3> QED BY <3>2, <3>3
  <2> QED BY <2>1, <2>2, <2>3
<1>2. Place'
  <2>1. CASE StopTerm
    BY <2>1 DEF Place, Serving, BeforeTerm
  <2>2. CASE NoChild
    BY <2>2 DEF Place, Serving, BeforeTerm
  <2>3. CASE Reap
    BY <2>3 DEF Place, Serving, BeforeTerm
  <2> QED BY <2>1, <2>2, <2>3
<1>3. OwnChild'
  BY DEF OwnChild, BeforeTerm
<1>4. Due'
  BY DEF Due
<1>5. Final'
  <2>1. CASE StopTerm
    BY <2>1 DEF Final, BeforeTerm
  <2>2. CASE NoChild
    BY <2>2 DEF Final, BeforeTerm
  <2>3. CASE Reap
    BY <2>3 DEF Final, BeforeTerm, TypeOK
  <2> QED BY <2>1, <2>2, <2>3
<1>6. Bounded'
  BY DEF Bounded
<1> QED BY <1>1, <1>2, <1>3, <1>4, <1>5, <1>6

\* A request that fails, a process that ends, an alarm.
LEMMA OtherStep == IInv /\ (PipeReadV2Fails \/ AcceptFails \/ Sigpipe \/ Alarm) => IInv'
<1> SUFFICES ASSUME IInv, PipeReadV2Fails \/ Dies \/ Alarm PROVE IInv'
  BY DEF AcceptFails, Sigpipe
<1> USE ScriptAssumption DEF IInv, PipeReadV2Fails, Dies, Alarm, Returned, envVars, scriptVars
<1>1. TypeOK'
  <2>1. CASE Dies
    <3>1. leader' \in [Scripts -> {"none", "running", "zombie", "gone"}]
      BY <2>1 DEF TypeOK
    <3> QED BY <2>1, <3>1 DEF TypeOK
  <2>2. CASE PipeReadV2Fails
    <3>1. open' \in 0..MaxOpen
      BY <2>2 DEF TypeOK
    <3> QED BY <2>2, <3>1 DEF TypeOK
  <2>3. CASE Alarm
    <3>1. fired' \in SUBSET Scripts /\ need_stop_script' \in BOOLEAN /\ alarm_count' \in BOOLEAN
      BY <2>3 DEF TypeOK
    <3> QED BY <2>3, <3>1 DEF TypeOK
  <2> QED BY <2>1, <2>2, <2>3
<1>2. Place'
  BY DEF Place, Serving, BeforeTerm
<1>3. OwnChild'
  BY DEF OwnChild, BeforeTerm
<1>4. Due'
  BY DEF Due
<1>5. Final'
  <2>1. CASE Dies
    BY <2>1 DEF Final, BeforeTerm, TypeOK
  <2>2. CASE PipeReadV2Fails \/ Alarm
    BY <2>2 DEF Final, BeforeTerm
  <2> QED BY <2>1, <2>2
<1>6. Bounded'
  <2>1. Cardinality(ran) \in Nat
    BY FS_Subset, FS_CardinalityType DEF TypeOK
  <2> QED BY <2>1 DEF Bounded, TypeOK
<1> QED BY <1>1, <1>2, <1>3, <1>4, <1>5, <1>6

\* What scripts do on their own.
LEMMA ScriptStep ==
  IInv /\ (\E s \in Scripts : \/ SetPgid(s) \/ StartHelper(s) \/ Write(s)
                              \/ LeaderEnds(s) \/ HelperEnds(s)) => IInv'
<1> SUFFICES ASSUME IInv, NEW s \in Scripts,
                    \/ SetPgid(s) \/ StartHelper(s) \/ Write(s)
                    \/ LeaderEnds(s) \/ HelperEnds(s)
             PROVE  IInv'
  OBVIOUS
<1> USE ScriptAssumption DEF IInv, SetPgid, StartHelper, Write, LeaderEnds, HelperEnds,
        envVars, processVars
<1>1. TypeOK'
  BY DEF TypeOK
<1>2. Place' /\ Due' /\ Bounded'
  BY DEF Place, Due, Bounded
<1>3. OwnChild'
  BY DEF OwnChild, Place, Serving, BeforeTerm, Ended, TypeOK
<1>4. Final'
  BY DEF Final, TypeOK
<1> QED BY <1>1, <1>2, <1>3, <1>4

\* Every behaviour satisfies the invariant.
LEMMA InductiveInvariant == Spec => []IInv
<1>1. IInv /\ [Next]_vars => IInv'
  <2>1. IInv /\ UNCHANGED vars => IInv'
    BY DEF IInv, TypeOK, Place, OwnChild, Due, Final, Bounded, vars, envVars, processVars,
           scriptVars
  <2> QED BY <2>1, StartStep, ServeStep, AfterStep, StopStep, OtherStep, ScriptStep
             DEF Next, Process
<1> QED BY InitIInv, <1>1, PTL DEF Spec

-----------------------------------------------------------------------------
\* The types hold for any scripts and any number of descriptors.
THEOREM TypeCorrect == Spec => []TypeOK
<1>1. IInv => TypeOK
  BY DEF IInv
<1> QED BY <1>1, InductiveInvariant, PTL

\* The first script of a process is never stopped before its time, wherever an alarm
\* comes and whatever is left of earlier requests.
THEOREM FirstStopIsDueAlways == Spec => []FirstStopIsDue
<1>1. IInv => FirstStopIsDue
  BY DEF IInv, Due, FirstStopIsDue
<1> QED BY <1>1, InductiveInvariant, PTL

\* In the pool, kill(-script_pid, SIGTERM) meets the script's own group or no group.
THEOREM TermNamesOwnGroupAlways == Spec => []TermNamesOwnGroup
<1>1. IInv => TermNamesOwnGroup
  BY DEF IInv, OwnChild, TermNamesOwnGroup, BeforeTerm
<1> QED BY <1>1, InductiveInvariant, PTL

\* handle_bash does not return before the leader of a script that got SIGTERM is
\* reaped.
THEOREM StopIsFinalAlways == Spec => []StopIsFinal
<1>1. IInv => StopIsFinal
  BY DEF IInv, Final, StopIsFinal
<1> QED BY <1>1, InductiveInvariant, PTL

\* However many scripts clients ask for, a process starts no more than half as many
\* as it may have descriptors.
THEOREM ScriptsBoundedAlways == Spec => []ScriptsBounded
<1>1. IInv => ScriptsBounded
  <2> SUFFICES ASSUME IInv PROVE ScriptsBounded
    OBVIOUS
  <2>1. Cardinality(ran) \in Nat
    BY ScriptAssumption, FS_Subset, FS_CardinalityType DEF IInv, TypeOK
  <2> QED BY <2>1, ScriptAssumption DEF IInv, TypeOK, Bounded, ScriptsBounded
<1> QED BY <1>1, InductiveInvariant, PTL
=============================================================================
