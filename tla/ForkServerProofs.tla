--------------------------- MODULE ForkServerProofs ---------------------------
(***************************************************************************)
(* The named semaphore of multi_server.c, and the counters it guards, for  *)
(* any number of connections, restarts and signals, and whoever dies       *)
(* where.                                                                  *)
(*                                                                         *)
(* The semaphore first: the steps are proved about an invariant without    *)
(* cardinalities, that says who holds a semaphore; SemaphoreExact counts   *)
(* the holders.  Then the counters, with that invariant as a part of       *)
(* theirs.                                                                 *)
(***************************************************************************)
EXTENDS ForkServer, FiniteSetTheorems, TLAPS

\* Where a process holds the semaphore it has opened, alive or dead.
Holding == Critical \union {"crashed"}
HHolding == HCritical \union {"hcrashed"}

\* Where a child has opened the semaphore.
PastOpen == {"read", "dispatch", "send", "body", "bash", "stop", "wait"} \union Holding

Opener == (\E c \in Conns : pc[c] = "open") \/ (\E r \in Runs : hpc[r] = "hopen")

PcStates == PastOpen \union {"none", "accepted", "open", "end", "killed", "lost"}
HpcStates == HHolding \union {"none", "hopen", "hopen_user1", "wait_user1", "wait_shm"}

\* The types of the variables the semaphore depends on.
SemTypes ==
  /\ run \in 0..MaxRuns /\ name \in 0..MaxRuns /\ nsem \in 0..MaxRuns
  /\ sem \in [Runs -> {0, 1}]
  /\ pc \in [Conns -> PcStates] /\ csem \in [Conns -> 0..MaxRuns]
  /\ after \in [Conns -> {"end", "body", "bash"}]
  /\ hpc \in [Runs -> HpcStates] /\ hsem \in [Runs -> 0..MaxRuns]

\* No more semaphores are created than main unlinked names, and a server that
\* has not unlinked yet is one behind.
Numbers ==
  /\ name <= nsem /\ nsem <= run
  /\ mpc = "unlink" => nsem < run
  /\ name = 0 /\ run # 0 => nsem < run
  /\ mpc = "unlink" /\ name = 0 /\ Opener => nsem < run - 1
  /\ mpc # "down" \/ Opener => run >= 1

\* The semaphores that processes have opened exist.
Handles ==
  /\ \A c \in Conns : pc[c] \in PastOpen => csem[c] \in 1..nsem
  /\ \A r \in Runs : hpc[r] \notin {"none", "hopen"} => hsem[r] \in 1..nsem
  /\ \A r \in Runs : hpc[r] # "none" => r <= run /\ (mpc = "unlink" => r < run)
  /\ mpc = "fork" => mconn \in Conns /\ pc[mconn] = "accepted"

HoldsW(c, i) == csem[c] = i /\ pc[c] \in Holding
HoldsR(r, i) == hsem[r] = i /\ hpc[r] \in HHolding
Held(i) == (\E c \in Conns : HoldsW(c, i)) \/ (\E r \in Runs : HoldsR(r, i))

\* A semaphore that exists is 0 where, and only where, some process holds it,
\* and it has one holder at most.
Exclusive ==
  /\ \A i \in Runs : sem[i] = 1 => i <= nsem
  /\ \A i \in Runs : i <= nsem => (sem[i] = 0 <=> Held(i))
  /\ \A i \in Runs : \A c, d \in Conns : HoldsW(c, i) /\ HoldsW(d, i) => c = d
  /\ \A i \in Runs : \A r, s \in Runs : HoldsR(r, i) /\ HoldsR(s, i) => r = s
  /\ \A i \in Runs : \A c \in Conns, r \in Runs : ~ (HoldsW(c, i) /\ HoldsR(r, i))

IInv == SemTypes /\ Numbers /\ Handles /\ Exclusive

\* The invariant holds before the server is first started.
LEMMA InitIInv == Init => IInv
<1> SUFFICES ASSUME Init PROVE IInv
  OBVIOUS
<1> USE ForkAssumption DEF Init, Runs
<1>1. SemTypes /\ Numbers /\ Handles
  BY DEF SemTypes, Numbers, Handles, Opener, PcStates, HpcStates, PastOpen, Holding, HHolding,
         Critical, HCritical
<1>2. Exclusive
  BY DEF Exclusive, Held, HoldsW, HoldsR, Holding, HHolding, Critical, HCritical
<1> QED BY <1>1, <1>2 DEF IInv

-----------------------------------------------------------------------------
\* A child that has opened the semaphore goes on, and neither takes it nor
\* gives it back.
LEMMA ChildStep ==
  ASSUME IInv, NEW c \in Conns, NEW p \in PcStates,
         pc[c] \in PastOpen, pc' = [pc EXCEPT ![c] = p],
         p # "open", p \in Holding <=> pc[c] \in Holding,
         after' \in [Conns -> {"end", "body", "bash"}],
         UNCHANGED <<mainVars, semVars, csem, hpc, hsem>>
  PROVE  IInv'
<1> USE ForkAssumption DEF mainVars, semVars
<1>1. SemTypes'
  BY DEF IInv, SemTypes
<1>2. \A d \in Conns : /\ pc'[d] = "open" => pc[d] = "open"
                       /\ pc'[d] \in PastOpen => pc[d] \in PastOpen
                       /\ pc'[d] \in Holding <=> pc[d] \in Holding
                       /\ pc[d] = "accepted" => pc'[d] = "accepted"
  BY DEF IInv, SemTypes, PastOpen, Holding, Critical
<1>3. Numbers'
  BY <1>2 DEF IInv, Numbers, Opener
<1>4. Handles'
  BY <1>2 DEF IInv, Handles
<1>5. \A i \in Runs, d \in Conns : HoldsW(d, i)' <=> HoldsW(d, i)
  BY <1>2 DEF HoldsW
<1>6. \A i \in Runs, r \in Runs : HoldsR(r, i)' <=> HoldsR(r, i)
  BY DEF HoldsR
<1>7. Exclusive'
  BY <1>5, <1>6 DEF IInv, Exclusive, Held
<1> QED BY <1>1, <1>3, <1>4, <1>7 DEF IInv

\* Processes die, or main comes and goes, while the semaphores stay as they are.
LEMMA DeathStep ==
  ASSUME IInv, SemTypes', Numbers',
         \A d \in Conns : /\ pc'[d] \in PastOpen => pc[d] \in PastOpen
                          /\ pc'[d] \in Holding <=> pc[d] \in Holding,
         run' = run, mpc' = "unlink" => mpc = "unlink",
         mpc' = "fork" => mconn' \in Conns /\ pc'[mconn'] = "accepted",
         \A r \in Runs : /\ hpc'[r] \notin {"none", "hopen"} => hpc[r] \notin {"none", "hopen"}
                         /\ hpc'[r] # "none" => hpc[r] # "none"
                         /\ hpc'[r] \in HHolding <=> hpc[r] \in HHolding,
         UNCHANGED <<nsem, sem, csem, hsem>>
  PROVE  IInv'
<1>1. Handles'
  BY DEF IInv, Handles
<1>2. \A i \in Runs, d \in Conns : HoldsW(d, i)' <=> HoldsW(d, i)
  BY DEF HoldsW
<1>3. \A i \in Runs, r \in Runs : HoldsR(r, i)' <=> HoldsR(r, i)
  BY DEF HoldsR
<1>4. Exclusive'
  BY <1>2, <1>3 DEF IInv, Exclusive, Held
<1> QED BY <1>1, <1>4 DEF IInv

\* sem_open finds or creates a semaphore; one that is new is free.
LEMMA OpenStep ==
  ASSUME IInv, Opener, SemOpen
  PROVE  /\ name' \in 1..nsem' /\ nsem' \in 1..run /\ run \in 1..MaxRuns
         /\ mpc = "unlink" => nsem' < run
         /\ name' = Opened /\ nsem <= nsem'
         /\ sem' \in [Runs -> {0, 1}]
         /\ \A i \in Runs : i <= nsem => i <= nsem' /\ sem'[i] = sem[i]
         /\ \A i \in Runs : ~ (i <= nsem) => (sem'[i] = 1 <=> i <= nsem')
<1> USE ForkAssumption DEF Runs
<1>1. /\ run \in 1..MaxRuns /\ name \in 0..nsem /\ nsem \in 0..run
      /\ name = 0 => nsem + 1 \in 1..run /\ (mpc = "unlink" => nsem + 1 < run)
      /\ mpc = "unlink" => nsem < run
  BY DEF IInv, SemTypes, Numbers
<1>2. sem \in [Runs -> {0, 1}] /\ \A i \in Runs : ~ (i <= nsem) => sem[i] = 0
  BY DEF IInv, SemTypes, Exclusive
<1>3. CASE name = 0
  BY <1>1, <1>2, <1>3 DEF SemOpen, Opened
<1>4. CASE name # 0
  BY <1>1, <1>2, <1>4 DEF SemOpen, Opened
<1> QED BY <1>3, <1>4

\* Nobody holds a semaphore that does not exist.
LEMMA HeldExists == IInv => \A i \in Runs : Held(i) => i <= nsem
<1> SUFFICES ASSUME IInv, NEW i \in Runs, Held(i) PROVE i <= nsem
  OBVIOUS
<1>1. CASE \E c \in Conns : HoldsW(c, i)
  <2>1. PICK c \in Conns : csem[c] = i /\ pc[c] \in PastOpen
    BY <1>1 DEF HoldsW, PastOpen
  <2> QED BY <2>1 DEF IInv, Handles
<1>2. CASE \E r \in Runs : HoldsR(r, i)
  <2>1. PICK r \in Runs : hsem[r] = i /\ hpc[r] \notin {"none", "hopen"}
    BY <1>2 DEF HoldsR, HHolding, HCritical
  <2> QED BY <2>1 DEF IInv, Handles
<1> QED BY <1>1, <1>2 DEF Held

\* do_call's first part: the child has a semaphore then, or ends.
LEMMA DoCallOpenStep ==
  ASSUME IInv, NEW c \in Conns, DoCallOpen(c)
  PROVE  IInv'
<1> USE ForkAssumption DEF mainVars, semVars, shmVars, handlerVars, auxVars, Runs
<1>0. /\ pc[c] = "open" /\ Opener /\ \E p \in {"read", "killed", "end"} : pc' = [pc EXCEPT ![c] = p]
      /\ UNCHANGED <<mainVars, after, hpc, hsem>>
  BY DEF DoCallOpen, Opener
<1>1. \A d \in Conns : /\ pc'[d] \in Holding <=> pc[d] \in Holding
                       /\ pc'[d] \in PastOpen => d = c \/ pc[d] \in PastOpen
                       /\ pc'[d] = "open" => pc[d] = "open"
                       /\ pc[d] = "accepted" => pc'[d] = "accepted"
                       /\ pc'[d] \in PcStates
  BY <1>0 DEF IInv, SemTypes, PcStates, PastOpen, Holding, Critical
<1>2. CASE UNCHANGED <<semVars, csem>> /\ pc' = [pc EXCEPT ![c] = "end"]
  <2>1. SemTypes' /\ Numbers'
    BY <1>0, <1>1, <1>2 DEF IInv, SemTypes, Numbers, Opener, PcStates
  <2>2. \A d \in Conns : pc'[d] \in PastOpen => pc[d] \in PastOpen
    BY <1>0, <1>1, <1>2 DEF IInv, SemTypes, PastOpen, Holding, Critical
  <2>3. mpc' = "fork" => mconn' \in Conns /\ pc'[mconn'] = "accepted"
    BY <1>0, <1>1 DEF IInv, Handles
  <2> QED BY <1>0, <1>1, <1>2, <2>1, <2>2, <2>3, DeathStep
<1>3. CASE SemOpen /\ csem' = [csem EXCEPT ![c] = Opened]
  <2>1. SemTypes'
    BY <1>0, <1>1, <1>3, OpenStep DEF IInv, SemTypes, PcStates
  <2>2. Numbers'
    BY <1>0, <1>1, <1>3, OpenStep DEF IInv, SemTypes, Numbers, Opener
  <2>3. Handles'
    BY <1>0, <1>1, <1>3, OpenStep DEF IInv, SemTypes, Handles
  <2>4. \A i \in Runs, d \in Conns : HoldsW(d, i)' <=> HoldsW(d, i)
    BY <1>0, <1>1, <1>3 DEF IInv, SemTypes, HoldsW, Holding, Critical
  <2>5. \A i \in Runs, r \in Runs : HoldsR(r, i)' <=> HoldsR(r, i)
    BY <1>0 DEF HoldsR
  <2>6. \A i \in Runs : Held(i)' <=> Held(i)
    BY <2>4, <2>5 DEF Held
  <2>7. \A i \in Runs : Held(i) => i <= nsem
    BY HeldExists
  <2>8. Exclusive'
    BY <1>0, <1>3, <2>4, <2>5, <2>6, <2>7, OpenStep DEF IInv, SemTypes, Exclusive
  <2> QED BY <2>1, <2>2, <2>3, <2>8 DEF IInv
<1> QED BY <1>2, <1>3 DEF DoCallOpen

\* The same of the SIGUSR1 process.
LEMMA HandlerOpenStep ==
  ASSUME IInv, NEW r \in Runs, HandlerOpen(r)
  PROVE  IInv'
<1> USE ForkAssumption DEF mainVars, semVars, childVars, auxVars, Runs
<1>0. /\ hpc[r] = "hopen" /\ Opener /\ hpc' = [hpc EXCEPT ![r] = "hopen_user1"]
      /\ SemOpen /\ hsem' = [hsem EXCEPT ![r] = Opened]
      /\ UNCHANGED <<mainVars, pc, csem, after>>
  BY DEF HandlerOpen, Opener
<1>1. \A s \in Runs : /\ hpc'[s] \in HHolding <=> hpc[s] \in HHolding
                      /\ hpc'[s] \notin {"none", "hopen"} => s = r \/ hpc[s] \notin {"none", "hopen"}
                      /\ hpc'[s] = "hopen" => hpc[s] = "hopen"
                      /\ hpc'[s] # "none" => hpc[s] # "none"
                      /\ hpc'[s] \in HpcStates
  BY <1>0 DEF IInv, SemTypes, HpcStates, HHolding, HCritical
<1>2. SemTypes'
  <2>1. hpc' \in [Runs -> HpcStates]
    BY <1>0, <1>1 DEF IInv, SemTypes
  <2>2. /\ run' \in 0..MaxRuns /\ name' \in 0..MaxRuns /\ nsem' \in 0..MaxRuns
        /\ sem' \in [Runs -> {0, 1}] /\ Opened \in 0..MaxRuns
    BY <1>0, OpenStep
  <2>3. hsem' \in [Runs -> 0..MaxRuns]
    BY <1>0, <2>2 DEF IInv, SemTypes
  <2> QED BY <1>0, <2>1, <2>2, <2>3 DEF IInv, SemTypes
<1>3. Numbers'
  BY <1>0, <1>1, OpenStep DEF IInv, SemTypes, Numbers, Opener
<1>4. Handles'
  <2>1. /\ Opened \in 1..nsem' /\ nsem <= nsem' /\ nsem \in Nat /\ nsem' \in Nat
        /\ \A i \in 1..nsem : i \in 1..nsem'
    BY <1>0, OpenStep DEF IInv, SemTypes
  <2>2. \A c \in Conns : pc'[c] \in PastOpen => csem'[c] \in 1..nsem'
    BY <1>0, <2>1 DEF IInv, Handles
  <2>3. \A s \in Runs : hsem'[s] = IF s = r THEN Opened ELSE hsem[s]
    BY <1>0 DEF IInv, SemTypes
  <2>4. \A s \in Runs : hpc'[s] \notin {"none", "hopen"} => hsem'[s] \in 1..nsem'
    BY <1>1, <2>1, <2>3 DEF IInv, Handles
  <2>5. \A s \in Runs : hpc'[s] # "none" => s <= run /\ (mpc = "unlink" => s < run)
    BY <1>1 DEF IInv, Handles
  <2> QED BY <1>0, <2>2, <2>4, <2>5 DEF IInv, Handles, mainVars
<1>5. \A i \in Runs, d \in Conns : HoldsW(d, i)' <=> HoldsW(d, i)
  BY <1>0 DEF HoldsW
<1>6. \A i \in Runs, s \in Runs : HoldsR(s, i)' <=> HoldsR(s, i)
  BY <1>0, <1>1 DEF IInv, SemTypes, HoldsR, HHolding, HCritical
<1>7. \A i \in Runs : Held(i)' <=> Held(i)
  BY <1>5, <1>6 DEF Held
<1>8. \A i \in Runs : Held(i) => i <= nsem
  BY HeldExists
<1>9. Exclusive'
  <2>1. /\ sem' \in [Runs -> {0, 1}]
        /\ \A i \in Runs : i <= nsem => i <= nsem' /\ sem'[i] = sem[i]
        /\ \A i \in Runs : ~ (i <= nsem) => (sem'[i] = 1 <=> i <= nsem')
    BY <1>0, OpenStep
  <2>2. \A i \in Runs : sem'[i] = 1 => i <= nsem'
    BY <2>1 DEF IInv, Exclusive
  <2>3. \A i \in Runs : i <= nsem' => (sem'[i] = 0 <=> Held(i))
    BY <1>8, <2>1 DEF IInv, Exclusive
  <2> QED BY <1>5, <1>6, <1>7, <2>2, <2>3 DEF IInv, Exclusive
<1> QED BY <1>2, <1>3, <1>4, <1>9 DEF IInv

-----------------------------------------------------------------------------
\* sem_wait of a child: the semaphore is free, and the child its holder then.
LEMMA SemWaitStep ==
  ASSUME IInv, NEW c \in Conns, SemWait(c)
  PROVE  IInv'
<1> USE ForkAssumption DEF mainVars, childVars, handlerVars, auxVars, Runs
<1> DEFINE j == csem[c]
<1>0. /\ pc[c] = "wait" /\ sem[j] > 0 /\ sem' = [sem EXCEPT ![j] = @ - 1]
      /\ pc' = [pc EXCEPT ![c] = "load_requests"]
      /\ UNCHANGED <<mainVars, name, nsem, csem, after, hpc, hsem>>
  BY DEF SemWait
<1>1. j \in Runs /\ j <= nsem /\ sem[j] = 1 /\ sem' = [sem EXCEPT ![j] = 0]
  <2>1. j \in 1..nsem /\ nsem \in 0..MaxRuns
    BY <1>0 DEF IInv, SemTypes, Handles, PastOpen
  <2>2. j \in Runs /\ sem[j] \in {0, 1} /\ sem \in [Runs -> {0, 1}]
    BY <2>1 DEF IInv, SemTypes
  <2>3. sem[j] = 1
    BY <1>0, <2>2
  <2> QED BY <1>0, <2>1, <2>2, <2>3
<1>2. \A d \in Conns : /\ pc'[d] \in Holding <=> d = c \/ pc[d] \in Holding
                       /\ pc'[d] \in PastOpen <=> pc[d] \in PastOpen
                       /\ pc'[d] = "open" <=> pc[d] = "open"
                       /\ pc[d] = "accepted" => pc'[d] = "accepted"
                       /\ pc'[d] \in PcStates
  BY <1>0 DEF IInv, SemTypes, PcStates, PastOpen, Holding, Critical
<1>3. SemTypes'
  BY <1>0, <1>1, <1>2 DEF IInv, SemTypes, PcStates
<1>4. Numbers' /\ Handles'
  BY <1>0, <1>2 DEF IInv, Numbers, Handles, Opener
<1>5. ~ Held(j)
  BY <1>1 DEF IInv, Exclusive
<1>6. \A i \in Runs, d \in Conns : HoldsW(d, i)' <=> HoldsW(d, i) \/ (d = c /\ i = j)
  BY <1>0, <1>2 DEF HoldsW
<1>7. \A i \in Runs, r \in Runs : HoldsR(r, i)' <=> HoldsR(r, i)
  BY <1>0 DEF HoldsR
<1>8. \A i \in Runs : Held(i)' <=> Held(i) \/ i = j
  BY <1>6, <1>7 DEF Held
<1>9. \A i \in Runs : sem'[i] = IF i = j THEN 0 ELSE sem[i]
  BY <1>1 DEF IInv, SemTypes
<1> HIDE DEF j
<1>10. \A d \in Conns, r \in Runs : ~ HoldsW(d, j) /\ ~ HoldsR(r, j)
  BY <1>1, <1>5 DEF Held
<1>11. nsem' = nsem /\ Exclusive
  BY <1>0 DEF IInv
<1>12. Exclusive'
  BY <1>1, <1>6, <1>7, <1>8, <1>9, <1>10, <1>11 DEF Exclusive
<1> QED BY <1>3, <1>4, <1>12 DEF IInv

\* sem_post of a child: it was the holder, and nobody is then.
LEMMA SemPostStep ==
  ASSUME IInv, NEW c \in Conns, SemPost(c)
  PROVE  IInv'
<1> USE ForkAssumption DEF mainVars, shmVars, handlerVars, auxVars, Runs
<1> DEFINE j == csem[c]
<1>0. /\ pc[c] = "post" /\ sem' = [sem EXCEPT ![j] = @ + 1]
      /\ \E p \in {"end", "body", "bash"} : pc' = [pc EXCEPT ![c] = p]
      /\ after' \in [Conns -> {"end", "body", "bash"}]
      /\ UNCHANGED <<mainVars, name, nsem, csem, hpc, hsem>>
  BY DEF SemPost, IInv, SemTypes
<1>1. j \in Runs /\ j <= nsem /\ HoldsW(c, j)
  <2>1. j \in 1..nsem /\ nsem \in 0..MaxRuns
    BY <1>0 DEF IInv, SemTypes, Handles, PastOpen, Holding, Critical
  <2> QED BY <1>0, <2>1 DEF HoldsW, Holding, Critical
<1>2. \A d \in Conns : /\ pc'[d] \in Holding <=> d # c /\ pc[d] \in Holding
                       /\ pc'[d] \in PastOpen => pc[d] \in PastOpen
                       /\ pc'[d] = "open" => pc[d] = "open"
                       /\ pc[d] = "accepted" => pc'[d] = "accepted"
                       /\ pc'[d] \in PcStates
  BY <1>0 DEF IInv, SemTypes, PcStates, PastOpen, Holding, Critical
<1>3. sem[j] = 0 /\ sem \in [Runs -> {0, 1}]
  BY <1>1 DEF IInv, SemTypes, Exclusive, Held
<1>4. sem' = [sem EXCEPT ![j] = 1]
  BY <1>0, <1>3
<1>5. SemTypes'
  BY <1>0, <1>2, <1>4 DEF IInv, SemTypes, PcStates
<1>6. Numbers' /\ Handles'
  BY <1>0, <1>2 DEF IInv, Numbers, Handles, Opener
<1>7. \A i \in Runs, d \in Conns : HoldsW(d, i)' <=> HoldsW(d, i) /\ d # c
  BY <1>0, <1>2 DEF HoldsW
<1>8. \A i \in Runs, r \in Runs : HoldsR(r, i)' <=> HoldsR(r, i)
  BY <1>0 DEF HoldsR
<1>9. \A i \in Runs : sem'[i] = IF i = j THEN 1 ELSE sem[i]
  BY <1>3, <1>4
<1>10. \A i \in Runs : HoldsW(c, i) => i = j
  BY DEF HoldsW
<1> HIDE DEF j
<1>11. nsem' = nsem /\ Exclusive
  BY <1>0 DEF IInv
<1>12. \A i \in Runs : Held(i)' <=> Held(i) /\ i # j
  BY <1>1, <1>7, <1>8, <1>10, <1>11 DEF Held, Exclusive
<1>13. Exclusive'
  BY <1>1, <1>7, <1>8, <1>9, <1>11, <1>12 DEF Exclusive
<1> QED BY <1>5, <1>6, <1>13 DEF IInv

\* The SIGUSR1 process takes the semaphore.
LEMMA HandlerWaitShmStep ==
  ASSUME IInv, NEW r \in Runs, HandlerWaitShm(r)
  PROVE  IInv'
<1> USE ForkAssumption DEF mainVars, childVars, auxVars, Runs
<1> DEFINE j == hsem[r]
<1>0. /\ hpc[r] = "wait_shm" /\ sem[j] > 0 /\ sem' = [sem EXCEPT ![j] = @ - 1]
      /\ hpc' = [hpc EXCEPT ![r] = "read_value"]
      /\ UNCHANGED <<mainVars, name, nsem, csem, pc, after, hsem>>
  BY DEF HandlerWaitShm
<1>1. j \in Runs /\ j <= nsem /\ sem[j] = 1 /\ sem' = [sem EXCEPT ![j] = 0]
  <2>1. j \in 1..nsem /\ nsem \in 0..MaxRuns
    BY <1>0 DEF IInv, SemTypes, Handles
  <2>2. j \in Runs /\ sem[j] \in {0, 1} /\ sem \in [Runs -> {0, 1}]
    BY <2>1 DEF IInv, SemTypes
  <2>3. sem[j] = 1
    BY <1>0, <2>2
  <2> QED BY <1>0, <2>1, <2>2, <2>3
<1>2. \A s \in Runs : /\ hpc'[s] \in HHolding <=> s = r \/ hpc[s] \in HHolding
                      /\ hpc'[s] \notin {"none", "hopen"} <=> hpc[s] \notin {"none", "hopen"}
                      /\ hpc'[s] = "hopen" <=> hpc[s] = "hopen"
                      /\ hpc'[s] \in HpcStates
  BY <1>0 DEF IInv, SemTypes, HpcStates, HHolding, HCritical
<1>3. SemTypes'
  BY <1>0, <1>1, <1>2 DEF IInv, SemTypes, HpcStates
<1>4. Numbers' /\ Handles'
  BY <1>0, <1>2 DEF IInv, Numbers, Handles, Opener
<1>5. ~ Held(j)
  BY <1>1 DEF IInv, Exclusive
<1>6. \A i \in Runs, d \in Conns : HoldsW(d, i)' <=> HoldsW(d, i)
  BY <1>0 DEF HoldsW
<1>7. \A i \in Runs, s \in Runs : HoldsR(s, i)' <=> HoldsR(s, i) \/ (s = r /\ i = j)
  BY <1>0, <1>2 DEF HoldsR
<1>8. \A i \in Runs : Held(i)' <=> Held(i) \/ i = j
  BY <1>6, <1>7 DEF Held
<1>9. \A i \in Runs : sem'[i] = IF i = j THEN 0 ELSE sem[i]
  BY <1>1 DEF IInv, SemTypes
<1> HIDE DEF j
<1>10. /\ \A d \in Conns : ~ HoldsW(d, j)
       /\ \A s \in Runs : ~ HoldsR(s, j)
  BY <1>1, <1>5 DEF Held
<1>11. nsem' = nsem /\ Exclusive
  BY <1>0 DEF IInv
<1>12. Exclusive'
  <2>1. \A i \in Runs : /\ sem'[i] = 1 => i <= nsem'
                        /\ i <= nsem' => (sem'[i] = 0 <=> Held(i)')
    BY <1>1, <1>8, <1>9, <1>11 DEF Exclusive
  <2>2. \A i \in Runs : \A c, d \in Conns : HoldsW(c, i)' /\ HoldsW(d, i)' => c = d
    BY <1>6, <1>11 DEF Exclusive
  <2>3. \A i \in Runs : \A s, q \in Runs : HoldsR(s, i)' /\ HoldsR(q, i)' => s = q
    <3> SUFFICES ASSUME NEW i \in Runs, NEW s \in Runs, NEW q \in Runs,
                        HoldsR(s, i)', HoldsR(q, i)'
                 PROVE  s = q
      OBVIOUS
    <3>1. /\ HoldsR(s, i) \/ (s = r /\ i = j)
          /\ HoldsR(q, i) \/ (q = r /\ i = j)
      BY <1>7
    <3>2. CASE i = j
      BY <3>1, <3>2, <1>10 DEF HoldsR
    <3>3. CASE i # j
      BY <3>1, <3>3, <1>11 DEF Exclusive
    <3> QED BY <3>2, <3>3
  <2>4. \A i \in Runs : \A c \in Conns, s \in Runs : ~ (HoldsW(c, i)' /\ HoldsR(s, i)')
    BY <1>6, <1>7, <1>10, <1>11 DEF Exclusive
  <2> QED BY <2>1, <2>2, <2>3, <2>4 DEF Exclusive
<1> QED BY <1>3, <1>4, <1>12 DEF IInv

\* The SIGUSR1 process gives it back.
LEMMA HandlerPostStep ==
  ASSUME IInv, NEW r \in Runs, HandlerPost(r)
  PROVE  IInv'
<1> USE ForkAssumption DEF mainVars, childVars, auxVars, Runs
<1> DEFINE j == hsem[r]
<1>0. /\ hpc[r] = "hpost" /\ sem' = [sem EXCEPT ![j] = @ + 1]
      /\ hpc' = [hpc EXCEPT ![r] = "wait_user1"]
      /\ UNCHANGED <<mainVars, name, nsem, csem, pc, after, hsem>>
  BY DEF HandlerPost
<1>1. j \in Runs /\ j <= nsem /\ HoldsR(r, j)
  <2>1. j \in 1..nsem /\ nsem \in 0..MaxRuns
    BY <1>0 DEF IInv, SemTypes, Handles
  <2> QED BY <1>0, <2>1 DEF HoldsR, HHolding, HCritical
<1>2. \A s \in Runs : /\ hpc'[s] \in HHolding <=> s # r /\ hpc[s] \in HHolding
                      /\ hpc'[s] \notin {"none", "hopen"} <=> hpc[s] \notin {"none", "hopen"}
                      /\ hpc'[s] = "hopen" <=> hpc[s] = "hopen"
                      /\ hpc'[s] \in HpcStates
  BY <1>0 DEF IInv, SemTypes, HpcStates, HHolding, HCritical
<1>3. sem[j] = 0 /\ sem \in [Runs -> {0, 1}]
  BY <1>1 DEF IInv, SemTypes, Exclusive, Held
<1>4. sem' = [sem EXCEPT ![j] = 1]
  BY <1>0, <1>3
<1>5. SemTypes'
  BY <1>0, <1>2, <1>4 DEF IInv, SemTypes, HpcStates
<1>6. Numbers' /\ Handles'
  BY <1>0, <1>2 DEF IInv, Numbers, Handles, Opener
<1>7. \A i \in Runs, d \in Conns : HoldsW(d, i)' <=> HoldsW(d, i)
  BY <1>0 DEF HoldsW
<1>8. \A i \in Runs, s \in Runs : HoldsR(s, i)' <=> HoldsR(s, i) /\ s # r
  BY <1>0, <1>2 DEF HoldsR
<1>9. \A i \in Runs : sem'[i] = IF i = j THEN 1 ELSE sem[i]
  BY <1>3, <1>4
<1>10. \A i \in Runs : HoldsR(r, i) => i = j
  BY DEF HoldsR
<1> HIDE DEF j
<1>11. nsem' = nsem /\ Exclusive
  BY <1>0 DEF IInv
<1>12. \A i \in Runs : Held(i)' <=> Held(i) /\ i # j
  BY <1>1, <1>7, <1>8, <1>10, <1>11 DEF Held, Exclusive
<1>13. Exclusive'
  BY <1>1, <1>7, <1>8, <1>9, <1>11, <1>12 DEF Exclusive
<1> QED BY <1>5, <1>6, <1>13 DEF IInv

\* The other steps of the SIGUSR1 process.
LEMMA HandlerStep ==
  ASSUME IInv, NEW r \in Runs,
         HandlerOpenUser1(r) \/ HandlerWaitUser1(r) \/ HandlerRead(r)
  PROVE  IInv'
<1> USE ForkAssumption DEF mainVars, semVars, childVars, auxVars, Runs
<1>0. /\ \/ /\ hpc[r] = "hopen_user1" /\ hpc' = [hpc EXCEPT ![r] = "wait_user1"]
         \/ /\ hpc[r] = "wait_user1" /\ hpc' = [hpc EXCEPT ![r] = "wait_shm"]
         \/ /\ hpc[r] = "read_value"
            /\ \E p \in HHolding : hpc' = [hpc EXCEPT ![r] = p]
      /\ UNCHANGED <<mainVars, semVars, csem, pc, after, hsem>>
  BY DEF HandlerOpenUser1, HandlerWaitUser1, HandlerRead, HHolding, HCritical
<1>1. \A s \in Runs : /\ hpc'[s] \in HHolding <=> hpc[s] \in HHolding
                      /\ hpc'[s] \notin {"none", "hopen"} <=> hpc[s] \notin {"none", "hopen"}
                      /\ hpc'[s] = "hopen" <=> hpc[s] = "hopen"
                      /\ hpc'[s] \in HpcStates
  BY <1>0 DEF IInv, SemTypes, HpcStates, HHolding, HCritical
<1>2. hpc' \in [Runs -> HpcStates]
  BY <1>0, <1>1 DEF IInv, SemTypes
<1>3. SemTypes' /\ Numbers'
  BY <1>0, <1>1, <1>2 DEF IInv, SemTypes, Numbers, Opener
<1>4. mpc' = "fork" => mconn' \in Conns /\ pc'[mconn'] = "accepted"
  BY <1>0 DEF IInv, Handles
<1> QED BY <1>0, <1>1, <1>3, <1>4, DeathStep

-----------------------------------------------------------------------------
\* main starts, accepts and forks.
LEMMA MainStep ==
  ASSUME IInv, Main \/ MainFails \/ ExitHandler \/ Siguser1 \/ UNCHANGED vars
  PROVE  IInv'
<1> USE ForkAssumption DEF vars, mainVars, semVars, childVars, handlerVars, auxVars, Runs
<1>0. /\ SemTypes /\ Numbers /\ Handles
  BY DEF IInv
<1>1. CASE MainZero
  <2>0. /\ mpc = "down" /\ run < MaxRuns /\ run' = run + 1 /\ mpc' = "unlink"
        /\ UNCHANGED <<name, nsem, sem, pc, csem, after, hpc, hsem>>
    BY <1>1 DEF MainZero
  <2>1. SemTypes' /\ Numbers' /\ Handles'
    BY <1>0, <2>0 DEF SemTypes, Numbers, Handles, Opener
  <2>2. Exclusive'
    BY <2>0 DEF IInv, Exclusive, Held, HoldsW, HoldsR
  <2> QED BY <2>1, <2>2 DEF IInv
<1>2. CASE MainUnlink
  <2>0. /\ mpc = "unlink" /\ mpc' = "accept" /\ name' = 0
        /\ hpc' = [hpc EXCEPT ![run] = "hopen"]
        /\ UNCHANGED <<run, nsem, sem, pc, csem, after, hsem>>
    BY <1>2 DEF MainUnlink
  <2>1. run \in Runs /\ hpc[run] = "none"
    BY <1>0, <2>0 DEF SemTypes, Numbers, Handles
  <2>2. SemTypes'
    BY <1>0, <2>0, <2>1 DEF SemTypes, HpcStates
  <2>3. Numbers'
    BY <1>0, <2>0, <2>1 DEF SemTypes, Numbers
  <2>4. Handles'
    BY <1>0, <2>0, <2>1 DEF SemTypes, Handles
  <2>5. \A i \in Runs, r \in Runs : HoldsR(r, i)' <=> HoldsR(r, i)
    BY <1>0, <2>0, <2>1 DEF SemTypes, HoldsR, HHolding, HCritical
  <2>6. \A i \in Runs, c \in Conns : HoldsW(c, i)' <=> HoldsW(c, i)
    BY <2>0 DEF HoldsW
  <2>7. Exclusive'
    BY <2>0, <2>5, <2>6 DEF IInv, Exclusive, Held
  <2> QED BY <2>2, <2>3, <2>4, <2>7 DEF IInv
<1>3. CASE Fork
  <2>0. /\ mpc = "fork" /\ mpc' = "accept" /\ pc' = [pc EXCEPT ![mconn] = "open"]
        /\ UNCHANGED <<run, semVars, csem, after, hpc, hsem>>
    BY <1>3 DEF Fork
  <2>1. mconn \in Conns /\ pc[mconn] = "accepted"
    BY <1>0, <2>0 DEF Handles
  <2>2. SemTypes' /\ Numbers'
    BY <1>0, <2>0, <2>1 DEF SemTypes, Numbers, PcStates
  <2>3. \A d \in Conns : /\ pc'[d] \in PastOpen => pc[d] \in PastOpen
                         /\ pc'[d] \in Holding <=> pc[d] \in Holding
    BY <1>0, <2>0, <2>1 DEF SemTypes, PastOpen, Holding, Critical
  <2> QED BY <2>0, <2>2, <2>3, DeathStep
<1>4. CASE MainFails
  <2>0. /\ mpc' = "down"
        /\ pc' = [c \in Conns |-> IF pc[c] = "accepted" THEN "lost" ELSE pc[c]]
        /\ UNCHANGED <<run, semVars, csem, after, hpc, hsem>>
    BY <1>4 DEF MainFails
  <2>1. SemTypes' /\ Numbers'
    BY <1>0, <2>0 DEF SemTypes, Numbers, Opener, PcStates
  <2>2. \A d \in Conns : /\ pc'[d] \in PastOpen => pc[d] \in PastOpen
                         /\ pc'[d] \in Holding <=> pc[d] \in Holding
    BY <2>0 DEF PastOpen, Holding, Critical
  <2> QED BY <2>0, <2>1, <2>2, DeathStep
<1>5. CASE ExitHandler
  <2>0. /\ mpc # "down" /\ mpc' = "down"
        /\ pc' = [c \in Conns |-> IF crun[c] = run THEN Exited(c) ELSE pc[c]]
        /\ hpc' = [hpc EXCEPT ![run] = IF @ \in HCritical \union {"hcrashed"} THEN "hcrashed"
                                      ELSE "none"]
        /\ UNCHANGED <<run, semVars, csem, after, hsem>>
    BY <1>5 DEF ExitHandler
  <2>1. \A d \in Conns : /\ pc'[d] \in PastOpen => pc[d] \in PastOpen
                         /\ pc'[d] \in Holding <=> pc[d] \in Holding
                         /\ pc'[d] = "open" => pc[d] = "open"
                         /\ pc'[d] \in PcStates
    BY <1>0, <2>0 DEF SemTypes, Exited, Alive, Dead, PastOpen, Holding, Critical, PcStates
  <2>2. \A r \in Runs : /\ hpc'[r] \notin {"none", "hopen"} => hpc[r] \notin {"none", "hopen"}
                        /\ hpc'[r] # "none" => hpc[r] # "none"
                        /\ hpc'[r] = "hopen" => hpc[r] = "hopen"
                        /\ hpc'[r] \in HHolding <=> hpc[r] \in HHolding
                        /\ hpc'[r] \in HpcStates
    BY <1>0, <2>0 DEF SemTypes, HHolding, HCritical, HpcStates
  <2>3. pc' \in [Conns -> PcStates] /\ hpc' \in [Runs -> HpcStates]
    BY <1>0, <2>0, <2>1, <2>2 DEF SemTypes
  <2>4. SemTypes' /\ Numbers'
    BY <1>0, <2>0, <2>1, <2>2, <2>3 DEF SemTypes, Numbers, Opener
  <2> QED BY <2>0, <2>1, <2>2, <2>4, DeathStep
<1>6. CASE Siguser1 \/ UNCHANGED vars
  <2>0. UNCHANGED <<mainVars, semVars, pc, csem, after, hpc, hsem>>
    BY <1>6 DEF Siguser1
  <2>1. SemTypes' /\ Numbers' /\ Handles'
    BY <1>0, <2>0 DEF SemTypes, Numbers, Handles, Opener
  <2>2. Exclusive'
    BY <2>0 DEF IInv, Exclusive, Held, HoldsW, HoldsR
  <2> QED BY <2>1, <2>2 DEF IInv
<1> QED BY <1>1, <1>2, <1>3, <1>4, <1>5, <1>6 DEF Main
-----------------------------------------------------------------------------
\* server accepts a connection.
LEMMA AcceptStep ==
  ASSUME IInv, NEW c \in Conns, Accept(c)
  PROVE  IInv'
<1> USE ForkAssumption DEF semVars, shmVars, handlerVars, Runs
<1>0. /\ mpc = "accept" /\ pc[c] = "none" /\ mpc' = "fork" /\ mconn' = c
      /\ pc' = [pc EXCEPT ![c] = "accepted"]
      /\ UNCHANGED <<run, semVars, csem, after, hpc, hsem>>
  BY DEF Accept
<1>1. pc \in [Conns -> PcStates]
  BY DEF IInv, SemTypes
<1>2. \A d \in Conns : /\ pc'[d] \in PastOpen => pc[d] \in PastOpen
                       /\ pc'[d] \in Holding <=> pc[d] \in Holding
                       /\ pc'[d] = "open" => pc[d] = "open"
  BY <1>0, <1>1 DEF PastOpen, Holding, Critical
<1>3. SemTypes'
  BY <1>0 DEF IInv, SemTypes, PcStates
<1>4. Numbers'
  BY <1>0, <1>2 DEF IInv, Numbers, Opener
<1>5. mconn' \in Conns /\ pc'[mconn'] = "accepted"
  BY <1>0, <1>1
<1> QED BY <1>0, <1>2, <1>3, <1>4, <1>5, DeathStep

\* A child dies of SIGINT, wherever it is.
LEMMA StrayExitStep ==
  ASSUME IInv, NEW c \in Conns, StrayExit(c)
  PROVE  IInv'
<1> USE ForkAssumption DEF mainVars, semVars, childVars, handlerVars, auxVars, Runs
<1>0. /\ pc[c] # "accepted" /\ Alive(c) /\ pc' = [pc EXCEPT ![c] = Exited(c)]
      /\ UNCHANGED <<mainVars, semVars, csem, after, hpc, hsem>>
  BY DEF StrayExit
<1>1. pc \in [Conns -> PcStates]
  BY DEF IInv, SemTypes
<1>2. \A d \in Conns : /\ pc'[d] \in PastOpen => pc[d] \in PastOpen
                       /\ pc'[d] \in Holding <=> pc[d] \in Holding
                       /\ pc'[d] = "open" => pc[d] = "open"
                       /\ pc[d] = "accepted" => pc'[d] = "accepted"
                       /\ pc'[d] \in PcStates
  BY <1>0, <1>1 DEF Exited, Alive, Dead, PastOpen, Holding, Critical, PcStates
<1>3. pc' \in [Conns -> PcStates]
  BY <1>0, <1>1, <1>2
<1>4. SemTypes' /\ Numbers'
  BY <1>0, <1>2, <1>3 DEF IInv, SemTypes, Numbers, Opener
<1>5. mpc' = "fork" => mconn' \in Conns /\ pc'[mconn'] = "accepted"
  BY <1>0, <1>2 DEF IInv, Handles
<1> QED BY <1>0, <1>2, <1>4, <1>5, DeathStep

\* The steps of a child that has opened the semaphore and does not touch it.
LEMMA RequestStep ==
  ASSUME IInv, NEW c \in Conns,
         \/ ReadRequestLine(c) \/ Refuse(c) \/ Statistics(c) \/ HandleBash(c) \/ Epipe(c)
         \/ BashEnds(c) \/ LsVersionTwo(c) \/ ReqParser(c) \/ Send(c) \/ Sigpipe(c)
         \/ LoadRequests(c) \/ StoreRequests(c) \/ LoadCode(c) \/ StoreCode(c)
  PROVE  IInv'
<1> USE DEF mainVars, semVars, shmVars, childVars, handlerVars, auxVars
<1> DEFINE Kept == UNCHANGED <<run, mpc, mconn, name, nsem, sem, csem, hpc, hsem>>
<1>0. after \in [Conns -> {"end", "body", "bash"}]
  BY DEF IInv, SemTypes
<1>1. CASE \/ ReadRequestLine(c) \/ Refuse(c) \/ HandleBash(c) \/ Epipe(c)
           \/ LsVersionTwo(c) \/ ReqParser(c)
  <2>1. \E where \in {"send", "dispatch", "stop"}, code \in 0..599,
           next \in {"end", "body", "bash"} : Goto(c, where, code, next)
    BY <1>1 DEF ReadRequestLine, Refuse, HandleBash, Epipe, LsVersionTwo, ReqParser, Response,
                Stream
  <2>2. pc[c] \in {"read", "dispatch", "send"}
    BY <1>1 DEF ReadRequestLine, Refuse, HandleBash, Epipe, LsVersionTwo, ReqParser
  <2>3. PICK where \in {"send", "dispatch", "stop"}, next \in {"end", "body", "bash"} :
          pc' = [pc EXCEPT ![c] = where] /\ after' = [after EXCEPT ![c] = next] /\ Kept
    BY <2>1 DEF Goto
  <2>4. /\ where \in PcStates /\ where # "open" /\ pc[c] \in PastOpen
        /\ where \in Holding <=> pc[c] \in Holding
    BY <2>2 DEF PcStates, PastOpen, Holding, Critical
  <2>5. after' \in [Conns -> {"end", "body", "bash"}]
    BY <1>0, <2>3
  <2> QED BY <2>3, <2>4, <2>5, ChildStep
<1>2. CASE Statistics(c) \/ Send(c) \/ Sigpipe(c) \/ BashEnds(c)
  <2>1. /\ pc[c] \in {"dispatch", "send", "body", "bash", "stop"} /\ after' = after /\ Kept
        /\ \E p \in {"send", "killed", "end", "wait"} : pc' = [pc EXCEPT ![c] = p]
    BY <1>2 DEF Statistics, Send, Sigpipe, BashEnds
  <2>2. PICK p \in {"send", "killed", "end", "wait"} : pc' = [pc EXCEPT ![c] = p]
    BY <2>1
  <2>3. /\ p \in PcStates /\ p # "open" /\ pc[c] \in PastOpen
        /\ p \in Holding <=> pc[c] \in Holding
    BY <2>1 DEF PcStates, PastOpen, Holding, Critical
  <2> QED BY <1>0, <2>1, <2>2, <2>3, ChildStep
<1>3. CASE LoadRequests(c) \/ StoreRequests(c) \/ LoadCode(c) \/ StoreCode(c)
  <2>1. /\ pc[c] \in Critical /\ after' = after /\ Kept
        /\ \E p \in Holding : pc' = [pc EXCEPT ![c] = p]
    BY <1>3 DEF LoadRequests, StoreRequests, LoadCode, StoreCode, Critical, Holding
  <2>2. PICK p \in Holding : pc' = [pc EXCEPT ![c] = p]
    BY <2>1
  <2>3. /\ p \in PcStates /\ p # "open" /\ pc[c] \in PastOpen
        /\ p \in Holding <=> pc[c] \in Holding
    BY <2>1 DEF PcStates, PastOpen, Holding, Critical
  <2> QED BY <1>0, <2>1, <2>2, <2>3, ChildStep
<1> QED BY <1>1, <1>2, <1>3

\* Every step of the server keeps the invariant.
LEMMA NextStep == IInv /\ [Next]_vars => IInv'
<1> SUFFICES ASSUME IInv, [Next]_vars PROVE IInv'
  OBVIOUS
<1>1. CASE Main \/ MainFails \/ ExitHandler \/ Siguser1 \/ UNCHANGED vars
  BY <1>1, MainStep
<1>2. ASSUME NEW c \in Conns, Accept(c) \/ DoCall(c) \/ Sigpipe(c) \/ StrayExit(c)
      PROVE  IInv'
  BY <1>2, AcceptStep, StrayExitStep, RequestStep, DoCallOpenStep, SemWaitStep, SemPostStep
     DEF DoCall, WriteCode
<1>3. ASSUME NEW r \in Runs, Handler(r) PROVE IInv'
  BY <1>3, HandlerOpenStep, HandlerStep, HandlerWaitShmStep, HandlerPostStep DEF Handler
<1> QED BY <1>1, <1>2, <1>3 DEF Next

-----------------------------------------------------------------------------
\* A set without two different members counts 1 or 0.
LEMMA AtMostOne ==
  ASSUME NEW S, \A x, y \in S : x = y
  PROVE  Cardinality(S) = IF S = {} THEN 0 ELSE 1
<1>1. CASE S = {}
  BY <1>1, FS_EmptySet
<1>2. CASE S # {}
  <2>1. PICK x \in S : S = {x}
    BY <1>2
  <2>2. Cardinality({x}) = 1
    BY FS_Singleton
  <2> QED BY <1>2, <2>1, <2>2
<1> QED BY <1>1, <1>2

\* The invariant counts the holders of every semaphore.
LEMMA IInvExact == IInv => SemaphoreExact
<1> SUFFICES ASSUME IInv, NEW i \in Runs
             PROVE  sem[i] + Cardinality(Writers(i)) + Cardinality(Readers(i))
                      = IF i <= nsem THEN 1 ELSE 0
  BY DEF SemaphoreExact
<1>1. /\ Writers(i) = {c \in Conns : HoldsW(c, i)}
      /\ Readers(i) = {r \in Runs : HoldsR(r, i)}
  BY DEF Writers, Readers, HoldsW, HoldsR, Holding, HHolding
<1>2. /\ Cardinality(Writers(i)) = IF Writers(i) = {} THEN 0 ELSE 1
      /\ Cardinality(Readers(i)) = IF Readers(i) = {} THEN 0 ELSE 1
  <2>1. \A c, d \in Writers(i) : c = d
    BY <1>1 DEF IInv, Exclusive
  <2>2. \A r, s \in Readers(i) : r = s
    BY <1>1 DEF IInv, Exclusive
  <2> QED BY <2>1, <2>2, AtMostOne
<1>3. Writers(i) = {} \/ Readers(i) = {}
  BY <1>1 DEF IInv, Exclusive
<1>4. Held(i) <=> Writers(i) # {} \/ Readers(i) # {}
  BY <1>1 DEF Held
<1>5. sem[i] \in {0, 1}
  BY DEF IInv, SemTypes
<1>6. CASE i <= nsem
  <2>1. sem[i] = 0 <=> Held(i)
    BY <1>6 DEF IInv, Exclusive
  <2> QED BY <1>2, <1>3, <1>4, <1>5, <1>6, <2>1
<1>7. CASE ~ (i <= nsem)
  <2>1. ~ Held(i)
    BY <1>7, HeldExists
  <2>2. sem[i] = 0
    BY <1>5, <1>7 DEF IInv, Exclusive
  <2> QED BY <1>2, <1>4, <1>7, <2>1, <2>2
<1> QED BY <1>6, <1>7

\* Each semaphore that sem_open created admits one process at a time and is
\* never given back by one that died while it held it, for any number of
\* connections, of runs of the server and of signals.
THEOREM SemaphoreExactAlways == Spec => []SemaphoreExact
<1>1. Spec => []IInv
  BY InitIInv, NextStep, PTL DEF Spec
<1> QED BY <1>1, IInvExact, PTL
-----------------------------------------------------------------------------
\* The counters.  The semaphore alone does not make them exact: a restarted server
\* zeroes the segment under the children of the old run and gives its own children
\* another semaphore.  What follows says who uses a segment with which semaphore, and
\* that the counters are exact where all of them use the same.

\* Where a child has not counted its request; where it knows the code of its
\* answer; between the two counters; where it has counted both.
Uncounted == {"none", "accepted", "open", "read", "dispatch", "send", "stop", "wait",
              "load_requests", "store_requests"}
Coded == {"send", "wait", "load_requests", "store_requests", "load_code", "store_code"}
Between == {"load_code", "store_code"}
Finished == {"post", "body", "bash"}

\* The types of the variables that IInv does not look at.
Data ==
  /\ mpc \in {"down", "unlink", "accept", "fork"} /\ mconn \in Conns \union {NoConn}
  /\ key \in 0..run /\ shmid \in [Runs -> 0..MaxRuns]
  /\ requests \in [Runs -> Nat] /\ codes \in [Runs -> [Class -> Nat]]
  /\ crun \in [Conns -> 0..MaxRuns] /\ attached \in [Conns -> BOOLEAN]
  /\ reg \in [Conns -> Nat] /\ class \in [Conns -> Class \union {0}]
  /\ total \in [Conns -> Nat \union {-1}]
  /\ huser \in [Runs -> 0..MaxRuns] /\ hattached \in [Runs -> BOOLEAN]
  /\ hvalue \in [Runs -> Nat] /\ user1 \in [Runs -> Nat] /\ printed \in [Runs -> Nat]
  /\ counted \in [Runs -> SUBSET Conns] /\ classed \in [Runs -> SUBSET Conns]
  /\ everCounted \in [Runs -> SUBSET Conns] /\ overlap \in [Runs -> BOOLEAN]
  /\ floor \in [Conns -> Nat]

\* Every process belongs to a run that was started, and every run that was started
\* has a segment; a child has a status code where it needs one.
Places ==
  /\ \A r \in 1..run : shmid[r] \in 1..run
  /\ \A c \in Conns : pc[c] # "none" => crun[c] \in 1..run
  /\ \A c \in Conns : pc[c] \in Coded => class[c] \in Class
  /\ \A c \in Conns : pc[c] \in {"none", "accepted", "open", "read", "stop"} => class[c] = 0

\* Who uses a segment.  Where runs do not overlap, the children that use it belong to
\* the latest run, and so do those it has counted; what the latest run has opened is
\* the semaphore the name denotes.
Kin ==
  /\ \A c \in Conns : Alive(c) /\ ~ overlap[Seg(c)] => crun[c] = run
  /\ mpc = "unlink" => \A c \in Conns : pc[c] # "none" => crun[c] < run
  /\ \A c \in Conns : pc[c] \in PastOpen /\ crun[c] = run => csem[c] = name
  /\ \A r \in Runs : r = run /\ hpc[r] \notin {"none", "hopen"} => hsem[r] = name
  /\ run \in Runs /\ ~ overlap[shmid[run]] =>
       \A d \in counted[shmid[run]] : crun[d] = run

\* A child is counted, in each of the two ways, after it has done so, not before.
Progress ==
  /\ \A g \in Runs : counted[g] \subseteq everCounted[g] /\ \A c \in everCounted[g] : Seg(c) = g
  /\ \A c \in Conns, g \in Runs : pc[c] \in Uncounted => c \notin everCounted[g]
  /\ \A c \in Conns, g \in Runs : pc[c] \in Uncounted \union Between => c \notin classed[g]
  /\ \A c \in Conns : \/ pc[c] \in Between \union Finished
                      \/ pc[c] = "end" /\ class[c] # 0
                      => c \in everCounted[Seg(c)]

\* The counters, and the registers on their way to them.
InClass(g, k) == {c \in classed[g] : class[c] = k}

ExactAt(g) ==
  /\ requests[g] = Cardinality(counted[g])
  /\ \A k \in Class : codes[g][k] = Cardinality(InClass(g, k))
  /\ classed[g] \subseteq counted[g]
  /\ \A c, d \in counted[g] \ classed[g] : c = d
  /\ \A c \in counted[g] \ classed[g] : pc[c] \in Between \union {"crashed"}

Exact == \A g \in Runs : ~ overlap[g] => ExactAt(g)

Registers ==
  \A c \in Conns : ~ overlap[Seg(c)] =>
    /\ pc[c] = "store_requests" => reg[c] = requests[Seg(c)]
    /\ pc[c] = "store_code" => reg[c] = codes[Seg(c)][class[c]]
    /\ pc[c] \in Between => c \in counted[Seg(c)]

\* With overlapping runs, too.
Bounded ==
  /\ NeverOvercounts
  /\ \A c \in Conns : pc[c] = "store_requests" => reg[c] <= Cardinality(everCounted[Seg(c)])

\* What /statistics and the SIGUSR1 process have read.
Window ==
  /\ \A c \in Conns : pc[c] = "none" => total[c] = -1
  /\ \A c \in Conns : Alive(c) /\ ~ overlap[Seg(c)] =>
       /\ floor[c] <= requests[Seg(c)]
       /\ total[c] # -1 => floor[c] <= total[c] /\ total[c] <= requests[Seg(c)]
  /\ ReportIsCurrent

CInv == IInv /\ Data /\ Places /\ Kin /\ Progress /\ Exact /\ Registers /\ Bounded /\ Window

LEMMA InitCInv == Init => CInv
<1> SUFFICES ASSUME Init PROVE CInv
  OBVIOUS
<1> USE ForkAssumption DEF Init, Runs
<1>1. IInv
  BY InitIInv
<1>2. Data
  BY DEF Data, Class
<1>3. Places /\ Kin
  BY DEF Places, Kin, Coded, PastOpen, Holding, Critical, Alive, Dead
<1>4. Progress
  BY DEF Progress, Between, Finished
<1>5. Registers
  BY DEF Registers, Between
<1>6. Exact
  <2>1. \A g \in Runs, k \in Class : InClass(g, k) = {} /\ codes[g][k] = 0
    BY DEF InClass, Class
  <2> QED BY <2>1, FS_EmptySet DEF Exact, ExactAt
<1>7. Bounded /\ Window
  BY FS_EmptySet DEF Bounded, NeverOvercounts, Window, ReportIsCurrent, Alive, Dead
<1> QED BY <1>1, <1>2, <1>3, <1>4, <1>5, <1>6, <1>7 DEF CInv

-----------------------------------------------------------------------------
\* The segments that processes use exist.
LEMMA Segments ==
  ASSUME IInv, Data, Places
  PROVE  /\ run \in 0..MaxRuns /\ Runs = 1..MaxRuns
         /\ \A c \in Conns : pc[c] # "none" => Seg(c) \in Runs
         /\ \A r \in Runs : r <= run => shmid[r] \in Runs
         /\ \A r \in Runs : hpc[r] # "none" => shmid[r] \in Runs
         /\ mpc # "down" => run \in Runs /\ shmid[run] \in Runs
<1>1. run \in 0..MaxRuns /\ Runs = 1..MaxRuns /\ MaxRuns \in Nat
  BY ForkAssumption DEF IInv, SemTypes, Runs
<1>2. \A r \in 1..run : shmid[r] \in Runs
  <2> SUFFICES ASSUME NEW r \in 1..run PROVE shmid[r] \in Runs
    OBVIOUS
  <2>1. shmid[r] \in 1..run
    BY DEF Places
  <2> QED BY <1>1, <2>1
<1>3. \A c \in Conns : pc[c] # "none" => Seg(c) \in Runs
  BY <1>2 DEF Places, Seg
<1>4. \A r \in Runs : r <= run => r \in 1..run
  BY <1>1
<1>5. \A r \in Runs : hpc[r] # "none" => r <= run
  BY DEF IInv, Handles
<1>6. mpc # "down" => run \in 1..run /\ run \in Runs
  BY <1>1 DEF IInv, Numbers
<1> QED BY <1>1, <1>2, <1>3, <1>4, <1>5, <1>6

\* The status codes fall into the classes that are counted.
LEMMA Classes ==
  /\ \A code \in {200, 400, 403, 404, 405, 500, 505} : ClassOf(code) \in Class
  /\ ClassOf(0) = 0 /\ 0 \notin Class
BY DEF ClassOf, Class

LEMMA DataStep == IInv /\ IInv' /\ Data /\ Places /\ [Next]_vars => Data'
<1> SUFFICES ASSUME IInv, IInv', Data, Places, [Next]_vars PROVE Data'
  OBVIOUS
<1>0. /\ run \in 0..MaxRuns /\ Runs = 1..MaxRuns /\ MaxRuns \in Nat
      /\ \A c \in Conns : pc[c] # "none" => Seg(c) \in Runs
      /\ \A r \in Runs : hpc[r] # "none" => shmid[r] \in Runs
      /\ mpc # "down" => run \in Runs /\ shmid[run] \in Runs
  BY ForkAssumption, Segments
<1> USE DEF mainVars, semVars, shmVars, childVars, handlerVars, auxVars
<1> HIDE DEF Class, ClassOf, Runs
<1>1. CASE UNCHANGED vars
  BY <1>1 DEF vars, Data
<1>2. CASE MainZero
  <2>1. run' = run + 1 /\ run \in 0..MaxRuns /\ run + 1 \in Runs /\ key' \in Runs
    BY <1>0, <1>2 DEF MainZero, Data
  <2>2. key' \in 0..run' /\ key' \in 0..MaxRuns
    <3>1. key' = (IF key = 0 THEN run + 1 ELSE key) /\ key \in 0..run
      BY <1>2 DEF MainZero, Data
    <3> QED BY <1>0, <2>1, <3>1
  <2>7. shmid' \in [Runs -> 0..MaxRuns]
    BY <1>2, <2>2 DEF MainZero, Data
  <2>3. requests' \in [Runs -> Nat]
    BY <1>2 DEF MainZero, Data
  <2>5. [k \in Class |-> 0] \in [Class -> Nat]
    OBVIOUS
  <2>6. codes' \in [Runs -> [Class -> Nat]]
    <3>1. codes' = [codes EXCEPT ![key'] = [k \in Class |-> 0]]
      BY <1>2 DEF MainZero
    <3>2. codes \in [Runs -> [Class -> Nat]]
      BY DEF Data
    <3> QED BY <2>5, <3>1, <3>2
  <2>4. /\ counted' \in [Runs -> SUBSET Conns] /\ classed' \in [Runs -> SUBSET Conns]
        /\ overlap' \in [Runs -> BOOLEAN]
    BY <1>2, <2>1, Zenon DEF MainZero, Data
  <2> QED BY <1>2, <2>2, <2>3, <2>4, <2>6, <2>7 DEF MainZero, Data
<1>3. CASE MainUnlink \/ Fork \/ MainFails
  BY <1>3 DEF MainUnlink, Fork, MainFails, Data
<1>4. CASE ExitHandler
  <2>1. key' \in 0..run'
    BY <1>0, <1>4 DEF ExitHandler, Data
  <2> QED BY <1>4, <2>1 DEF ExitHandler, Data
<1>5. CASE Siguser1
  <2>0. user1' = [user1 EXCEPT ![run] = @ + 1] /\ user1 \in [Runs -> Nat]
    BY <1>5 DEF Siguser1, Data
  <2>a. \A s \in Runs : user1'[s] = IF s = run THEN user1[s] + 1 ELSE user1[s]
    BY <2>0
  <2>b. \A s \in Runs : user1'[s] \in Nat
    BY <2>0, <2>a
  <2>1. user1' \in [Runs -> Nat]
    BY <2>0, <2>b
  <2> QED BY <1>5, <2>1 DEF Siguser1, Data
<1>6. ASSUME NEW c \in Conns, Accept(c) PROVE Data'
  <2>1. crun' \in [Conns -> 0..MaxRuns]
    BY <1>0, <1>6 DEF Accept, Data
  <2>2. shmid[run] \in Runs
    BY <1>0, <1>6 DEF Accept
  <2>3. Cardinality(counted[shmid[run]]) \in Nat
    BY <2>2, ForkAssumption, FS_Subset, FS_CardinalityType DEF Data
  <2>4. floor' \in [Conns -> Nat]
    BY <1>6, <2>3 DEF Accept, Data
  <2> QED BY <1>6, <2>1, <2>4 DEF Accept, Data
<1>7. ASSUME NEW c \in Conns, DoCallOpen(c) PROVE Data'
  <2>1. attached' \in [Conns -> BOOLEAN]
    BY <1>7, Zenon DEF DoCallOpen, Data
  <2> QED BY <1>7, <2>1 DEF DoCallOpen, Data
<1>8. ASSUME NEW c \in Conns, NEW where, NEW code, NEW next, Goto(c, where, code, next),
             code \in {200, 400, 403, 404, 405, 500, 505} \/ code = 0
      PROVE  Data'
  <2>1. class' \in [Conns -> Class \union {0}]
    BY <1>8, Classes DEF Goto, Data
  <2> QED BY <1>8, <2>1 DEF Goto, Data
<1>9. ASSUME NEW c \in Conns, \/ ReadRequestLine(c) \/ Refuse(c) \/ HandleBash(c) \/ Epipe(c)
                              \/ LsVersionTwo(c) \/ ReqParser(c)
      PROVE  Data'
  BY <1>8, <1>9 DEF ReadRequestLine, Refuse, HandleBash, Epipe, LsVersionTwo, ReqParser,
                    Response, Stream
<1>10. ASSUME NEW c \in Conns, Statistics(c) PROVE Data'
  <2>1. requests[Seg(c)] \in Nat
    BY <1>0, <1>10 DEF Statistics, Data
  <2>2. total' \in [Conns -> Nat \union {-1}]
    BY <1>10, <2>1 DEF Statistics, Data
  <2>3. ClassOf(200) \in Class
    BY Classes
  <2>4. class' \in [Conns -> Class \union {0}]
    BY <1>10, <2>3 DEF Statistics, Data
  <2> QED BY <1>10, <2>2, <2>4 DEF Statistics, Data
<1>11. ASSUME NEW c \in Conns, Send(c) \/ Sigpipe(c) \/ StrayExit(c) \/ BashEnds(c)
       PROVE  Data'
  <2>0. /\ key \in 0..run /\ total \in [Conns -> Nat \union {-1}]
        /\ total' = total \/ total' = [total EXCEPT ![c] = -1]
        /\ key' = key \/ key' = 0
        /\ run' = run
    BY <1>11 DEF Send, Sigpipe, StrayExit, BashEnds, Data
  <2>1. total' \in [Conns -> Nat \union {-1}]
    BY <2>0
  <2>2. key' \in 0..run'
    BY <1>0, <2>0
  <2> QED BY <1>11, <2>1, <2>2 DEF Send, Sigpipe, StrayExit, BashEnds, Data
<1>12. ASSUME NEW c \in Conns, SemWait(c) \/ SemPost(c) PROVE Data'
  BY <1>12 DEF SemWait, SemPost, Data
<1>13. ASSUME NEW c \in Conns, LoadRequests(c) PROVE Data'
  <2>1. requests[Seg(c)] \in Nat
    BY <1>0, <1>13 DEF LoadRequests, Data
  <2>2. reg' \in [Conns -> Nat]
    BY <1>13, <2>1 DEF LoadRequests, Data
  <2> QED BY <1>13, <2>2 DEF LoadRequests, Data
<1>14. ASSUME NEW c \in Conns, StoreRequests(c) PROVE Data'
  <2>0. reg \in [Conns -> Nat] /\ requests \in [Runs -> Nat] /\ reg[c] + 1 \in Nat
    BY DEF Data
  <2>1. reg' \in [Conns -> Nat] /\ requests' \in [Runs -> Nat]
    BY <1>14, <2>0 DEF StoreRequests
  <2>2. /\ counted' \in [Runs -> SUBSET Conns]
        /\ everCounted' \in [Runs -> SUBSET Conns]
    BY <1>14, Zenon DEF StoreRequests, Data
  <2> QED BY <1>14, <2>1, <2>2 DEF StoreRequests, Data
<1>15. ASSUME NEW c \in Conns, LoadCode(c) PROVE Data'
  <2>1. Seg(c) \in Runs /\ class[c] \in Class
    BY <1>0, <1>15 DEF LoadCode, Places, Coded
  <2>2. codes[Seg(c)][class[c]] \in Nat
    BY <2>1 DEF Data
  <2>3. reg' \in [Conns -> Nat]
    BY <1>15, <2>2 DEF LoadCode, Data
  <2> QED BY <1>15, <2>3 DEF LoadCode, Data
<1>16. ASSUME NEW c \in Conns, StoreCode(c) PROVE Data'
  <2>1. Seg(c) \in Runs /\ class[c] \in Class
    BY <1>0, <1>16 DEF StoreCode, Places, Coded
  <2>a. reg[c] + 1 \in Nat
    BY DEF Data
  <2>2. reg' \in [Conns -> Nat]
    BY <1>16 DEF StoreCode, Data
  <2>3. codes' \in [Runs -> [Class -> Nat]]
    BY <1>16, <2>1, <2>a DEF StoreCode, Data
  <2>4. classed' \in [Runs -> SUBSET Conns]
    BY <1>16, Zenon DEF StoreCode, Data
  <2> QED BY <1>16, <2>2, <2>3, <2>4 DEF StoreCode, Data
<1>17. ASSUME NEW r \in Runs, HandlerOpen(r) \/ HandlerWaitShm(r) PROVE Data'
  BY <1>17 DEF HandlerOpen, HandlerWaitShm, Data
<1>18. ASSUME NEW r \in Runs, HandlerOpenUser1(r) PROVE Data'
  <2>1. (IF mpc = "unlink" THEN run - 1 ELSE run) \in 0..MaxRuns
    BY <1>0, <1>18 DEF HandlerOpenUser1, IInv, Numbers
  <2>2. huser' \in [Runs -> 0..MaxRuns]
    BY <1>18, <2>1 DEF HandlerOpenUser1, Data
  <2>3. hattached' \in [Runs -> BOOLEAN]
    BY <1>18, Zenon DEF HandlerOpenUser1, Data
  <2> QED BY <1>18, <2>2, <2>3 DEF HandlerOpenUser1, Data
<1>19. ASSUME NEW r \in Runs, HandlerWaitUser1(r) PROVE Data'
  <2>0. /\ user1' = [user1 EXCEPT ![huser[r]] = @ - 1] /\ user1[huser[r]] > 0
        /\ user1 \in [Runs -> Nat]
    BY <1>19 DEF HandlerWaitUser1, Data
  <2>a. \A s \in Runs : user1'[s] = IF s = huser[r] THEN user1[s] - 1 ELSE user1[s]
    BY <2>0
  <2>b. \A s \in Runs : user1'[s] \in Nat
    BY <2>0, <2>a
  <2>1. user1' \in [Runs -> Nat]
    BY <2>0, <2>b
  <2> QED BY <1>19, <2>1 DEF HandlerWaitUser1, Data
<1>20. ASSUME NEW r \in Runs, HandlerRead(r) PROVE Data'
  <2>1. requests[shmid[r]] \in Nat
    BY <1>0, <1>20 DEF HandlerRead, Data
  <2>2. hvalue' \in [Runs -> Nat]
    BY <1>20, <2>1 DEF HandlerRead, Data
  <2> QED BY <1>20, <2>2 DEF HandlerRead, Data
<1>21. ASSUME NEW r \in Runs, HandlerPost(r) PROVE Data'
  <2>1. hvalue' \in [Runs -> Nat] /\ printed' \in [Runs -> Nat]
    BY <1>21 DEF HandlerPost, Data
  <2> QED BY <1>21, <2>1 DEF HandlerPost, Data
<1> QED BY <1>1, <1>2, <1>3, <1>4, <1>5, <1>6, <1>7, <1>9, <1>10, <1>11, <1>12, <1>13, <1>14,
           <1>15, <1>16, <1>17, <1>18, <1>19, <1>20, <1>21
        DEF Next, Main, DoCall, WriteCode, Handler

-----------------------------------------------------------------------------
\* A step that leaves the counters, and what belongs to them, alone.
Frame == UNCHANGED <<run, shmid, requests, codes, crun, reg, counted, classed, everCounted,
                     overlap, floor>>

\* How a child goes on in such a step: from p with class k to q with class l.
Goes(p, q, k, l) ==
  /\ q \in Uncounted => p \in Uncounted
  /\ q \in Between \union {"store_requests"} => p = q
  /\ q \in Finished => p \in Finished
  /\ p \in Between \union {"crashed"} => q \in Between \union {"crashed"}
  /\ q = "end" /\ l # 0 => p \in Finished \/ (p = "end" /\ k # 0)
  /\ l = k \/ p \in {"read", "dispatch", "send"}
  /\ q = "none" <=> p = "none"
  /\ q \notin Dead => p \notin Dead
  /\ q \in Coded => l \in Class
  /\ q \in {"none", "accepted", "open", "read", "stop"} => l = 0

Along == \A d \in Conns : Goes(pc[d], pc'[d], class[d], class'[d])

\* What a process reads in such a step is the counter as it is.
Reads ==
  /\ \A d \in Conns : \/ total'[d] \in {total[d], -1}
                      \/ pc[d] = "dispatch" /\ total'[d] = requests[Seg(d)]
  /\ \A r \in Runs : hpc'[r] = "hpost" =>
       \/ hpc[r] = "hpost" /\ hvalue'[r] = hvalue[r]
       \/ hvalue'[r] = requests[shmid[r]]

\* No semaphore is opened, and no name unlinked.
Calm ==
  /\ UNCHANGED <<name, csem, hsem>> /\ (mpc' = "unlink" => mpc = "unlink")
  /\ \A d \in Conns : pc'[d] \in PastOpen => pc[d] \in PastOpen
  /\ \A r \in Runs : hpc'[r] \notin {"none", "hopen"} => hpc[r] \notin {"none", "hopen"}

\* One child goes on, the others stay.
LEMMA OneGoes ==
  ASSUME IInv, Data, Places, NEW c \in Conns, NEW q, pc' = [pc EXCEPT ![c] = q],
         \A d \in Conns : d # c => class'[d] = class[d],
         Goes(pc[c], q, class[c], class'[c])
  PROVE  Along
<1>1. pc \in [Conns -> PcStates] /\ class \in [Conns -> Class \union {0}]
  BY DEF IInv, SemTypes, Data
<1>2. pc'[c] = q
  BY <1>1
<1>3. ASSUME NEW d \in Conns, d # c PROVE Goes(pc[d], pc'[d], class[d], class'[d])
  <2>1. pc'[d] = pc[d] /\ class'[d] = class[d]
    BY <1>1, <1>3
  <2> QED BY <2>1 DEF Goes, Places
<1> QED BY <1>2, <1>3 DEF Along

\* All stay.
LEMMA NoneGoes == Places /\ pc' = pc /\ class' = class => Along
BY DEF Along, Goes, Places

\* A child that exits.
LEMMA ExitedGoes ==
  ASSUME IInv, Places, NEW d \in Conns, pc[d] # "none"
  PROVE  Goes(pc[d], Exited(d), class[d], class[d]) /\ (Exited(d) \in PastOpen => pc[d] \in PastOpen)
<1>1. pc[d] \in PcStates
  BY DEF IInv, SemTypes
<1> QED BY <1>1 DEF Goes, Exited, Alive, Dead, Places, Critical, Uncounted, Between, Finished,
               Coded, PcStates, PastOpen, Holding

\* The steps of write_code that read or write the counters.
Counting(c) == \/ LoadRequests(c) /\ attached[c]
               \/ StoreRequests(c) \/ LoadCode(c) \/ StoreCode(c)

\* Every step is one of these.
LEMMA NextCases ==
  ASSUME IInv, Data, Places, [Next]_vars
  PROVE  \/ MainZero
         \/ \E c \in Conns : Accept(c) \/ Counting(c)
         \/ /\ Frame /\ Along /\ Reads
            /\ \/ Calm \/ MainUnlink
               \/ \E c \in Conns : DoCallOpen(c)
               \/ \E r \in Runs : HandlerOpen(r)
<1> DEFINE Goal == Frame /\ Along /\ Reads /\ Calm
<1> USE DEF mainVars, semVars, shmVars, childVars, handlerVars, auxVars
<1>0. /\ pc \in [Conns -> PcStates] /\ hpc \in [Runs -> HpcStates]
      /\ class \in [Conns -> Class \union {0}] /\ hvalue \in [Runs -> Nat]
      /\ total \in [Conns -> Nat \union {-1}]
  BY DEF IInv, SemTypes, Data
<1>1. CASE UNCHANGED vars
  BY <1>1, NoneGoes DEF vars, Frame, Reads, Calm
<1>2. CASE MainUnlink
  <2>1. hpc' = [hpc EXCEPT ![run] = "hopen"]
    BY <1>2 DEF MainUnlink
  <2>2. \A r \in Runs : hpc'[r] = "hpost" => hpc[r] = "hpost"
    BY <1>0, <2>1
  <2> QED BY <1>2, <2>2, NoneGoes DEF MainUnlink, Frame, Reads
<1>3. CASE Fork
  <2>1. /\ mconn \in Conns /\ pc[mconn] = "accepted" /\ class[mconn] = 0
        /\ pc' = [pc EXCEPT ![mconn] = "open"] /\ class' = class
    BY <1>3 DEF Fork, IInv, Handles, Places
  <2>2. Goes("accepted", "open", 0, 0)
    BY DEF Goes, Uncounted, Between, Finished, Dead, Coded
  <2>3. Along
    BY <2>1, <2>2, OneGoes
  <2>4. \A d \in Conns : pc'[d] \in PastOpen => pc[d] \in PastOpen
    BY <1>0, <2>1 DEF PastOpen, Holding, Critical
  <2> QED BY <1>3, <2>3, <2>4 DEF Fork, Frame, Reads, Calm
<1>4. CASE MainFails
  <2>1. ASSUME NEW d \in Conns
        PROVE  /\ Goes(pc[d], pc'[d], class[d], class'[d])
               /\ pc'[d] \in PastOpen => pc[d] \in PastOpen
    <3>1. /\ class'[d] = class[d]
          /\ IF pc[d] = "accepted" THEN pc'[d] = "lost" ELSE pc'[d] = pc[d]
      BY <1>4, <2>1 DEF MainFails
    <3> QED BY <3>1, <2>1 DEF Goes, Places, Uncounted, Between, Finished, Dead, Coded, PastOpen,
                              Holding, Critical
  <2> QED BY <1>4, <2>1 DEF MainFails, Frame, Along, Reads, Calm
<1>5. CASE ExitHandler
  <2>1. ASSUME NEW d \in Conns
        PROVE  /\ Goes(pc[d], pc'[d], class[d], class'[d])
               /\ pc'[d] \in PastOpen => pc[d] \in PastOpen
    <3>1. class'[d] = class[d] /\ (pc'[d] = pc[d] \/ pc'[d] = Exited(d))
      BY <1>5, <2>1 DEF ExitHandler
    <3>2. CASE pc[d] = "none"
      BY <3>1, <3>2, <2>1 DEF Goes, Places, Exited, Critical, Alive, Dead, Coded, Uncounted,
                              Between, Finished, PastOpen, Holding
    <3>3. CASE pc'[d] = pc[d]
      BY <3>1, <3>3, <2>1 DEF Goes, Places
    <3> QED BY <3>1, <3>2, <3>3, ExitedGoes
  <2>2. hpc' = [hpc EXCEPT ![run] = IF @ \in HCritical \union {"hcrashed"} THEN "hcrashed"
                                   ELSE "none"]
    BY <1>5 DEF ExitHandler
  <2>3. \A r \in Runs : /\ hpc'[r] # "hpost" \/ hpc[r] = "hpost"
                        /\ hpc'[r] \notin {"none", "hopen"} => hpc[r] \notin {"none", "hopen"}
    BY <1>0, <2>2 DEF HCritical
  <2> QED BY <1>5, <2>1, <2>3 DEF ExitHandler, Frame, Along, Reads, Calm
<1>6. CASE Siguser1
  BY <1>6, NoneGoes DEF Siguser1, Frame, Reads, Calm
<1>7. ASSUME NEW c \in Conns, StrayExit(c) PROVE Goal
  <2>1. pc[c] # "none" /\ pc' = [pc EXCEPT ![c] = Exited(c)] /\ class' = class
    BY <1>7 DEF StrayExit, Alive, Dead
  <2>2. Along
    BY <2>1, ExitedGoes, OneGoes
  <2>3. \A d \in Conns : pc'[d] \in PastOpen => pc[d] \in PastOpen
    BY <1>0, <2>1, ExitedGoes
  <2> QED BY <1>7, <2>2, <2>3 DEF StrayExit, Frame, Reads, Calm
<1>8. ASSUME NEW c \in Conns, DoCallOpen(c) PROVE Frame /\ Along /\ Reads
  <2>1. /\ pc[c] = "open" /\ class' = class /\ class[c] = 0
        /\ \E q \in {"read", "killed", "end"} : pc' = [pc EXCEPT ![c] = q]
    BY <1>8 DEF DoCallOpen, Places
  <2>2. \A q \in {"read", "killed", "end"} : Goes("open", q, 0, 0)
    BY DEF Goes, Uncounted, Between, Finished, Dead, Coded
  <2>3. Along
    BY <2>1, <2>2, OneGoes
  <2> QED BY <1>8, <2>3 DEF DoCallOpen, Frame, Reads
<1>9. ASSUME NEW c \in Conns, NEW q \in PastOpen \union Dead, pc[c] \in PastOpen,
             pc' = [pc EXCEPT ![c] = q],
             \A d \in Conns : d # c => class'[d] = class[d],
             Goes(pc[c], q, class[c], class'[c]), UNCHANGED <<total, hpc, hvalue, name, csem, hsem, mpc>>,
             Frame
      PROVE  Goal
  <2>1. Along
    BY <1>9, OneGoes
  <2>2. \A d \in Conns : pc'[d] \in PastOpen => pc[d] \in PastOpen
    BY <1>0, <1>9
  <2> QED BY <1>9, <2>1, <2>2 DEF Reads, Calm
<1> HIDE DEF Goal
<1>10. ASSUME NEW c \in Conns, NEW where \in {"send", "dispatch", "stop"}, NEW code, NEW next,
              Goto(c, where, code, next), pc[c] \in {"read", "dispatch", "send"},
              where = "send" => code \in {200, 400, 403, 404, 405, 500, 505},
              where = "stop" => code = 0
       PROVE  Goal
  <2>1. /\ where = "send" => ClassOf(code) \in Class
        /\ where = "stop" => ClassOf(code) = 0
    BY <1>10, Classes
  <2>4. class'[c] = ClassOf(code) /\ \A d \in Conns : d # c => class'[d] = class[d]
    BY <1>0, <1>10 DEF Goto
  <2>2. Goes(pc[c], where, class[c], class'[c])
    BY <1>10, <2>1, <2>4 DEF Goes, Uncounted, Between, Finished, Dead, Coded
  <2>3. where \in PastOpen /\ pc[c] \in PastOpen
    BY <1>10 DEF PastOpen
  <2>5. /\ pc' = [pc EXCEPT ![c] = where] /\ Frame
        /\ UNCHANGED <<total, hpc, hvalue, name, csem, hsem, mpc>>
    BY <1>10 DEF Goto, Frame
  <2> QED BY <2>2, <2>3, <2>4, <2>5, <1>9
<1>11. ASSUME NEW c \in Conns, \/ ReadRequestLine(c) \/ Refuse(c) \/ HandleBash(c) \/ Epipe(c)
                               \/ LsVersionTwo(c) \/ ReqParser(c)
       PROVE  Goal
  BY <1>10, <1>11 DEF ReadRequestLine, Refuse, HandleBash, Epipe, LsVersionTwo, ReqParser,
                      Response, Stream
<1>12. ASSUME NEW c \in Conns, Statistics(c) PROVE Goal
  <2>1. CASE ~ attached[c]
    <3>1. pc[c] = "dispatch" /\ pc' = [pc EXCEPT ![c] = "killed"] /\ class' = class
      BY <1>12, <2>1 DEF Statistics
    <3>2. Goes(pc[c], "killed", class[c], class[c]) /\ "killed" \in Dead /\ pc[c] \in PastOpen
      BY <3>1 DEF Goes, Uncounted, Between, Finished, Dead, Coded, PastOpen
    <3> QED BY <1>12, <2>1, <3>1, <3>2, <1>9 DEF Statistics, Frame
  <2>2. CASE attached[c]
    <3>1. /\ pc[c] = "dispatch" /\ pc' = [pc EXCEPT ![c] = "send"]
          /\ class' = [class EXCEPT ![c] = ClassOf(200)]
          /\ total' = [total EXCEPT ![c] = requests[Seg(c)]]
      BY <1>12, <2>2 DEF Statistics
    <3>2. ClassOf(200) \in Class
      BY Classes
    <3>6. class'[c] = ClassOf(200) /\ \A d \in Conns : d # c => class'[d] = class[d]
      BY <1>0, <3>1
    <3>3. Goes(pc[c], "send", class[c], class'[c])
      BY <3>1, <3>2, <3>6 DEF Goes, Uncounted, Between, Finished, Dead, Coded
    <3>4. Along
      BY <3>1, <3>3, <3>6, OneGoes
    <3>5. \A d \in Conns : /\ \/ total'[d] = total[d]
                              \/ pc[d] = "dispatch" /\ total'[d] = requests[Seg(d)]
                           /\ pc'[d] \in PastOpen => pc[d] \in PastOpen
      BY <1>0, <3>1 DEF PastOpen
    <3> QED BY <1>12, <3>4, <3>5 DEF Statistics, Frame, Reads, Calm, Goal
  <2> QED BY <2>1, <2>2
<1>13. ASSUME NEW c \in Conns, Send(c) PROVE Goal
  <2>1. /\ \/ pc[c] = "send" /\ pc' = [pc EXCEPT ![c] = "wait"]
           \/ pc[c] = "body" /\ pc' = [pc EXCEPT ![c] = "end"]
        /\ class' = class /\ total' = [total EXCEPT ![c] = -1]
    BY <1>13 DEF Send
  <2>2. pc[c] = "send" => class[c] \in Class
    BY DEF Places, Coded
  <2>3. /\ pc[c] = "send" => Goes(pc[c], "wait", class[c], class[c])
        /\ pc[c] = "body" => Goes(pc[c], "end", class[c], class[c])
    BY <2>2 DEF Goes, Uncounted, Between, Finished, Dead, Coded
  <2>4. Along
    BY <2>1, <2>3, OneGoes
  <2>5. \A d \in Conns : /\ total'[d] \in {total[d], -1}
                         /\ pc'[d] \in PastOpen => pc[d] \in PastOpen
    BY <1>0, <2>1 DEF PastOpen
  <2> QED BY <1>13, <2>4, <2>5 DEF Send, Frame, Reads, Calm, Goal
<1>14. ASSUME NEW c \in Conns, Sigpipe(c) PROVE Goal
  <2>1. /\ pc[c] \in {"send", "body", "bash"} /\ pc' = [pc EXCEPT ![c] = "killed"] /\ class' = class
    BY <1>14 DEF Sigpipe
  <2>2. Goes(pc[c], "killed", class[c], class[c]) /\ "killed" \in Dead /\ pc[c] \in PastOpen
    BY <2>1 DEF Goes, Uncounted, Between, Finished, Dead, Coded, PastOpen
  <2> QED BY <1>14, <2>1, <2>2, <1>9 DEF Sigpipe, Frame
<1>21. ASSUME NEW c \in Conns, BashEnds(c) PROVE Goal
  <2>1. /\ pc[c] \in {"bash", "stop"} /\ pc' = [pc EXCEPT ![c] = "end"] /\ class' = class
        /\ pc[c] = "stop" => class[c] = 0
    BY <1>21 DEF BashEnds, Places
  <2>2. Goes(pc[c], "end", class[c], class[c]) /\ "end" \in Dead /\ pc[c] \in PastOpen
    BY <2>1 DEF Goes, Uncounted, Between, Finished, Dead, Coded, PastOpen
  <2> QED BY <1>21, <2>1, <2>2, <1>9 DEF BashEnds, Frame
<1>15. ASSUME NEW c \in Conns, SemWait(c) PROVE Goal
  <2>1. /\ pc[c] = "wait" /\ pc' = [pc EXCEPT ![c] = "load_requests"] /\ class' = class
        /\ class[c] \in Class
    BY <1>15 DEF SemWait, Places, Coded
  <2>2. Goes(pc[c], "load_requests", class[c], class[c]) /\ "load_requests" \in PastOpen
        /\ pc[c] \in PastOpen
    BY <2>1 DEF Goes, Uncounted, Between, Finished, Dead, Coded, PastOpen, Holding, Critical
  <2> QED BY <1>15, <2>1, <2>2, <1>9 DEF SemWait, Frame
<1>16. ASSUME NEW c \in Conns, SemPost(c) PROVE Goal
  <2>1. /\ pc[c] = "post" /\ pc' = [pc EXCEPT ![c] = after[c]] /\ class' = class
        /\ after[c] \in {"end", "body", "bash"}
    BY <1>16 DEF SemPost, IInv, SemTypes
  <2>2. Goes(pc[c], after[c], class[c], class[c]) /\ after[c] \in PastOpen \union Dead
        /\ pc[c] \in PastOpen
    BY <2>1 DEF Goes, Uncounted, Between, Finished, Dead, Coded, PastOpen, Holding, Critical
  <2> QED BY <1>16, <2>1, <2>2, <1>9 DEF SemPost, Frame
<1>17. ASSUME NEW c \in Conns, LoadRequests(c), ~ attached[c] PROVE Goal
  <2>1. /\ pc[c] = "load_requests" /\ pc' = [pc EXCEPT ![c] = "crashed"] /\ class' = class
    BY <1>17 DEF LoadRequests
  <2>2. Goes(pc[c], "crashed", class[c], class[c]) /\ "crashed" \in Dead /\ pc[c] \in PastOpen
    BY <2>1 DEF Goes, Uncounted, Between, Finished, Dead, Coded, PastOpen, Holding, Critical
  <2> QED BY <1>17, <2>1, <2>2, <1>9 DEF LoadRequests, Frame
<1>18. ASSUME NEW r \in Runs, HandlerOpen(r) PROVE Frame /\ Along /\ Reads
  <2>1. \A s \in Runs : hpc'[s] = "hpost" => hpc[s] = "hpost"
    BY <1>0, <1>18 DEF HandlerOpen
  <2> QED BY <1>18, <2>1, NoneGoes DEF HandlerOpen, Frame, Reads
<1>19. ASSUME NEW r \in Runs, \/ HandlerOpenUser1(r) \/ HandlerWaitUser1(r) \/ HandlerWaitShm(r)
                              \/ HandlerPost(r)
       PROVE  Goal
  <2>1. \A s \in Runs : /\ hpc'[s] = "hpost" => hpc[s] = "hpost" /\ hvalue'[s] = hvalue[s]
                        /\ hpc'[s] \notin {"none", "hopen"} => hpc[s] \notin {"none", "hopen"}
    BY <1>0, <1>19 DEF HandlerOpenUser1, HandlerWaitUser1, HandlerWaitShm, HandlerPost
  <2> QED BY <1>19, <2>1, NoneGoes DEF HandlerOpenUser1, HandlerWaitUser1, HandlerWaitShm,
                                       HandlerPost, Frame, Reads, Calm, Goal
<1>20. ASSUME NEW r \in Runs, HandlerRead(r) PROVE Goal
  <2>1. \A s \in Runs : /\ hpc'[s] = "hpost" => \/ hpc[s] = "hpost" /\ hvalue'[s] = hvalue[s]
                                                \/ hvalue'[s] = requests[shmid[s]]
                        /\ hpc'[s] \notin {"none", "hopen"} => hpc[s] \notin {"none", "hopen"}
    BY <1>0, <1>20 DEF HandlerRead
  <2> QED BY <1>20, <2>1, NoneGoes DEF HandlerRead, Frame, Reads, Calm, Goal
<1> QED BY <1>1, <1>2, <1>3, <1>4, <1>5, <1>6, <1>7, <1>8, <1>11, <1>12, <1>13, <1>14, <1>15,
           <1>16, <1>17, <1>18, <1>19, <1>20, <1>21
        DEF Next, Main, DoCall, WriteCode, Handler, Counting, Goal

-----------------------------------------------------------------------------
\* The segments that the children use stay the same.
LEMMA SegKept ==
  ASSUME IInv, Data, Places, MainZero
  PROVE  \A c \in Conns : pc[c] # "none" => Seg(c)' = Seg(c)
<1>1. shmid' = [shmid EXCEPT ![run + 1] = key'] /\ crun' = crun /\ run \in 0..MaxRuns
  BY Segments DEF MainZero, childVars
<1>2. \A c \in Conns : pc[c] # "none" => crun[c] # run + 1
  BY <1>1 DEF Places
<1> QED BY <1>1, <1>2 DEF Seg, Data

\* A step of write_code takes one child on.
LEMMA CountingStep ==
  ASSUME IInv, Data, Places, NEW c \in Conns, Counting(c)
  PROVE  /\ UNCHANGED <<run, mpc, name, key, shmid, crun, csem, hpc, hsem, hvalue, class,
                        total, overlap, floor>>
         /\ \A d \in Conns : Seg(d)' = Seg(d)
         /\ \A d \in Conns : d # c => pc'[d] = pc[d] /\ reg'[d] = reg[d]
         /\ \/ LoadRequests(c) /\ pc[c] = "load_requests" /\ pc'[c] = "store_requests"
               /\ UNCHANGED <<requests, codes, counted, classed, everCounted>>
               /\ reg'[c] = requests[Seg(c)]
            \/ StoreRequests(c) /\ pc[c] = "store_requests" /\ pc'[c] = "load_code"
               /\ UNCHANGED <<codes, classed>>
            \/ LoadCode(c) /\ pc[c] = "load_code" /\ pc'[c] = "store_code"
               /\ UNCHANGED <<requests, codes, counted, classed, everCounted>>
               /\ reg'[c] = codes[Seg(c)][class[c]]
            \/ StoreCode(c) /\ pc[c] = "store_code" /\ pc'[c] = "post"
               /\ UNCHANGED <<requests, counted, everCounted>>
         /\ Seg(c) \in Runs
<1>1. pc \in [Conns -> PcStates] /\ reg \in [Conns -> Nat]
  BY DEF IInv, SemTypes, Data
<1>2. Seg(c) \in Runs
  BY Segments DEF Counting, LoadRequests, StoreRequests, LoadCode, StoreCode
<1>3. UNCHANGED <<run, mpc, name, key, shmid, crun, csem, hpc, hsem, hvalue, class,
                  total, overlap, floor>>
  BY DEF Counting, LoadRequests, StoreRequests, LoadCode, StoreCode, mainVars, semVars, shmVars,
         childVars, handlerVars, auxVars
<1>4. \A d \in Conns : Seg(d)' = Seg(d)
  BY <1>3 DEF Seg
<1>5. CASE LoadRequests(c) /\ attached[c]
  BY <1>1, <1>2, <1>3, <1>4, <1>5 DEF LoadRequests, shmVars, auxVars
<1>6. CASE StoreRequests(c)
  BY <1>1, <1>2, <1>3, <1>4, <1>6 DEF StoreRequests, shmVars, auxVars
<1>7. CASE LoadCode(c)
  BY <1>1, <1>2, <1>3, <1>4, <1>7 DEF LoadCode, shmVars, auxVars
<1>8. CASE StoreCode(c)
  BY <1>1, <1>2, <1>3, <1>4, <1>8 DEF StoreCode, shmVars, auxVars
<1> QED BY <1>5, <1>6, <1>7, <1>8 DEF Counting

LEMMA PlacesStep == IInv /\ Data /\ Places /\ [Next]_vars => Places'
<1> SUFFICES ASSUME IInv, Data, Places, [Next]_vars PROVE Places'
  OBVIOUS
<1>1. CASE MainZero
  <2>1. /\ run' = run + 1 /\ run \in 0..MaxRuns /\ run + 1 \in Runs /\ key \in 0..run
        /\ key' = (IF key = 0 THEN run + 1 ELSE key)
        /\ shmid' = [shmid EXCEPT ![run + 1] = key'] /\ UNCHANGED <<pc, crun, class>>
    BY <1>1, ForkAssumption, Segments DEF MainZero, Data, childVars
  <2>2. \A r \in 1..run' : shmid'[r] \in 1..run'
    <3> SUFFICES ASSUME NEW r \in 1..run' PROVE shmid'[r] \in 1..run'
      OBVIOUS
    <3>1. CASE r = run + 1
      BY <2>1, <3>1 DEF Data
    <3>2. CASE r # run + 1
      <4>1. r \in 1..run
        BY <2>1, <3>2
      <4>2. shmid'[r] = shmid[r] /\ shmid[r] \in 1..run
        BY <2>1, <3>2, <4>1 DEF Data, Places
      <4> QED BY <2>1, <4>2
    <3> QED BY <3>1, <3>2
  <2>3. \A c \in Conns : pc[c] # "none" => crun[c] \in 1..run'
    <3> SUFFICES ASSUME NEW c \in Conns, pc[c] # "none" PROVE crun[c] \in 1..run'
      OBVIOUS
    <3>1. crun[c] \in 1..run
      BY DEF Places
    <3> QED BY <2>1, <3>1
  <2> QED BY <2>1, <2>2, <2>3 DEF Places
<1>2. ASSUME NEW c \in Conns, Accept(c) PROVE Places'
  <2>1. /\ pc[c] = "none" /\ UNCHANGED <<run, shmid, class>> /\ mpc = "accept"
        /\ pc' = [pc EXCEPT ![c] = "accepted"] /\ crun' = [crun EXCEPT ![c] = run]
    BY <1>2 DEF Accept, shmVars
  <2>2. run \in 1..run
    BY <2>1, Segments
  <2>3. /\ pc'[c] = "accepted" /\ crun'[c] = run
        /\ \A d \in Conns : d # c => pc'[d] = pc[d] /\ crun'[d] = crun[d]
    BY <2>1 DEF IInv, SemTypes, Data
  <2>4. \A d \in Conns : pc'[d] # "none" => crun'[d] \in 1..run'
    BY <2>1, <2>2, <2>3 DEF Places
  <2> QED BY <2>1, <2>3, <2>4 DEF Places, Coded
<1>3. ASSUME NEW c \in Conns, Counting(c) PROVE Places'
  <2>1. /\ pc[c] \in Coded /\ class[c] \in Class
        /\ pc'[c] \notin {"none", "accepted", "open", "read", "stop"} /\ pc[c] # "none"
        /\ UNCHANGED <<run, shmid, crun, class>> /\ \A d \in Conns : d # c => pc'[d] = pc[d]
    BY <1>3, CountingStep DEF Places, Coded
  <2> QED BY <2>1 DEF Places
<1>4. CASE Frame /\ Along
  BY <1>4 DEF Frame, Along, Goes, Places
<1> QED BY <1>1, <1>2, <1>3, <1>4, NextCases

-----------------------------------------------------------------------------
LEMMA ProgressStep == IInv /\ Data /\ Places /\ Progress /\ [Next]_vars => Progress'
<1> SUFFICES ASSUME IInv, Data, Places, Progress, [Next]_vars PROVE Progress'
  OBVIOUS
<1>0. \A g \in Runs : everCounted[g] \subseteq Conns
  BY DEF Data
<1>a. ASSUME \A d \in Conns :
               /\ Seg(d)' = Seg(d)
               /\ pc'[d] \in Uncounted => pc[d] \in Uncounted
               /\ pc'[d] \in Uncounted \union Between => pc[d] \in Uncounted \union Between
               /\ \/ pc'[d] \in Between \union Finished
                  \/ pc'[d] = "end" /\ class'[d] # 0
                  => \/ pc[d] \in Between \union Finished
                     \/ pc[d] = "end" /\ class[d] # 0,
             UNCHANGED <<counted, classed, everCounted>>
      PROVE  Progress'
  <2> HIDE DEF Seg
  <2> QED BY <1>0, <1>a DEF Progress
<1>1. CASE MainZero
  <2>1. \A g \in Runs : \A c \in everCounted[g] : c \in Conns /\ pc[c] # "none"
    BY DEF Progress, Data, Uncounted
  <2>2. /\ \A c \in Conns : pc[c] # "none" => Seg(c)' = Seg(c)
        /\ UNCHANGED <<pc, class, everCounted>>
    BY <1>1, SegKept DEF MainZero, childVars
  <2>3. \A g \in Runs : counted'[g] \subseteq counted[g] /\ classed'[g] \subseteq classed[g]
    BY <1>1 DEF MainZero, Data
  <2> QED BY <2>1, <2>2, <2>3 DEF Progress, Between, Finished
<1>2. ASSUME NEW c \in Conns, Accept(c) PROVE Progress'
  <2>1. /\ pc[c] = "none" /\ UNCHANGED <<shmid, class, counted, classed, everCounted>>
        /\ pc' = [pc EXCEPT ![c] = "accepted"] /\ crun' = [crun EXCEPT ![c] = run]
    BY <1>2 DEF Accept, shmVars
  <2>2. /\ pc'[c] = "accepted" /\ \A g \in Runs : c \notin everCounted[g] /\ c \notin classed[g]
        /\ \A d \in Conns : d # c => pc'[d] = pc[d] /\ Seg(d)' = Seg(d)
    BY <2>1 DEF IInv, SemTypes, Data, Seg, Progress, Uncounted
  <2>3. \A g \in Runs : \A d \in everCounted[g] : d \in Conns /\ d # c
    BY <2>2 DEF Data
  <2> QED BY <2>1, <2>2, <2>3 DEF Progress, Uncounted, Between, Finished
<1>3. ASSUME NEW c \in Conns, Counting(c) PROVE Progress'
  <2>0. /\ \A d \in Conns : Seg(d)' = Seg(d) /\ (d # c => pc'[d] = pc[d])
        /\ class' = class /\ Seg(c) \in Runs
    BY <1>3, CountingStep
  <2>1. CASE LoadRequests(c)
    <3>1. pc[c] = "load_requests" /\ pc'[c] = "store_requests"
          /\ UNCHANGED <<counted, classed, everCounted>>
      BY <1>3, <2>1, CountingStep DEF LoadRequests, StoreRequests, LoadCode, StoreCode
    <3>2. \A d \in Conns :
            /\ pc'[d] \in Uncounted => pc[d] \in Uncounted
            /\ pc'[d] \in Uncounted \union Between => pc[d] \in Uncounted \union Between
            /\ \/ pc'[d] \in Between \union Finished
               \/ pc'[d] = "end" /\ class'[d] # 0
               => \/ pc[d] \in Between \union Finished
                  \/ pc[d] = "end" /\ class[d] # 0
      BY <2>0, <3>1 DEF Uncounted, Between, Finished
    <3> QED BY <1>a, <2>0, <3>1, <3>2
  <2>2. CASE LoadCode(c)
    <3>1. pc[c] = "load_code" /\ pc'[c] = "store_code"
          /\ UNCHANGED <<counted, classed, everCounted>>
      BY <1>3, <2>2, CountingStep DEF LoadRequests, StoreRequests, LoadCode, StoreCode
    <3>2. \A d \in Conns :
            /\ pc'[d] \in Uncounted => pc[d] \in Uncounted
            /\ pc'[d] \in Uncounted \union Between => pc[d] \in Uncounted \union Between
            /\ \/ pc'[d] \in Between \union Finished
               \/ pc'[d] = "end" /\ class'[d] # 0
               => \/ pc[d] \in Between \union Finished
                  \/ pc[d] = "end" /\ class[d] # 0
      BY <2>0, <3>1 DEF Uncounted, Between, Finished
    <3> QED BY <1>a, <2>0, <3>1, <3>2
  <2>3. CASE StoreRequests(c)
    <3>1. /\ pc[c] = "store_requests" /\ pc'[c] = "load_code" /\ classed' = classed
          /\ counted' = [counted EXCEPT ![Seg(c)] = @ \union {c}]
          /\ everCounted' = [everCounted EXCEPT ![Seg(c)] = @ \union {c}]
      BY <1>3, <2>3, CountingStep DEF LoadRequests, StoreRequests, LoadCode, StoreCode
    <3>2. \A g \in Runs :
            /\ counted'[g] = IF g = Seg(c) THEN counted[g] \union {c} ELSE counted[g]
            /\ everCounted'[g] = IF g = Seg(c) THEN everCounted[g] \union {c} ELSE everCounted[g]
      BY <3>1 DEF Data
    <3>3. \A g \in Runs : counted'[g] \subseteq everCounted'[g]
                          /\ \A d \in everCounted'[g] : Seg(d)' = g
      <4> SUFFICES ASSUME NEW g \in Runs
                   PROVE  /\ counted'[g] \subseteq everCounted'[g]
                          /\ \A d \in everCounted'[g] : Seg(d)' = g
        OBVIOUS
      <4>1. counted'[g] \subseteq everCounted'[g]
        BY <3>2 DEF Progress
      <4>2. \A d \in everCounted'[g] : d \in Conns /\ (d \in everCounted[g] \/ (d = c /\ g = Seg(c)))
        <5>1. everCounted'[g] = IF g = Seg(c) THEN everCounted[g] \union {c} ELSE everCounted[g]
          BY <3>2
        <5>2. everCounted[g] \subseteq Conns
          BY <1>0
        <5>3. CASE g = Seg(c)
          BY <5>1, <5>2, <5>3
        <5>4. CASE g # Seg(c)
          BY <5>1, <5>2, <5>4
        <5> QED BY <5>3, <5>4
      <4>3. \A d \in everCounted'[g] : Seg(d) = g
        BY <4>2 DEF Progress
      <4> QED BY <2>0, <4>1, <4>2, <4>3
    <3>4. \A d \in Conns, g \in Runs : pc'[d] \in Uncounted => d \notin everCounted'[g]
      BY <2>0, <3>1, <3>2 DEF Progress, Uncounted
    <3>5. \A d \in Conns, g \in Runs : pc'[d] \in Uncounted \union Between => d \notin classed'[g]
      BY <2>0, <3>1 DEF Progress, Uncounted, Between
    <3>6. \A d \in Conns : d = c \/ Seg(d) \notin Runs \/ everCounted[Seg(d)] \subseteq everCounted'[Seg(d)]
      BY <3>2
    <3>7. c \in everCounted'[Seg(c)]
      BY <2>0, <3>2
    <3>8. \A d \in Conns : (pc[d] \in Between \union Finished \/ pc[d] = "end") => Seg(d) \in Runs
      BY Segments DEF Between, Finished
    <3>9. \A d \in Conns : \/ pc'[d] \in Between \union Finished
                           \/ pc'[d] = "end" /\ class'[d] # 0
                           => d \in everCounted'[Seg(d)]
      BY <2>0, <3>1, <3>6, <3>7, <3>8 DEF Progress
    <3> QED BY <2>0, <3>3, <3>4, <3>5, <3>9 DEF Progress
  <2>4. CASE StoreCode(c)
    <3>1. /\ pc[c] = "store_code" /\ pc'[c] = "post" /\ UNCHANGED <<counted, everCounted>>
          /\ classed' = [classed EXCEPT ![Seg(c)] = @ \union {c}]
      BY <1>3, <2>4, CountingStep DEF LoadRequests, StoreRequests, LoadCode, StoreCode
    <3>2. \A g \in Runs : classed'[g] \subseteq classed[g] \union {c}
      BY <3>1 DEF Data
    <3>3. \A d \in Conns, g \in Runs : pc'[d] \in Uncounted \union Between => d \notin classed'[g]
      BY <2>0, <3>1, <3>2 DEF Progress, Uncounted, Between
    <3>4. \A d \in Conns : /\ pc'[d] \in Uncounted => pc[d] \in Uncounted
                           /\ \/ pc'[d] \in Between \union Finished
                              \/ pc'[d] = "end" /\ class'[d] # 0
                              => \/ pc[d] \in Between \union Finished
                                 \/ pc[d] = "end" /\ class[d] # 0
      BY <2>0, <3>1 DEF Uncounted, Between, Finished
    <3> HIDE DEF Seg
    <3> QED BY <1>0, <2>0, <3>1, <3>3, <3>4 DEF Progress
  <2> QED BY <1>3, <2>1, <2>2, <2>3, <2>4 DEF Counting
<1>4. CASE Frame /\ Along
  <2>1. \A d \in Conns : Seg(d)' = Seg(d)
    BY <1>4 DEF Frame, Seg
  <2>2. \A d \in Conns :
          /\ pc'[d] \in Uncounted => pc[d] \in Uncounted
          /\ pc'[d] \in Uncounted \union Between => pc[d] \in Uncounted \union Between
          /\ \/ pc'[d] \in Between \union Finished
             \/ pc'[d] = "end" /\ class'[d] # 0
             => \/ pc[d] \in Between \union Finished
                \/ pc[d] = "end" /\ class[d] # 0
    BY <1>4 DEF Along, Goes
  <2> QED BY <1>4, <1>a, <2>1, <2>2 DEF Frame
<1> QED BY <1>1, <1>2, <1>3, <1>4, NextCases

-----------------------------------------------------------------------------
\* Who uses a segment with which semaphore.
LEMMA KinStep == IInv /\ IInv' /\ Data /\ Places /\ Kin /\ [Next]_vars => Kin'
<1> SUFFICES ASSUME IInv, IInv', Data, Places, Kin, [Next]_vars PROVE Kin'
  OBVIOUS
<1> USE DEF mainVars, semVars, shmVars, childVars, handlerVars, auxVars
<1>0. /\ run \in 0..MaxRuns /\ Runs = 1..MaxRuns /\ MaxRuns \in Nat
      /\ \A c \in Conns : pc[c] # "none" => Seg(c) \in Runs
  BY ForkAssumption, Segments
<1>1. CASE MainZero
  <2>1. /\ run' = run + 1 /\ UNCHANGED <<pc, crun, csem, hpc, hsem>>
        /\ key' = (IF key = 0 THEN run + 1 ELSE key)
        /\ shmid' = [shmid EXCEPT ![run + 1] = key'] /\ key \in 0..run /\ run < MaxRuns
        /\ counted' = [counted EXCEPT ![key'] = {}]
    BY <1>1 DEF MainZero, Data
  <2>2. \A c \in Conns : pc[c] # "none" => crun[c] < run' /\ crun[c] # run'
    <3> SUFFICES ASSUME NEW c \in Conns, pc[c] # "none" PROVE crun[c] < run' /\ crun[c] # run'
      OBVIOUS
    <3>1. crun[c] \in 1..run
      BY DEF Places
    <3> QED BY <1>0, <2>1, <3>1
  <2>3. \A c \in Conns : Alive(c)' => overlap'[Seg(c)']
    <3> SUFFICES ASSUME NEW d \in Conns, Alive(d)' PROVE overlap'[Seg(d)']
      OBVIOUS
    <3>1. Alive(d) /\ pc[d] # "none"
      BY <2>1 DEF Alive, Dead
    <3>2. Seg(d)' = Seg(d) /\ Seg(d) \in Runs
      BY <1>0, <1>1, <3>1, SegKept
    <3>3. overlap' = [g \in Runs |-> \/ \E c \in Conns : Alive(c) /\ Seg(c) = g
                                     \/ overlap[g] /\ g # key']
      BY <1>1, Zenon DEF MainZero
    <3> HIDE DEF Seg, Alive
    <3>4. \E c \in Conns : Alive(c) /\ Seg(c) = Seg(d)
      BY <3>1
    <3>5. overlap'[Seg(d)]
      BY <3>2, <3>3, <3>4, Zenon
    <3> QED BY <3>2, <3>5
  <2>4. \A r \in Runs : r = run' => hpc[r] = "none"
    BY <1>0, <2>1 DEF IInv, Handles
  <2>5. run' \in Runs /\ key' \in Runs /\ shmid'[run'] = key' /\ counted'[key'] = {}
    <3>1. run' \in Runs /\ key' \in Runs
      BY <1>0, <2>1
    <3>2. shmid'[run + 1] = key' /\ counted'[key'] = {}
      BY <2>1, <3>1 DEF Data
    <3> QED BY <2>1, <3>1, <3>2
  <2> HIDE DEF Seg, Alive
  <2> QED BY <2>1, <2>2, <2>3, <2>4, <2>5 DEF Kin, PastOpen, Holding, Critical
<1>2. ASSUME NEW c \in Conns, Accept(c) PROVE Kin'
  <2>1. /\ pc[c] = "none" /\ mpc' = "fork"
        /\ UNCHANGED <<run, shmid, name, csem, hpc, hsem, overlap, counted>>
        /\ pc' = [pc EXCEPT ![c] = "accepted"] /\ crun' = [crun EXCEPT ![c] = run]
    BY <1>2 DEF Accept
  <2>2. /\ pc'[c] = "accepted" /\ crun'[c] = run
        /\ \A d \in Conns : d # c => pc'[d] = pc[d] /\ crun'[d] = crun[d] /\ Seg(d)' = Seg(d)
    BY <2>1 DEF IInv, SemTypes, Data, Seg
  <2>3. \A d \in Conns : Alive(d)' /\ ~ overlap'[Seg(d)'] => crun'[d] = run'
    BY <2>1, <2>2 DEF Kin, Alive
  <2>4. \A d \in Conns : pc'[d] \in PastOpen /\ crun'[d] = run' => csem'[d] = name'
    BY <2>1, <2>2 DEF Kin, PastOpen, Holding, Critical
  <2>5. run' \in Runs /\ ~ overlap'[shmid'[run']] =>
          \A d \in counted'[shmid'[run']] : crun'[d] = run'
    BY <2>1 DEF Kin, Data
  <2> QED BY <2>1, <2>3, <2>4, <2>5 DEF Kin
<1>3. ASSUME NEW c \in Conns, Counting(c) PROVE Kin'
  <2>1. /\ UNCHANGED <<run, mpc, name, shmid, crun, csem, hpc, hsem, overlap>>
        /\ \A d \in Conns : Seg(d)' = Seg(d)
        /\ \A d \in Conns : /\ Alive(d)' => Alive(d)
                            /\ pc'[d] \in PastOpen => pc[d] \in PastOpen
                            /\ pc'[d] = "none" <=> pc[d] = "none"
    BY <1>3, CountingStep DEF Alive, Dead, PastOpen, Holding, Critical
  <2>2. Alive(c) /\ Seg(c) \in Runs
    BY <1>3, CountingStep DEF Alive, Dead
  <2>3. counted' = counted \/ counted' = [counted EXCEPT ![Seg(c)] = @ \union {c}]
    BY <1>3, CountingStep DEF StoreRequests
  <2>4. ASSUME run \in Runs, ~ overlap[shmid[run]]
        PROVE  \A d \in counted'[shmid[run]] : crun[d] = run
    <3>1. \A d \in counted[shmid[run]] : crun[d] = run
      BY <2>4 DEF Kin
    <3>2. CASE shmid[run] = Seg(c)
      <4>1. crun[c] = run
        BY <2>2, <2>4, <3>2 DEF Kin
      <4>2. counted'[Seg(c)] \subseteq counted[Seg(c)] \union {c}
        BY <2>2, <2>3 DEF Data
      <4> QED BY <3>1, <3>2, <4>1, <4>2
    <3>3. CASE shmid[run] # Seg(c)
      <4>0. shmid[run] \in Runs
        BY <1>0, <2>4, Segments
      <4>1. counted'[shmid[run]] = counted[shmid[run]]
        BY <2>3, <3>3, <4>0 DEF Data
      <4> QED BY <3>1, <4>1
    <3> QED BY <3>2, <3>3
  <2> HIDE DEF Alive, Seg, PastOpen
  <2> QED BY <2>1, <2>4 DEF Kin
<1>4. ASSUME Frame, Along,
             \A d \in Conns : pc'[d] \in PastOpen /\ crun[d] = run => csem'[d] = name',
             \A r \in Runs : r = run /\ hpc'[r] \notin {"none", "hopen"} => hsem'[r] = name',
             mpc' = "unlink" => mpc = "unlink"
      PROVE  Kin'
  <2>1. \A d \in Conns : /\ Seg(d)' = Seg(d) /\ (Alive(d)' => Alive(d))
                         /\ pc'[d] = "none" <=> pc[d] = "none"
    BY <1>4 DEF Frame, Along, Goes, Seg, Alive
  <2> HIDE DEF Alive, Seg, PastOpen
  <2> QED BY <1>4, <2>1 DEF Kin, Frame
<1>5. CASE Frame /\ Along /\ Calm
  <2> HIDE DEF PastOpen
  <2> QED BY <1>4, <1>5 DEF Kin, Calm
<1>6. CASE Frame /\ Along /\ MainUnlink
  <2>1. /\ mpc = "unlink" /\ mpc' = "accept" /\ hpc' = [hpc EXCEPT ![run] = "hopen"]
        /\ pc' = pc
    BY <1>6 DEF MainUnlink
  <2>2. \A d \in Conns : pc'[d] \in PastOpen => crun[d] # run
    <3> SUFFICES ASSUME NEW d \in Conns, pc'[d] \in PastOpen PROVE crun[d] # run
      OBVIOUS
    <3>1. pc[d] # "none"
      BY <2>1 DEF PastOpen, Holding, Critical
    <3>2. crun[d] < run /\ crun[d] \in 1..run
      BY <2>1, <3>1 DEF Kin, Places
    <3> QED BY <1>0, <3>2
  <2>3. \A r \in Runs : r = run => hpc'[r] = "hopen"
    BY <2>1 DEF IInv, SemTypes
  <2> HIDE DEF PastOpen
  <2> QED BY <1>4, <1>6, <2>1, <2>2, <2>3
<1>7. ASSUME SemOpen, name # 0 PROVE name' = name
  BY <1>7 DEF SemOpen, Opened
<1>8. \A d \in Conns : pc[d] \in PastOpen => csem[d] # 0
  BY DEF IInv, Handles
<1>9. \A r \in Runs : hpc[r] \notin {"none", "hopen"} => hsem[r] # 0
  BY DEF IInv, Handles
<1>10. ASSUME NEW c \in Conns, Frame, Along, DoCallOpen(c) PROVE Kin'
  <2>1. UNCHANGED <<mpc, hpc, hsem>>
    BY <1>10 DEF DoCallOpen
  <2>2. CASE pc' = [pc EXCEPT ![c] = "end"] /\ UNCHANGED <<name, csem>>
    <3>1. \A d \in Conns : pc'[d] \in PastOpen => pc[d] \in PastOpen
      BY <2>2 DEF IInv, SemTypes, PastOpen, Holding, Critical
    <3> HIDE DEF PastOpen
    <3> QED BY <1>4, <1>10, <2>1, <2>2, <3>1 DEF Kin
  <2>3. CASE SemOpen /\ csem' = [csem EXCEPT ![c] = Opened]
    <3>1. /\ csem'[c] = Opened /\ name' = Opened
          /\ \A d \in Conns : d # c => csem'[d] = csem[d] /\ pc'[d] = pc[d]
      BY <1>10, <2>3 DEF DoCallOpen, SemOpen, IInv, SemTypes
    <3>2. \A d \in Conns : d # c /\ pc'[d] \in PastOpen /\ crun[d] = run => csem'[d] = name'
      BY <1>7, <1>8, <2>3, <3>1 DEF Kin
    <3>3. \A r \in Runs : r = run /\ hpc'[r] \notin {"none", "hopen"} => hsem'[r] = name'
      BY <1>7, <1>9, <2>1, <2>3 DEF Kin
    <3> HIDE DEF PastOpen
    <3> QED BY <1>4, <1>10, <2>1, <3>1, <3>2, <3>3
  <2> QED BY <1>10, <2>2, <2>3 DEF DoCallOpen
<1>11. ASSUME NEW r \in Runs, Frame, Along, HandlerOpen(r) PROVE Kin'
  <2>1. UNCHANGED <<mpc, pc, csem>> /\ SemOpen
    BY <1>11 DEF HandlerOpen
  <2>2. /\ hsem'[r] = Opened /\ name' = Opened
        /\ \A s \in Runs : s # r => hsem'[s] = hsem[s] /\ hpc'[s] = hpc[s]
    BY <1>11 DEF HandlerOpen, SemOpen, IInv, SemTypes
  <2>3. \A d \in Conns : pc'[d] \in PastOpen /\ crun[d] = run => csem'[d] = name'
    BY <1>7, <1>8, <2>1 DEF Kin
  <2>4. \A s \in Runs : s = run /\ hpc'[s] \notin {"none", "hopen"} => hsem'[s] = name'
    BY <1>7, <1>9, <2>1, <2>2 DEF Kin
  <2> HIDE DEF PastOpen
  <2> QED BY <1>4, <1>11, <2>1, <2>3, <2>4
<1> QED BY <1>1, <1>2, <1>3, <1>5, <1>6, <1>10, <1>11, NextCases

-----------------------------------------------------------------------------
\* Where runs do not overlap, the semaphore admits one process to the counters: a child
\* between its first and its last access, a child that died there, or the SIGUSR1
\* process of the latest run.
LEMMA Sole ==
  ASSUME IInv, Data, Places, Kin, NEW c \in Conns, pc[c] \in Critical, ~ overlap[Seg(c)]
  PROVE  /\ crun[c] = run /\ Seg(c) = shmid[run] /\ run \in Runs
         /\ \A d \in Conns : pc[d] \in Holding /\ crun[d] = run => d = c
         /\ \A d \in Conns : pc[d] \in Critical /\ ~ overlap[Seg(d)] => d = c
         /\ \A d \in counted[Seg(c)] : pc[d] \in Holding => d = c
         /\ \A r \in Runs : r = run => hpc[r] \notin HHolding
<1>1. Alive(c) /\ pc[c] \in Holding /\ pc[c] # "none"
  BY DEF Alive, Dead, Critical, Holding
<1>2. crun[c] = run
  BY <1>1 DEF Kin
<1>3. Seg(c) = shmid[run] /\ run \in 1..run /\ run \in Runs
  BY <1>1, <1>2, ForkAssumption DEF Seg, Places, IInv, SemTypes, Runs
<1>4. csem[c] = name /\ name \in Runs
  <2>1. pc[c] \in PastOpen
    BY <1>1 DEF PastOpen
  <2>2. csem[c] = name /\ csem[c] \in 1..nsem
    BY <1>2, <2>1 DEF Kin, IInv, Handles
  <2> QED BY <2>2, ForkAssumption DEF IInv, SemTypes, Runs
<1>5. \A d \in Conns : pc[d] \in Holding /\ crun[d] = run => d = c
  <2> SUFFICES ASSUME NEW d \in Conns, pc[d] \in Holding, crun[d] = run PROVE d = c
    OBVIOUS
  <2>1. csem[d] = name
    BY DEF Kin, PastOpen
  <2> QED BY <1>1, <1>4, <2>1 DEF IInv, Exclusive, HoldsW
<1>6. \A d \in Conns : pc[d] \in Critical /\ ~ overlap[Seg(d)] => d = c
  <2> SUFFICES ASSUME NEW d \in Conns, pc[d] \in Critical, ~ overlap[Seg(d)] PROVE d = c
    OBVIOUS
  <2>1. Alive(d) /\ pc[d] \in Holding
    BY DEF Alive, Dead, Critical, Holding
  <2> QED BY <1>5, <2>1 DEF Kin
<1>7. \A d \in counted[Seg(c)] : pc[d] \in Holding => d = c
  <2>1. \A d \in counted[Seg(c)] : crun[d] = run /\ d \in Conns
    <3>1. Seg(c) \in Runs
      BY <1>1, Segments
    <3> QED BY <1>3, <3>1 DEF Kin, Data
  <2> QED BY <1>5, <2>1
<1>8. \A r \in Runs : r = run => hpc[r] \notin HHolding
  <2> SUFFICES ASSUME run \in Runs, hpc[run] \in HHolding PROVE FALSE
    OBVIOUS
  <2>1. hsem[run] = name
    BY DEF Kin, HHolding, HCritical
  <2> QED BY <1>1, <1>4, <2>1 DEF IInv, Exclusive, HoldsW, HoldsR
<1> QED BY <1>2, <1>3, <1>5, <1>6, <1>7, <1>8

\* Sets of children are finite.
LEMMA Finite ==
  ASSUME Data, NEW g \in Runs
  PROVE  /\ IsFiniteSet(counted[g]) /\ Cardinality(counted[g]) \in Nat
         /\ IsFiniteSet(everCounted[g]) /\ Cardinality(everCounted[g]) \in Nat
         /\ \A k \in Class : IsFiniteSet(InClass(g, k)) /\ Cardinality(InClass(g, k)) \in Nat
<1>1. counted[g] \subseteq Conns /\ everCounted[g] \subseteq Conns
      /\ \A k \in Class : InClass(g, k) \subseteq Conns
  BY DEF Data, InClass
<1> QED BY <1>1, ForkAssumption, FS_Subset, FS_CardinalityType

-----------------------------------------------------------------------------
\* The counter never exceeds what was ever counted, whoever loses whose update.
LEMMA BoundedStep ==
  IInv /\ Data /\ Places /\ Progress /\ Bounded /\ [Next]_vars => Bounded'
<1> SUFFICES ASSUME IInv, Data, Places, Progress, Bounded, [Next]_vars PROVE Bounded'
  OBVIOUS
<1>1. CASE MainZero
  <2>1. UNCHANGED <<pc, reg, everCounted>> /\ requests' = [requests EXCEPT ![key'] = 0]
    BY <1>1 DEF MainZero, childVars
  <2>2. \A g \in Runs : requests'[g] <= Cardinality(everCounted[g])
    <3> SUFFICES ASSUME NEW g \in Runs PROVE requests'[g] <= Cardinality(everCounted[g])
      OBVIOUS
    <3>1. requests'[g] = 0 \/ requests'[g] = requests[g]
      BY <2>1 DEF Data
    <3> QED BY <3>1, Finite DEF Bounded, NeverOvercounts
  <2>3. \A c \in Conns : pc[c] # "none" => Seg(c)' = Seg(c)
    BY <1>1, SegKept
  <2> HIDE DEF Seg
  <2> QED BY <2>1, <2>2, <2>3 DEF Bounded, NeverOvercounts
<1>2. ASSUME NEW c \in Conns, Accept(c) PROVE Bounded'
  <2>1. /\ UNCHANGED <<shmid, requests, reg, everCounted>>
        /\ pc' = [pc EXCEPT ![c] = "accepted"] /\ crun' = [crun EXCEPT ![c] = run]
    BY <1>2 DEF Accept, shmVars
  <2>2. /\ pc'[c] = "accepted"
        /\ \A d \in Conns : d # c => pc'[d] = pc[d] /\ Seg(d)' = Seg(d)
    BY <2>1 DEF IInv, SemTypes, Data, Seg
  <2> HIDE DEF Seg
  <2> QED BY <2>1, <2>2 DEF Bounded, NeverOvercounts
<1>3. ASSUME NEW c \in Conns, Counting(c) PROVE Bounded'
  <2>0. /\ \A d \in Conns : Seg(d)' = Seg(d)
        /\ \A d \in Conns : d # c => pc'[d] = pc[d] /\ reg'[d] = reg[d]
        /\ Seg(c) \in Runs
    BY <1>3, CountingStep
  <2>1. CASE requests' = requests /\ everCounted' = everCounted
    <3>1. pc'[c] = "store_requests" => reg'[c] = requests[Seg(c)]
      BY <1>3, <2>1, CountingStep
    <3> HIDE DEF Seg
    <3> QED BY <2>0, <2>1, <3>1 DEF Bounded, NeverOvercounts
  <2>2. CASE StoreRequests(c)
    <3>1. /\ pc[c] = "store_requests" /\ pc'[c] = "load_code"
          /\ requests' = [requests EXCEPT ![Seg(c)] = reg[c] + 1]
          /\ everCounted' = [everCounted EXCEPT ![Seg(c)] = @ \union {c}]
      BY <1>3, <2>2, CountingStep DEF LoadRequests, StoreRequests, LoadCode, StoreCode
    <3>2. \A g \in Runs : g # Seg(c) => requests'[g] = requests[g] /\ everCounted'[g] = everCounted[g]
      BY <3>1 DEF Data
    <3>3. /\ requests'[Seg(c)] = reg[c] + 1
          /\ everCounted'[Seg(c)] = everCounted[Seg(c)] \union {c}
      BY <2>0, <3>1 DEF Data
    <3>4. c \notin everCounted[Seg(c)]
      BY <2>0, <3>1 DEF Progress, Uncounted
    <3>5. /\ Cardinality(everCounted'[Seg(c)]) = Cardinality(everCounted[Seg(c)]) + 1
          /\ Cardinality(everCounted[Seg(c)]) \in Nat
      BY <2>0, <3>3, <3>4, Finite, FS_AddElement
    <3>6. reg[c] <= Cardinality(everCounted[Seg(c)]) /\ reg[c] \in Nat
      BY <3>1 DEF Bounded, Data
    <3>7. \A g \in Runs : requests'[g] <= Cardinality(everCounted'[g])
      <4>1. \A g \in Runs : requests[g] <= Cardinality(everCounted[g])
        BY DEF Bounded, NeverOvercounts
      <4>2. requests'[Seg(c)] <= Cardinality(everCounted'[Seg(c)])
        BY <3>3, <3>5, <3>6
      <4> QED BY <3>2, <4>1, <4>2
    <3>8. ASSUME NEW d \in Conns, pc'[d] = "store_requests"
          PROVE  reg'[d] <= Cardinality(everCounted'[Seg(d)])
      <4>1. d # c /\ pc[d] = "store_requests" /\ reg'[d] = reg[d] /\ reg[d] \in Nat
        BY <2>0, <3>1, <3>8 DEF Data
      <4>2. Seg(d) \in Runs /\ reg[d] <= Cardinality(everCounted[Seg(d)])
        BY <4>1, Segments DEF Bounded
      <4> QED BY <3>2, <3>5, <4>1, <4>2
    <3> HIDE DEF Seg
    <3> QED BY <2>0, <3>7, <3>8 DEF Bounded, NeverOvercounts
  <2> QED BY <1>3, <2>1, <2>2, CountingStep
<1>4. CASE Frame /\ Along
  <2>1. /\ UNCHANGED <<requests, reg, everCounted>>
        /\ \A d \in Conns : Seg(d)' = Seg(d)
        /\ \A d \in Conns : pc'[d] = "store_requests" => pc[d] = "store_requests"
    BY <1>4 DEF Frame, Along, Goes, Seg
  <2> HIDE DEF Seg
  <2> QED BY <2>1 DEF Bounded, NeverOvercounts
<1> QED BY <1>1, <1>2, <1>3, <1>4, NextCases

-----------------------------------------------------------------------------
LEMMA RegistersStep ==
  IInv /\ Data /\ Places /\ Kin /\ Progress /\ Registers /\ [Next]_vars => Registers'
<1> SUFFICES ASSUME IInv, Data, Places, Kin, Progress, Registers, [Next]_vars PROVE Registers'
  OBVIOUS
<1>1. CASE MainZero
  <2>1. ASSUME NEW d \in Conns, pc'[d] \in {"store_requests"} \union Between
        PROVE  overlap'[Seg(d)']
    <3>1. pc[d] # "none" /\ Alive(d)
      BY <1>1, <2>1 DEF MainZero, Between, Alive, Dead
    <3>2. Seg(d)' = Seg(d) /\ Seg(d) \in Runs
      BY <1>1, <3>1, SegKept, Segments
    <3>3. overlap' = [g \in Runs |-> \/ \E c \in Conns : Alive(c) /\ Seg(c) = g
                                     \/ overlap[g] /\ g # key']
      BY <1>1, Zenon DEF MainZero
    <3> HIDE DEF Seg, Alive
    <3>4. \E c \in Conns : Alive(c) /\ Seg(c) = Seg(d)
      BY <3>1
    <3>5. overlap'[Seg(d)]
      BY <3>2, <3>3, <3>4, Zenon
    <3> QED BY <3>2, <3>5
  <2> HIDE DEF Seg
  <2> QED BY <2>1 DEF Registers, Between
<1>2. ASSUME NEW c \in Conns, Accept(c) PROVE Registers'
  <2>1. /\ UNCHANGED <<shmid, requests, codes, reg, class, overlap, counted>>
        /\ pc' = [pc EXCEPT ![c] = "accepted"] /\ crun' = [crun EXCEPT ![c] = run]
    BY <1>2 DEF Accept, shmVars
  <2>2. /\ pc'[c] = "accepted"
        /\ \A d \in Conns : d # c => pc'[d] = pc[d] /\ Seg(d)' = Seg(d)
    BY <2>1 DEF IInv, SemTypes, Data, Seg
  <2> HIDE DEF Seg
  <2> QED BY <2>1, <2>2 DEF Registers, Between
<1>3. ASSUME NEW c \in Conns, Counting(c) PROVE Registers'
  <2>0. /\ \A d \in Conns : Seg(d)' = Seg(d)
        /\ \A d \in Conns : d # c => pc'[d] = pc[d] /\ reg'[d] = reg[d]
        /\ UNCHANGED <<class, overlap>> /\ Seg(c) \in Runs /\ pc[c] \in Critical
    BY <1>3, CountingStep DEF Critical
  <2>1. \A d \in Conns : d # c /\ ~ overlap[Seg(d)] /\ pc'[d] \in {"store_requests"} \union Between
                           => Seg(d) # Seg(c)
    BY <2>0, Sole DEF Critical, Between
  <2>2. \A d \in Conns : pc'[d] \in {"store_requests"} \union Between /\ d # c => Seg(d) \in Runs
    BY <2>0, Segments DEF Between
  <2>3. \A g \in Runs : g # Seg(c) =>
          requests'[g] = requests[g] /\ codes'[g] = codes[g] /\ counted'[g] = counted[g]
    <3>1. requests' = requests \/ requests' = [requests EXCEPT ![Seg(c)] = reg[c] + 1]
      BY <1>3, CountingStep DEF StoreRequests
    <3>2. counted' = counted \/ counted' = [counted EXCEPT ![Seg(c)] = @ \union {c}]
      BY <1>3, CountingStep DEF StoreRequests
    <3>3. codes' = codes \/ codes' = [codes EXCEPT ![Seg(c)][class[c]] = reg[c] + 1]
      BY <1>3, CountingStep DEF StoreCode
    <3> HIDE DEF Seg
    <3> QED BY <3>1, <3>2, <3>3 DEF Data
  <2>4. \A d \in Conns : d # c /\ ~ overlap[Seg(d)] =>
          /\ pc'[d] = "store_requests" => reg'[d] = requests'[Seg(d)]
          /\ pc'[d] = "store_code" => reg'[d] = codes'[Seg(d)][class[d]]
          /\ pc'[d] \in Between => d \in counted'[Seg(d)]
    <3> HIDE DEF Seg
    <3> QED BY <2>0, <2>1, <2>2, <2>3 DEF Registers, Between
  <2>5. ~ overlap[Seg(c)] =>
          /\ pc'[c] = "store_requests" => reg'[c] = requests'[Seg(c)]
          /\ pc'[c] = "store_code" => reg'[c] = codes'[Seg(c)][class[c]]
          /\ pc'[c] \in Between => c \in counted'[Seg(c)]
    <3>1. CASE StoreRequests(c)
      <4>1. counted' = [counted EXCEPT ![Seg(c)] = @ \union {c}] /\ pc'[c] = "load_code"
        BY <1>3, <3>1, CountingStep DEF StoreRequests, LoadRequests, LoadCode, StoreCode
      <4> QED BY <2>0, <4>1 DEF Data
    <3>2. CASE ~ StoreRequests(c)
      BY <1>3, <3>2, CountingStep DEF Registers, Between
    <3> QED BY <3>1, <3>2
  <2> HIDE DEF Seg
  <2> QED BY <2>0, <2>4, <2>5 DEF Registers
<1>4. CASE Frame /\ Along
  <2>1. /\ UNCHANGED <<requests, codes, reg, overlap, counted>>
        /\ \A d \in Conns : Seg(d)' = Seg(d)
        /\ \A d \in Conns : pc'[d] \in {"store_requests"} \union Between =>
                              pc'[d] = pc[d] /\ class'[d] = class[d]
    BY <1>4 DEF Frame, Along, Goes, Seg, Between
  <2> HIDE DEF Seg
  <2> QED BY <2>1 DEF Registers, Between
<1> QED BY <1>1, <1>2, <1>3, <1>4, NextCases

-----------------------------------------------------------------------------
\* A step that leaves segment g alone.
LEMMA ExactKept ==
  ASSUME NEW g \in Runs, ExactAt(g),
         requests'[g] = requests[g], codes'[g] = codes[g],
         counted'[g] = counted[g], classed'[g] = classed[g],
         \A c \in classed[g] : class'[c] = class[c],
         \A c \in counted[g] \ classed[g] : pc'[c] \in Between \union {"crashed"}
  PROVE  ExactAt(g)'
<1>1. \A k \in Class : InClass(g, k)' = InClass(g, k)
  BY DEF InClass
<1> HIDE DEF InClass
<1> QED BY <1>1 DEF ExactAt

\* The step that counts a request.
LEMMA ExactStoreRequests ==
  ASSUME IInv, Data, Places, Kin, Progress, Exact, Registers, NEW c \in Conns, Counting(c),
         StoreRequests(c), ~ overlap[Seg(c)]
  PROVE  ExactAt(Seg(c))'
<1> DEFINE g == Seg(c)
<1>1. /\ pc[c] = "store_requests" /\ pc'[c] = "load_code" /\ UNCHANGED <<codes, classed, class>>
      /\ requests' = [requests EXCEPT ![g] = reg[c] + 1]
      /\ counted' = [counted EXCEPT ![g] = @ \union {c}]
      /\ g \in Runs /\ \A d \in Conns : Seg(d)' = Seg(d) /\ (d # c => pc'[d] = pc[d])
  BY CountingStep DEF LoadRequests, StoreRequests, LoadCode, StoreCode
<1>2. requests'[g] = reg[c] + 1 /\ counted'[g] = counted[g] \union {c}
  BY <1>1 DEF Data
<1>3. reg[c] = requests[g] /\ c \notin counted[g] /\ c \notin classed[g]
  BY <1>1 DEF Registers, Progress, Uncounted
<1>4. ExactAt(g)
  BY <1>1 DEF Exact
<1>5. requests'[g] = Cardinality(counted'[g])
  <2>1. IsFiniteSet(counted[g])
    BY <1>1, Finite
  <2>2. Cardinality(counted'[g]) = Cardinality(counted[g]) + 1
    BY <1>2, <1>3, <2>1, FS_AddElement
  <2> QED BY <1>2, <1>3, <1>4, <2>2 DEF ExactAt
<1>6. \A k \in Class : codes'[g][k] = Cardinality(InClass(g, k)')
  BY <1>1, <1>4 DEF ExactAt, InClass
<1>7. counted[g] \ classed[g] = {}
  <2> SUFFICES ASSUME NEW d \in counted[g] \ classed[g] PROVE FALSE
    OBVIOUS
  <2>1. pc[d] \in Holding
    BY <1>4 DEF ExactAt, Between, Holding, Critical
  <2>2. d = c
    BY <1>1, <2>1, Sole DEF Critical
  <2> QED BY <1>3, <2>2
<1>8. counted'[g] \ classed'[g] = {c} /\ pc'[c] \in Between
  BY <1>1, <1>2, <1>3, <1>7 DEF Between
<1>9. classed'[g] \subseteq counted'[g]
  BY <1>1, <1>2, <1>4 DEF ExactAt
<1>10. Seg(c)' = g
  BY <1>1
<1> HIDE DEF g
<1>11. /\ requests'[g] = Cardinality(counted'[g])
       /\ \A k \in Class : codes'[g][k] = Cardinality(InClass(g, k)')
       /\ classed'[g] \subseteq counted'[g]
       /\ \A d, e \in counted'[g] \ classed'[g] : d = e
       /\ \A d \in counted'[g] \ classed'[g] : pc'[d] \in Between \union {"crashed"}
  BY <1>5, <1>6, <1>8, <1>9
<1> QED BY <1>10, <1>11 DEF ExactAt, InClass, g

\* The step that counts its class.
LEMMA ExactStoreCode ==
  ASSUME IInv, Data, Places, Kin, Progress, Exact, Registers, NEW c \in Conns, Counting(c),
         StoreCode(c), ~ overlap[Seg(c)]
  PROVE  ExactAt(Seg(c))'
<1> DEFINE g == Seg(c)
<1>1. /\ pc[c] = "store_code" /\ UNCHANGED <<requests, counted, class>>
      /\ codes' = [codes EXCEPT ![g][class[c]] = reg[c] + 1]
      /\ classed' = [classed EXCEPT ![g] = @ \union {c}]
      /\ g \in Runs /\ \A d \in Conns : Seg(d)' = Seg(d) /\ (d # c => pc'[d] = pc[d])
  BY CountingStep DEF LoadRequests, StoreRequests, LoadCode, StoreCode
<1>2. classed'[g] = classed[g] \union {c}
  BY <1>1 DEF Data
<1>3. /\ reg[c] = codes[g][class[c]] /\ c \in counted[g] /\ c \notin classed[g]
      /\ class[c] \in Class
  BY <1>1 DEF Registers, Progress, Between, Places, Coded
<1>4. ExactAt(g)
  BY <1>1 DEF Exact
<1>5. ASSUME NEW k \in Class PROVE codes'[g][k] = Cardinality(InClass(g, k)')
  <2> HIDE DEF Class
  <2>1. codes'[g][k] = IF k = class[c] THEN codes[g][k] + 1 ELSE codes[g][k]
    <3>1. codes[g] \in [Class -> Nat]
      BY <1>1 DEF Data
    <3>2. codes'[g] = [codes[g] EXCEPT ![class[c]] = reg[c] + 1]
      BY <1>1 DEF Data
    <3> HIDE DEF g
    <3> QED BY <1>3, <3>1, <3>2
  <2>2. codes[g][k] = Cardinality(InClass(g, k)) /\ IsFiniteSet(InClass(g, k))
    BY <1>1, <1>4, Finite DEF ExactAt
  <2>3. CASE k = class[c]
    <3>1. InClass(g, k)' = InClass(g, k) \union {c} /\ c \notin InClass(g, k)
      BY <1>1, <1>2, <1>3, <2>3 DEF InClass
    <3> HIDE DEF InClass, g
    <3>2. Cardinality(InClass(g, k)') = Cardinality(InClass(g, k)) + 1
      BY <2>2, <3>1, FS_AddElement
    <3> QED BY <2>1, <2>2, <2>3, <3>2
  <2>4. CASE k # class[c]
    <3>1. InClass(g, k)' = InClass(g, k)
      BY <1>1, <1>2, <2>4 DEF InClass
    <3> QED BY <2>1, <2>2, <2>4, <3>1
  <2> QED BY <2>3, <2>4
<1>6. counted'[g] \ classed'[g] = {}
  <2> SUFFICES ASSUME NEW d \in counted[g], d \notin classed'[g] PROVE FALSE
    BY <1>1
  <2>1. d # c /\ d \in counted[g] \ classed[g]
    BY <1>2
  <2> QED BY <1>3, <1>4, <2>1 DEF ExactAt
<1>7. classed'[g] \subseteq counted'[g] /\ requests'[g] = Cardinality(counted'[g])
  BY <1>1, <1>2, <1>3, <1>4 DEF ExactAt
<1>8. Seg(c)' = g
  BY <1>1
<1> HIDE DEF g
<1>9. /\ requests'[g] = Cardinality(counted'[g])
      /\ \A k \in Class : codes'[g][k] = Cardinality(InClass(g, k)')
      /\ classed'[g] \subseteq counted'[g]
      /\ \A d, e \in counted'[g] \ classed'[g] : d = e
      /\ \A d \in counted'[g] \ classed'[g] : pc'[d] \in Between \union {"crashed"}
  BY <1>5, <1>6, <1>7
<1> QED BY <1>8, <1>9 DEF ExactAt, InClass, g

LEMMA ExactStep ==
  IInv /\ Data /\ Places /\ Kin /\ Progress /\ Exact /\ Registers /\ [Next]_vars => Exact'
<1> SUFFICES ASSUME IInv, Data, Places, Kin, Progress, Exact, Registers, [Next]_vars,
                    NEW g \in Runs, ~ overlap'[g]
             PROVE  ExactAt(g)'
  BY DEF Exact
<1>0. counted[g] \subseteq Conns /\ counted[g] \subseteq everCounted[g] /\ classed[g] \subseteq Conns
  BY DEF Data, Progress
<1>1. CASE MainZero
  <2>1. /\ requests' = [requests EXCEPT ![key'] = 0] /\ pc' = pc /\ class' = class
        /\ codes' = [codes EXCEPT ![key'] = [k \in Class |-> 0]]
        /\ counted' = [counted EXCEPT ![key'] = {}]
        /\ classed' = [classed EXCEPT ![key'] = {}]
    BY <1>1 DEF MainZero, childVars
  <2>2. CASE g = key'
    <3>1. /\ requests'[g] = 0 /\ codes'[g] = [k \in Class |-> 0]
          /\ counted'[g] = {} /\ classed'[g] = {}
      BY <2>1, <2>2 DEF Data
    <3>2. \A k \in Class : InClass(g, k)' = {}
      BY <3>1 DEF InClass
    <3> HIDE DEF InClass, Class
    <3> QED BY <3>1, <3>2, FS_EmptySet DEF ExactAt
  <2>3. CASE g # key'
    <3>1. overlap' = [h \in Runs |-> \/ \E c \in Conns : Alive(c) /\ Seg(c) = h
                                     \/ overlap[h] /\ h # key']
      BY <1>1, Zenon DEF MainZero
    <3>2. ~ overlap[g]
      BY <2>3, <3>1, Zenon
    <3>3. ExactAt(g)
      BY <3>2 DEF Exact
    <3>4. /\ requests'[g] = requests[g] /\ codes'[g] = codes[g]
          /\ counted'[g] = counted[g] /\ classed'[g] = classed[g]
      BY <2>1, <2>3 DEF Data
    <3>5. \A c \in counted[g] \ classed[g] : pc'[c] \in Between \union {"crashed"}
      BY <2>1, <3>3 DEF ExactAt
    <3> QED BY <2>1, <3>3, <3>4, <3>5, ExactKept
  <2> QED BY <2>2, <2>3
<1>2. ASSUME NEW c \in Conns, Accept(c) PROVE ExactAt(g)'
  <2>1. /\ UNCHANGED <<requests, codes, class, overlap, counted, classed>>
        /\ pc[c] = "none" /\ pc' = [pc EXCEPT ![c] = "accepted"]
    BY <1>2 DEF Accept, shmVars
  <2>2. ExactAt(g)
    BY <2>1 DEF Exact
  <2>3. c \notin counted[g] /\ \A d \in Conns : d # c => pc'[d] = pc[d]
    BY <1>0, <2>1 DEF Progress, Uncounted, IInv, SemTypes
  <2>4. \A d \in counted[g] \ classed[g] : pc'[d] \in Between \union {"crashed"}
    BY <1>0, <2>2, <2>3 DEF ExactAt
  <2> QED BY <2>1, <2>2, <2>4, ExactKept
<1>3. ASSUME NEW c \in Conns, Counting(c) PROVE ExactAt(g)'
  <2>0. /\ UNCHANGED <<class, overlap>> /\ \A d \in Conns : d # c => pc'[d] = pc[d]
        /\ Seg(c) \in Runs /\ Seg(c)' = Seg(c)
    BY <1>3, CountingStep
  <2>1. ExactAt(g)
    BY <2>0 DEF Exact
  <2>2. ASSUME c \in counted[g] PROVE Seg(c) = g
    BY <1>0, <2>2 DEF Progress
  <2>3. CASE g # Seg(c)
    <3>1. /\ requests' = requests \/ requests' = [requests EXCEPT ![Seg(c)] = reg[c] + 1]
          /\ codes' = codes \/ codes' = [codes EXCEPT ![Seg(c)][class[c]] = reg[c] + 1]
          /\ counted' = counted \/ counted' = [counted EXCEPT ![Seg(c)] = @ \union {c}]
          /\ classed' = classed \/ classed' = [classed EXCEPT ![Seg(c)] = @ \union {c}]
      BY <1>3, CountingStep DEF StoreRequests, StoreCode
    <3>2. /\ requests'[g] = requests[g] /\ codes'[g] = codes[g]
          /\ counted'[g] = counted[g] /\ classed'[g] = classed[g]
      BY <2>3, <3>1 DEF Data
    <3>3. \A d \in counted[g] \ classed[g] : pc'[d] \in Between \union {"crashed"}
      BY <1>0, <2>0, <2>1, <2>2, <2>3 DEF ExactAt
    <3> QED BY <2>0, <2>1, <3>2, <3>3, ExactKept
  <2>4. CASE g = Seg(c) /\ StoreRequests(c)
    <3>1. ~ overlap[Seg(c)]
      BY <2>0, <2>4
    <3>2. ExactAt(Seg(c))'
      BY <1>3, <2>4, <3>1, ExactStoreRequests
    <3> QED BY <2>0, <2>4, <3>2 DEF ExactAt, InClass
  <2>5. CASE g = Seg(c) /\ StoreCode(c)
    <3>1. ~ overlap[Seg(c)]
      BY <2>0, <2>5
    <3>2. ExactAt(Seg(c))'
      BY <1>3, <2>5, <3>1, ExactStoreCode
    <3> QED BY <2>0, <2>5, <3>2 DEF ExactAt, InClass
  <2>6. CASE g = Seg(c) /\ (LoadRequests(c) \/ LoadCode(c))
    <3>1. /\ UNCHANGED <<requests, codes, counted, classed>>
          /\ \/ pc[c] = "load_requests" /\ pc'[c] = "store_requests"
             \/ pc[c] = "load_code" /\ pc'[c] = "store_code"
      BY <1>3, <2>6, CountingStep DEF StoreRequests, StoreCode, LoadRequests, LoadCode
    <3>2. pc[c] = "load_requests" => c \notin counted[g]
      BY <1>0 DEF Progress, Uncounted
    <3>3. \A d \in counted[g] \ classed[g] : pc'[d] \in Between \union {"crashed"}
      BY <1>0, <2>0, <2>1, <3>1, <3>2 DEF ExactAt, Between
    <3> QED BY <2>0, <2>1, <3>1, <3>3, ExactKept
  <2> QED BY <1>3, <2>3, <2>4, <2>5, <2>6 DEF Counting
<1>4. CASE Frame /\ Along
  <2>1. /\ UNCHANGED <<requests, codes, overlap, counted, classed>>
        /\ \A d \in Conns : pc[d] \in Between \union {"crashed"} => pc'[d] \in Between \union {"crashed"}
        /\ \A d \in Conns : class'[d] = class[d] \/ pc[d] \in {"read", "dispatch", "send"}
    BY <1>4 DEF Frame, Along, Goes
  <2>2. ExactAt(g)
    BY <2>1 DEF Exact
  <2>3. \A d \in classed[g] : class'[d] = class[d]
    BY <1>0, <2>1 DEF Progress, Uncounted
  <2>4. \A d \in counted[g] \ classed[g] : pc'[d] \in Between \union {"crashed"}
    BY <1>0, <2>1, <2>2 DEF ExactAt
  <2> QED BY <2>1, <2>2, <2>3, <2>4, ExactKept
<1> QED BY <1>1, <1>2, <1>3, <1>4, NextCases

-----------------------------------------------------------------------------
\* What was read lies between the floor and the counter.
LEMMA WindowStep ==
  IInv /\ Data /\ Places /\ Kin /\ Exact /\ Registers /\ Window /\ [Next]_vars => Window'
<1> SUFFICES ASSUME IInv, Data, Places, Kin, Exact, Registers, Window, [Next]_vars PROVE Window'
  OBVIOUS
<1> DEFINE Within(c) == /\ floor[c] <= requests[Seg(c)]
                        /\ total[c] # -1 => floor[c] <= total[c] /\ total[c] <= requests[Seg(c)]
<1>0. /\ \A c \in Conns : floor[c] \in Nat /\ total[c] \in Nat \union {-1}
      /\ \A c \in Conns : Alive(c) => pc[c] # "none" /\ Seg(c) \in Runs
      /\ \A g \in Runs : requests[g] \in Nat
  BY Segments DEF Data, Alive, Dead
<1>1. CASE MainZero
  <2>1. ASSUME NEW d \in Conns, Alive(d)' PROVE overlap'[Seg(d)']
    <3>1. pc[d] # "none" /\ Alive(d)
      BY <1>1, <2>1 DEF MainZero, Alive, Dead
    <3>2. Seg(d)' = Seg(d) /\ Seg(d) \in Runs
      BY <1>1, <3>1, SegKept, Segments
    <3>3. overlap' = [g \in Runs |-> \/ \E c \in Conns : Alive(c) /\ Seg(c) = g
                                     \/ overlap[g] /\ g # key']
      BY <1>1, Zenon DEF MainZero
    <3> HIDE DEF Seg, Alive
    <3>4. \E c \in Conns : Alive(c) /\ Seg(c) = Seg(d)
      BY <3>1
    <3>5. overlap'[Seg(d)]
      BY <3>2, <3>3, <3>4, Zenon
    <3> QED BY <3>2, <3>5
  <2>2. \A r \in Runs : r = run' => hpc'[r] = "none"
    <3>1. run' = run + 1 /\ hpc' = hpc
      BY <1>1 DEF MainZero, handlerVars
    <3> QED BY <3>1, Segments DEF IInv, Handles
  <2>3. pc' = pc /\ total' = total
    BY <1>1 DEF MainZero, childVars
  <2> HIDE DEF Seg, Alive
  <2> QED BY <2>1, <2>2, <2>3 DEF Window, ReportIsCurrent
<1>2. ASSUME NEW c \in Conns, Accept(c) PROVE Window'
  <2>1. /\ UNCHANGED <<run, shmid, requests, total, hpc, hvalue, overlap>>
        /\ pc[c] = "none" /\ mpc = "accept"
        /\ pc' = [pc EXCEPT ![c] = "accepted"] /\ crun' = [crun EXCEPT ![c] = run]
        /\ floor' = [floor EXCEPT ![c] = Cardinality(counted[shmid[run]])]
    BY <1>2 DEF Accept, shmVars, handlerVars
  <2>2. /\ Seg(c)' = shmid[run] /\ shmid[run] \in Runs /\ pc'[c] = "accepted"
        /\ floor'[c] = Cardinality(counted[shmid[run]])
        /\ \A d \in Conns : d # c => /\ pc'[d] = pc[d] /\ Seg(d)' = Seg(d)
                                     /\ floor'[d] = floor[d] /\ Alive(d)' = Alive(d)
    BY <2>1, Segments DEF IInv, SemTypes, Data, Seg, Alive
  <2>3. total'[c] = -1
    BY <2>1 DEF Window
  <2>4. ~ overlap[shmid[run]] => floor'[c] <= requests[shmid[run]]
    BY <1>0, <2>2, Finite DEF Exact, ExactAt
  <2>5. \A d \in Conns : Alive(d)' /\ ~ overlap'[Seg(d)'] => Within(d)'
    <3> HIDE DEF Seg, Alive
    <3> QED BY <2>1, <2>2, <2>3, <2>4 DEF Window
  <2>6. ReportIsCurrent'
    BY <2>1 DEF Window, ReportIsCurrent
  <2>7. \A d \in Conns : pc'[d] = "none" => total'[d] = -1
    BY <2>1, <2>2 DEF Window
  <2> QED BY <2>5, <2>6, <2>7 DEF Window
<1>3. ASSUME NEW c \in Conns, Counting(c) PROVE Window'
  <2>0. /\ UNCHANGED <<run, shmid, total, floor, overlap, hpc, hvalue>>
        /\ \A d \in Conns : Seg(d)' = Seg(d) /\ (d # c => pc'[d] = pc[d])
        /\ Seg(c) \in Runs /\ pc[c] \in Critical /\ pc'[c] # "none"
    BY <1>3, CountingStep DEF Critical
  <2>1. \A d \in Conns : /\ Alive(d)' => Alive(d)
                         /\ pc'[d] = "none" => pc[d] = "none"
    BY <2>0 DEF Alive, Dead, Critical
  <2>2. \A g \in Runs : ~ overlap[g] =>
          \/ requests'[g] = requests[g]
          \/ g = Seg(c) /\ requests'[g] = requests[g] + 1
    <3>1. CASE requests' = requests
      BY <3>1
    <3>2. CASE StoreRequests(c)
      <4>1. requests' = [requests EXCEPT ![Seg(c)] = reg[c] + 1] /\ pc[c] = "store_requests"
        BY <3>2 DEF StoreRequests
      <4>2. ~ overlap[Seg(c)] => reg[c] = requests[Seg(c)]
        BY <4>1 DEF Registers
      <4> HIDE DEF Seg
      <4> QED BY <4>1, <4>2 DEF Data
    <3> QED BY <1>3, <3>1, <3>2, CountingStep
  <2>3. \A d \in Conns : Alive(d)' /\ ~ overlap'[Seg(d)'] => Within(d)'
    <3> SUFFICES ASSUME NEW d \in Conns, Alive(d)', ~ overlap'[Seg(d)'] PROVE Within(d)'
      OBVIOUS
    <3>1. Within(d) /\ Seg(d)' = Seg(d) /\ Seg(d) \in Runs /\ ~ overlap[Seg(d)]
      BY <1>0, <2>0, <2>1 DEF Window
    <3>2. requests'[Seg(d)] = requests[Seg(d)] \/ requests'[Seg(d)] = requests[Seg(d)] + 1
      BY <2>2, <3>1
    <3>3. floor'[d] = floor[d] /\ total'[d] = total[d]
      BY <2>0
    <3> HIDE DEF Seg
    <3> QED BY <1>0, <3>1, <3>2, <3>3
  <2>4. ReportIsCurrent'
    <3> SUFFICES ASSUME run \in Runs, hpc[run] = "hpost", ~ overlap[shmid[run]]
                 PROVE  hvalue[run] = requests'[shmid[run]]
      BY <2>0 DEF ReportIsCurrent
    <3>1. hvalue[run] = requests[shmid[run]] /\ shmid[run] \in Runs
      BY Segments DEF Window, ReportIsCurrent
    <3>2. shmid[run] # Seg(c)
      BY <2>0, Sole DEF HHolding, HCritical
    <3> QED BY <2>2, <3>1, <3>2
  <2>5. \A d \in Conns : pc'[d] = "none" => total'[d] = -1
    BY <2>0, <2>1 DEF Window
  <2> QED BY <2>3, <2>4, <2>5 DEF Window
<1>4. CASE Frame /\ Along /\ Reads
  <2>1. /\ UNCHANGED <<run, shmid, requests, overlap, floor>>
        /\ \A d \in Conns : /\ Seg(d)' = Seg(d) /\ (Alive(d)' => Alive(d))
                            /\ pc'[d] = "none" => pc[d] = "none"
    BY <1>4 DEF Frame, Along, Goes, Seg, Alive
  <2>2. \A d \in Conns : Alive(d)' /\ ~ overlap'[Seg(d)'] => Within(d)'
    <3> SUFFICES ASSUME NEW d \in Conns, Alive(d)', ~ overlap'[Seg(d)'] PROVE Within(d)'
      OBVIOUS
    <3>1. Within(d) /\ Seg(d)' = Seg(d) /\ Seg(d) \in Runs
      BY <1>0, <2>1 DEF Window
    <3>2. total'[d] \in {total[d], -1, requests[Seg(d)]}
      BY <1>4 DEF Reads
    <3>3. floor'[d] = floor[d] /\ requests'[Seg(d)] = requests[Seg(d)]
      BY <2>1
    <3> HIDE DEF Seg
    <3> QED BY <1>0, <3>1, <3>2, <3>3
  <2>3. ReportIsCurrent'
    BY <1>4, <2>1 DEF Window, ReportIsCurrent, Reads
  <2>4. \A d \in Conns : pc'[d] = "none" => total'[d] = -1
    BY <1>4, <2>1 DEF Window, Reads
  <2> QED BY <2>2, <2>3, <2>4 DEF Window
<1> QED BY <1>1, <1>2, <1>3, <1>4, NextCases

-----------------------------------------------------------------------------
THEOREM CountingInvariant == Spec => []CInv
<1>1. CInv /\ [Next]_vars => CInv'
  BY NextStep, DataStep, PlacesStep, KinStep, ProgressStep, ExactStep, RegistersStep, BoundedStep,
     WindowStep DEF CInv
<1> QED BY InitCInv, <1>1, PTL DEF Spec

\* Every variable has its type.
THEOREM TypeCorrect == Spec => []TypeOK
<1>1. CInv => TypeOK
  <2> SUFFICES ASSUME CInv PROVE TypeOK
    OBVIOUS
  <2> USE DEF CInv, IInv
  <2>1. key \in 0..MaxRuns
    BY ForkAssumption DEF Data, SemTypes
  <2>2. pc \in [Conns -> Critical \union Dead \union
                  {"accepted", "open", "read", "dispatch", "send", "body", "bash", "stop", "wait"}]
    BY DEF SemTypes, PcStates, PastOpen, Holding, Critical, Dead
  <2>3. hpc \in [Runs -> HCritical \union
                   {"none", "hopen", "hopen_user1", "wait_user1", "wait_shm", "hcrashed"}]
    BY DEF SemTypes, HpcStates, HHolding
  <2>4. mpc = "fork" => mconn \in Conns
    BY DEF Handles
  <2> HIDE DEF Class, Runs
  <2> QED BY <2>1, <2>2, <2>3, <2>4 DEF SemTypes, Data, TypeOK
<1> QED BY CountingInvariant, <1>1, PTL

\* Unless a restarted server found children of the old run alive on its segment, no
\* request is lost or counted twice, in either counter, for any number of connections
\* and restarts, and whoever died where.
THEOREM CountExactAlways == Spec => []CountExact
<1>1. CInv => CountExact
  <2> SUFFICES ASSUME CInv, NEW g \in Runs, ~ overlap[g]
               PROVE  /\ requests[g] = Cardinality(counted[g])
                      /\ \A k \in Class :
                           codes[g][k] = Cardinality({c \in classed[g] : class[c] = k})
                      /\ classed[g] \subseteq counted[g]
                      /\ \A c, d \in counted[g] \ classed[g] :
                           c = d /\ pc[c] \in {"load_code", "store_code", "crashed"}
    BY DEF CountExact
  <2>1. ExactAt(g)
    BY DEF CInv, Exact
  <2> QED BY <2>1 DEF ExactAt, InClass, Between
<1> QED BY CountingInvariant, <1>1, PTL

\* With any number of overlapping runs a segment never claims more than was counted.
THEOREM NeverOvercountsAlways == Spec => []NeverOvercounts
<1>1. CInv => NeverOvercounts
  BY DEF CInv, Bounded
<1> QED BY CountingInvariant, <1>1, PTL

\* Whatever route answers a connection, it is counted before the answer ends.
THEOREM AnsweredIsCountedAlways == Spec => []AnsweredIsCounted
<1>1. CInv => AnsweredIsCounted
  BY DEF CInv, Progress, AnsweredIsCounted
<1> QED BY CountingInvariant, <1>1, PTL

\* /statistics, which takes no semaphore, reports a count of its own time.
THEOREM StatisticsBoundedAlways == Spec => []StatisticsBounded
<1>1. CInv => StatisticsBounded
  BY DEF CInv, Window, StatisticsBounded
<1> QED BY CountingInvariant, <1>1, PTL

\* What the SIGUSR1 process of the latest run prints is the count at that moment.
THEOREM ReportIsCurrentAlways == Spec => []ReportIsCurrent
<1>1. CInv => ReportIsCurrent
  BY DEF CInv, Window
<1> QED BY CountingInvariant, <1>1, PTL
=============================================================================
