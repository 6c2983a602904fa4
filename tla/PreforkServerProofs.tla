------------------------- MODULE PreforkServerProofs -------------------------
(***************************************************************************)
(* The semaphore and the counters of the pre-forked pool, for any number   *)
(* of processes, connections and signals, whoever dies where; and that the *)
(* unfinished copy of the pool does nothing that the pool does not.        *)
(*                                                                         *)
(* As in ForkServerProofs the steps are proved about an invariant that     *)
(* says who holds the semaphore; SemaphoreExact counts the holders.        *)
(***************************************************************************)
EXTENDS PassFdServer, FiniteSetTheorems, SequenceTheorems, TLAPS

\* Where a worker has a connection that is not counted; counted, but not in its class;
\* counted in both; where it has none.
Early == {"read", "dispatch", "stat_wait", "stat_read", "send", "stop", "wait",
          "load_requests", "store_requests"}
Between == {"load_code", "store_code"}
Finished == {"post", "body", "bash", "end"}
Outside == {"none", "start", "open", "idle", "dead", "crashed"}
Serving == Early \union Between \union Finished

\* Where a worker knows the code of its answer; where a process, dead or alive, has
\* taken the semaphore.
Coded == {"send", "wait", "load_requests", "store_requests", "load_code", "store_code"}
Holding == Critical \union {"crashed"}
HHolding == HCritical \union {"hcrashed"}

PcStates == Serving \union Outside
HpcStates == HHolding \union {"none", "open", "wait_user1", "wait_shm", "hdead"}

\* The types of the variables that the semaphore and the counters depend on.
Types ==
  /\ up /\ semWorks /\ sem \in {0, 1} /\ created \in BOOLEAN
  /\ requests \in Nat /\ codes \in [Class -> Nat]
  /\ pc \in [Workers -> PcStates] /\ after \in [Workers -> {"end", "body", "bash"}]
  /\ reg \in [Workers -> Nat] /\ class \in [Workers -> Class \union {0}]
  /\ connfd \in [Workers -> Conns \union {Nil}] /\ backlog \in [Workers -> Seq(Conns)]
  /\ accepted \in SUBSET Conns /\ hpc \in HpcStates
  /\ mpc = "fork" => hpc = "none"

\* The status of an answer is known where it is needed.
HasClass == \A w \in Workers : pc[w] \in Coded => class[w] \in Class

\* Who got past sem_open has a semaphore.
Opened ==
  /\ \A w \in Workers : pc[w] \notin {"none", "start", "open", "dead"} => created
  /\ hpc \notin {"none", "open", "hdead"} => created

\* The semaphore is 0 while, and only while, a process that took it has not given it
\* back, and one process has it at most.
Taken == hpc \in HHolding \/ \E w \in Workers : pc[w] \in Holding
Exclusive ==
  /\ created => (sem = 0 <=> Taken)
  /\ ~ created => sem = 0
  /\ \A v, w \in Workers : pc[v] \in Holding /\ pc[w] \in Holding => v = w
  /\ \A w \in Workers : ~ (pc[w] \in Holding /\ hpc \in HHolding)

\* A client is in one backlog, once, until it is accepted.
Queued ==
  /\ \A w \in Workers : \A i \in 1..Len(backlog[w]) : backlog[w][i] \notin accepted
  /\ \A v, w \in Workers : \A i \in 1..Len(backlog[v]), j \in 1..Len(backlog[w]) :
       backlog[v][i] = backlog[w][j] => v = w /\ i = j

\* An accepted one is with one worker, which counts it, then counts its class.
Owned ==
  /\ answered \subseteq classed /\ classed \subseteq counted /\ counted \subseteq accepted
  /\ \A v, w \in Workers : pc[v] \in Serving /\ connfd[v] = connfd[w] => v = w
  /\ \A w \in Workers :
       /\ pc[w] \in Serving => connfd[w] \in accepted
       /\ pc[w] \in Outside => connfd[w] = Nil
       /\ connfd[w] \notin answered
       /\ pc[w] \in Early => connfd[w] \notin counted
       /\ pc[w] \in Between => connfd[w] \in counted \ classed
       /\ pc[w] \in Finished => connfd[w] \in classed

\* The counters are exact, and who holds the semaphore has read what is in them.
Exact ==
  /\ requests = Cardinality(counted)
  /\ codes[2] + codes[4] + codes[5] = Cardinality(classed)
  /\ \A c, d \in counted \ classed : c = d
  /\ \A c \in counted \ classed :
       \E w \in Workers : pc[w] = "crashed" \/ (pc[w] \in Between /\ connfd[w] = c)
Registers ==
  \A w \in Workers : /\ pc[w] = "store_requests" => reg[w] = requests
                     /\ pc[w] = "store_code" => reg[w] = codes[class[w]]

IInv == Types /\ HasClass /\ Opened /\ Exclusive /\ Queued /\ Owned /\ Exact /\ Registers

\* The invariant holds when main has zeroed the segment.
LEMMA InitIInv == Init => IInv
<1> SUFFICES ASSUME Init PROVE IInv
  OBVIOUS
<1> USE PreforkAssumption DEF Init, Class, Copy!Class
<1>1. Types
  BY EmptySeq DEF Types, PcStates, HpcStates, Outside
<1>2. HasClass /\ Opened /\ Queued /\ Registers
  BY DEF HasClass, Opened, Queued, Registers, Coded
<1>3. Exclusive
  BY DEF Exclusive, Taken, Holding, HHolding, Critical, HCritical
<1>4. Owned
  BY DEF Owned, Serving, Early, Between, Finished, Outside
<1>5. Exact
  BY FS_EmptySet DEF Exact
<1> QED BY <1>1, <1>2, <1>3, <1>4, <1>5 DEF IInv

-----------------------------------------------------------------------------
\* What the steps do to the semaphore, the counters and those that use them.
connVars == <<accepted, connfd, counted, answered, classed, backlog>>
countVars == <<requests, codes, reg>>

\* The SIGUSR1 process goes on or dies, or nothing happens.
HMoves ==
  /\ hpc' \in HpcStates /\ (hpc' \in HHolding <=> hpc \in HHolding)
  /\ hpc' \notin {"none", "open", "hdead"} => hpc \notin {"none", "open", "hdead"}
Still == HMoves /\ UNCHANGED <<connVars, countVars, pc, class, after, sem, created>>

\* Worker w goes on to p.
Goes(w, p) ==
  /\ pc' = [pc EXCEPT ![w] = p]
  /\ \/ pc[w] \in Early /\ p \in Early
     \/ pc[w] \in Finished /\ p \in Finished
     \/ pc[w] \in Outside /\ p \in Outside
  /\ pc[w] # "crashed" /\ p # "crashed"
  /\ p \notin {"none", "start", "open"} => pc[w] \notin {"none", "start", "open", "dead"}
  /\ class' \in [Workers -> Class \union {0}] /\ after' \in [Workers -> {"end", "body", "bash"}]
  /\ \A v \in Workers : v # w => class'[v] = class[v]
  /\ p \in Coded => class'[w] \in Class
  /\ p \notin {"store_requests", "store_code"}
  /\ UNCHANGED <<connVars, countVars, hpc>>

Moves(w, p) == /\ Goes(w, p) /\ pc[w] \notin Holding /\ p \notin Holding
               /\ UNCHANGED <<sem, created>>
Takes(w, p) == /\ Goes(w, p) /\ pc[w] \notin Holding /\ p \in Holding
               /\ sem > 0 /\ sem' = sem - 1 /\ UNCHANGED created
Gives(w, p) == /\ Goes(w, p) /\ pc[w] \in Holding /\ p \notin Holding
               /\ sem' = sem + 1 /\ UNCHANGED created

\* Worker w has opened the semaphore, or the SIGUSR1 process has; that process takes it,
\* or gives it back.
Opens(w) == /\ pc[w] = "open" /\ pc' = [pc EXCEPT ![w] = "idle"] /\ SemOpen
            /\ UNCHANGED <<connVars, countVars, class, after, hpc>>
HOpens == /\ hpc = "open" /\ hpc' = "wait_user1" /\ SemOpen
          /\ UNCHANGED <<connVars, countVars, pc, class, after>>
HTakes == /\ hpc = "wait_shm" /\ hpc' = "read_value" /\ sem > 0 /\ sem' = sem - 1
          /\ UNCHANGED <<connVars, countVars, pc, class, after, created>>
HGives == /\ hpc = "hpost" /\ hpc' = "wait_user1" /\ sem' = sem + 1
          /\ UNCHANGED <<connVars, countVars, pc, class, after, created>>

\* A client enters the backlog of w, is accepted, is done with.
Joins(w, c) ==
  /\ c \notin accepted
  /\ \A v \in Workers : \A n \in 1..Len(backlog[v]) : backlog[v][n] # c
  /\ backlog' = [backlog EXCEPT ![w] = Append(@, c)]
  /\ UNCHANGED <<accepted, connfd, counted, answered, classed, countVars, pc, class, after,
                 sem, created, hpc>>
Accepts(w) ==
  /\ pc[w] = "idle" /\ pc' = [pc EXCEPT ![w] = "read"] /\ backlog[w] # <<>>
  /\ connfd' = [connfd EXCEPT ![w] = Head(backlog[w])]
  /\ accepted' = accepted \union {Head(backlog[w])}
  /\ backlog' = [backlog EXCEPT ![w] = Tail(@)]
  /\ UNCHANGED <<counted, answered, classed, countVars, class, after, sem, created, hpc>>
Finishes(w) ==
  /\ pc' = [pc EXCEPT ![w] = "idle"] /\ connfd' = [connfd EXCEPT ![w] = Nil]
  /\ \/ pc[w] = "end" /\ answered' = answered \union {connfd[w]}
     \/ pc[w] = "stop" /\ answered' = answered
  /\ class' \in {class, [class EXCEPT ![w] = 0]} /\ after' \in {after, [after EXCEPT ![w] = "end"]}
  /\ UNCHANGED <<accepted, counted, classed, backlog, countVars, sem, created, hpc>>

\* write_code loads a counter, value, into its register; stores it.
Access(w, from, to, value) ==
  /\ pc[w] = from /\ pc' = [pc EXCEPT ![w] = to] /\ reg' = [reg EXCEPT ![w] = value]
  /\ UNCHANGED <<accepted, connfd, answered, backlog, class, after, sem, created, hpc>>
Loads(w) ==
  /\ \/ Access(w, "load_requests", "store_requests", requests)
     \/ Access(w, "load_code", "store_code", codes[class[w]])
  /\ UNCHANGED <<requests, codes, counted, classed>>
StoresRequests(w) ==
  /\ Access(w, "store_requests", "load_code", 0)
  /\ requests' = reg[w] + 1 /\ counted' = counted \union {connfd[w]}
  /\ UNCHANGED <<codes, classed>>
StoresCode(w) ==
  /\ Access(w, "store_code", "post", 0)
  /\ codes' = [codes EXCEPT ![class[w]] = reg[w] + 1] /\ classed' = classed \union {connfd[w]}
  /\ UNCHANGED <<requests, counted>>
Counting(w) == Loads(w) \/ StoresRequests(w) \/ StoresCode(w)

Ends(S) == S \subseteq {w \in Workers : Alive(w)} /\ Exits(S) /\ HMoves

\* Every step is one of these.
LEMMA NextCases ==
  ASSUME Types, HasClass, [Next]_vars
  PROVE  /\ UNCHANGED <<up, semWorks>> /\ (mpc' = "fork" => mpc = "fork" /\ hpc' = hpc)
         /\ \/ Still \/ HOpens \/ HTakes \/ HGives
            \/ \E S \in SUBSET Workers : Ends(S)
            \/ \E w \in Workers :
                 \/ Opens(w) \/ Accepts(w) \/ Counting(w) \/ Finishes(w)
                 \/ \E c \in Conns : Joins(w, c)
                 \/ \E p \in PcStates : Moves(w, p) \/ Takes(w, p) \/ Gives(w, p)
<1> USE DEF connVars, countVars, threadVars, poolVars, handlerRest
<1> DEFINE Kept == UNCHANGED <<up, semWorks>> /\ (mpc' = "fork" => mpc = "fork" /\ hpc' = hpc)
<1>1. CASE UNCHANGED vars
  BY <1>1 DEF vars, Types, Still, HMoves
<1>2. CASE ForkHandler \/ MainEnds \/ Siguser1
  BY <1>2 DEF ForkHandler, MainEnds, Siguser1, Types, Still, HMoves, HpcStates, HHolding,
              HCritical
<1>3. CASE HandlerExits
  <2>1. hpc \notin {"none", "hdead", "hcrashed"} /\ hpc' = HandlerExited
        /\ Kept /\ UNCHANGED <<connVars, countVars, pc, class, after, sem, created>>
    BY <1>3 DEF HandlerExits, Types
  <2>2. HMoves
    BY <2>1 DEF HMoves, HandlerExited, HpcStates, HHolding, HCritical, Types
  <2> QED BY <2>1, <2>2 DEF Still
<1>4. CASE HandlerWaitUser1 \/ HandlerRead \/ HandlerFaults
  <2>1. Kept /\ UNCHANGED <<connVars, countVars, pc, class, after, sem, created>>
    BY <1>4 DEF HandlerWaitUser1, HandlerRead, HandlerFaults, Types
  <2>2. HMoves
    BY <1>4 DEF HandlerWaitUser1, HandlerRead, HandlerFaults, HMoves, HpcStates, HHolding,
                HCritical
  <2> QED BY <2>1, <2>2 DEF Still
<1>5. CASE HandlerOpen
  BY <1>5 DEF HandlerOpen, SemOpen, HOpens, Types
<1>6. CASE HandlerWaitShm
  BY <1>6 DEF HandlerWaitShm, HTakes, Types, Copy!Wait
<1>7. CASE HandlerPost
  BY <1>7 DEF HandlerPost, HGives, Types, Copy!Post
<1>8. ASSUME NEW S \in SUBSET Workers, S \subseteq {w \in Workers : Alive(w)}, Exits(S),
             HMoves, mpc' = "fork" => mpc = "fork" /\ hpc' = hpc
      PROVE  Kept /\ Ends(S)
  BY <1>8 DEF Ends, Exits
<1>9. CASE CtrlC
  <2>1. HMoves /\ mpc' # "fork"
    BY <1>9 DEF CtrlC, HMoves, HandlerExited, HpcStates, HHolding, HCritical, Types
  <2>2. Exits({w \in Workers : Alive(w)})
    BY <1>9 DEF CtrlC
  <2> QED BY <2>1, <2>2, <1>8
<1>10. ASSUME NEW w \in Workers, Dies(w) PROVE Kept /\ Ends({w})
  <2>1. HMoves /\ Alive(w) /\ Exits({w}) /\ (mpc' = "fork" => mpc = "fork" /\ hpc' = hpc)
    BY <1>10 DEF Dies, HMoves, Types
  <2> QED BY <2>1, <1>8
<1>11. ASSUME NEW w \in Workers, NEW c \in Conns, Connect(w, c)
       PROVE  Kept /\ Joins(w, c)
  BY <1>11 DEF Connect, Joins
<1>12. ASSUME NEW w \in Workers, Accept(w) PROVE Kept /\ Accepts(w)
  BY <1>12 DEF Accept, Accepts, Copy!Begin, Copy!Busy, Copy!shmVars, Copy!localVars
<1>13. ASSUME NEW w \in Workers, Open(w) PROVE Kept /\ Opens(w)
  BY <1>13 DEF Open, Opens
<1>14. ASSUME NEW w \in Workers, DoCallEnd(w) \/ StopEnds(w) PROVE Kept /\ Finishes(w)
  BY <1>14 DEF DoCallEnd, StopEnds, Finishes, Copy!Finish, Copy!shmVars
<1>15. ASSUME NEW w \in Workers, Fork(w) \/ Listen(w)
       PROVE  Kept /\ \E p \in PcStates : Moves(w, p)
  <2>1. /\ Kept /\ UNCHANGED <<class, after>>
        /\ \/ pc[w] = "none" /\ pc' = [pc EXCEPT ![w] = "start"]
           \/ pc[w] = "start" /\ pc' = [pc EXCEPT ![w] = "open"]
        /\ UNCHANGED <<connVars, countVars, hpc, sem, created>>
    BY <1>15 DEF Fork, Listen
  <2>2. Moves(w, "start") \/ Moves(w, "open")
    BY <2>1 DEF Types, Moves, Goes, Outside, Coded, Holding, Critical
  <2> QED BY <2>1, <2>2 DEF PcStates, Outside
<1>16. ASSUME NEW w \in Workers, NEW where, NEW code, NEW next,
              Copy!Goto(w, where, code, next), UNCHANGED poolVars,
              next \in {"end", "body", "bash"}, pc[w] \in {"read", "dispatch", "send"},
              \/ where = "send" /\ code \in {200, 400, 403, 404, 405, 500, 505}
              \/ where \in {"dispatch", "stop"} /\ code = 0
       PROVE  Kept /\ \E p \in PcStates : Moves(w, p)
  <2>1. Copy!ClassOf(code) \in Class \union {0}
        /\ (where = "send" => Copy!ClassOf(code) \in Class)
    BY <1>16 DEF Copy!ClassOf, Class, Copy!Class
  <2> HIDE DEF Class
  <2>2. Kept /\ UNCHANGED <<connVars, countVars, hpc, sem, created>>
    BY <1>16 DEF Copy!Goto, Copy!connVars, Copy!shmVars
  <2>3. /\ pc' = [pc EXCEPT ![w] = where]
        /\ class' = [class EXCEPT ![w] = Copy!ClassOf(code)]
        /\ after' = [after EXCEPT ![w] = next]
    BY <1>16 DEF Copy!Goto
  <2>4. /\ class' \in [Workers -> Class \union {0}]
        /\ after' \in [Workers -> {"end", "body", "bash"}]
        /\ \A v \in Workers : v # w => class'[v] = class[v]
        /\ (where \in Coded => class'[w] \in Class)
    BY <1>16, <2>1, <2>3 DEF Types, Coded
  <2>5. /\ pc[w] \in Early /\ where \in Early
        /\ pc[w] \notin Holding /\ where \notin Holding /\ where \in PcStates
        /\ pc[w] # "crashed" /\ where # "crashed"
        /\ where \notin {"store_requests", "store_code"}
    BY <1>16 DEF Early, Holding, Critical, PcStates, Serving
  <2>6. pc[w] \notin {"none", "start", "open", "dead"}
    BY <1>16
  <2> HIDE DEF Kept
  <2>7. Goes(w, where)
    BY <2>2, <2>3, <2>4, <2>5, <2>6 DEF Goes
  <2>8. Moves(w, where)
    BY <2>2, <2>5, <2>7 DEF Moves
  <2> QED BY <2>2, <2>5, <2>8
<1>17. ASSUME NEW w \in Workers,
              \/ ReadRequestLine(w) \/ RefuseMethod(w) \/ RefuseVersion(w)
              \/ LsVersionTwo(w) \/ ReqParser(w) \/ HandleBash(w) \/ Epipe(w)
       PROVE  Kept /\ \E p \in PcStates : Moves(w, p)
  <2> HIDE DEF Kept
  <2> QED BY <1>16, <1>17 DEF ReadRequestLine, RefuseMethod, RefuseVersion, LsVersionTwo,
            ReqParser, HandleBash, Epipe, Copy!ReadRequestLine, Copy!RefuseMethod, Copy!RefuseVersion,
            Copy!LsVersionTwo, Copy!ReqParser, Copy!Response, Copy!Stream
<1>18. ASSUME NEW w \in Workers, Statistics(w)
       PROVE  Kept /\ \E p \in PcStates : Moves(w, p) \/ Takes(w, p) \/ Gives(w, p)
  <2>1. CASE Copy!Statistics(w)
    <3>1. Kept /\ Moves(w, "stat_wait")
      BY <1>18, <2>1 DEF Statistics, Copy!Statistics, Types, Moves, Goes, Early, Coded,
           Holding, Critical, Copy!connVars, Copy!shmVars, Copy!localVars
    <3> QED BY <3>1 DEF PcStates, Serving, Early
  <2>2. CASE Copy!StatisticsWait(w)
    <3>1. Kept /\ Takes(w, "stat_read")
      BY <1>18, <2>2 DEF Statistics, Copy!StatisticsWait, Copy!Wait, Types, Takes, Goes, Early,
           Coded, Holding, Critical, Copy!connVars, Copy!localVars
    <3> QED BY <3>1 DEF PcStates, Serving, Early
  <2>3. CASE Copy!StatisticsRead(w)
    <3>1. Kept /\ Gives(w, "send")
      <4>1. Copy!ClassOf(200) \in Class
        BY DEF Copy!ClassOf, Class, Copy!Class
      <4> HIDE DEF Class
      <4> QED BY <1>18, <2>3, <4>1 DEF Statistics, Copy!StatisticsRead, Copy!Post, Types, Gives,
             Goes, Early, Coded, Holding, Critical, Copy!connVars
    <3> QED BY <3>1 DEF PcStates, Serving, Early
  <2> QED BY <1>18, <2>1, <2>2, <2>3 DEF Statistics
<1>19. ASSUME NEW w \in Workers, Send(w) PROVE Kept /\ \E p \in PcStates : Moves(w, p)
  <2>1. Kept /\ Moves(w, IF pc[w] = "body" THEN "end" ELSE "wait")
    <3>1. /\ Kept /\ UNCHANGED <<connVars, countVars, class, after, hpc, sem, created>>
          /\ pc[w] \in {"send", "body"}
          /\ pc' = [pc EXCEPT ![w] = IF pc[w] = "body" THEN "end" ELSE "wait"]
      BY <1>19 DEF Send, Copy!Send, Copy!connVars, Copy!shmVars
    <3> HIDE DEF Kept
    <3>2. CASE pc[w] = "body"
      <4>1. Moves(w, "end")
        BY <3>1, <3>2 DEF Types, Moves, Goes, Finished, Coded, Holding, Critical
      <4> QED BY <3>1, <3>2, <4>1
    <3>3. CASE pc[w] = "send"
      <4>1. Moves(w, "wait")
        BY <3>1, <3>3 DEF Types, Moves, Goes, HasClass, Early, Coded, Holding, Critical
      <4> QED BY <3>1, <3>3, <4>1
    <3> QED BY <3>1, <3>2, <3>3
  <2> QED BY <2>1 DEF PcStates, Serving, Early, Finished
<1>31. ASSUME NEW w \in Workers, BashEnds(w) PROVE Kept /\ \E p \in PcStates : Moves(w, p)
  <2>1. Kept /\ Moves(w, "end")
    BY <1>31 DEF BashEnds, Types, Moves, Goes, Finished, Coded, Holding, Critical
  <2> QED BY <2>1 DEF PcStates, Serving, Finished
<1>20. ASSUME NEW w \in Workers, SemPost(w) PROVE Kept /\ \E p \in PcStates : Gives(w, p)
  <2>1. Kept /\ Gives(w, after[w])
    <3>1. after[w] \in {"end", "body", "bash"}
      BY DEF Types
    <3> QED BY <1>20, <3>1 DEF SemPost, Copy!Post, Types, Gives, Goes, Finished, Coded, Holding,
                Critical
  <2>2. after[w] \in PcStates
    BY DEF Types, PcStates, Serving, Finished
  <2> QED BY <2>1, <2>2
<1>21. ASSUME NEW w \in Workers, Copy!WriteCodeWait(w), UNCHANGED poolVars
       PROVE  Kept /\ \E p \in PcStates : Takes(w, p)
  <2>1. Kept /\ Takes(w, "load_requests")
    BY <1>21 DEF Copy!WriteCodeWait, Copy!Wait, Types, HasClass, Takes, Goes, Early, Coded,
         Holding, Critical, Copy!connVars, Copy!localVars
  <2> QED BY <2>1 DEF PcStates, Serving, Early
<1>22. ASSUME NEW w \in Workers, UNCHANGED poolVars,
              Copy!LoadRequests(w) \/ Copy!StoreRequests(w) \/ Copy!LoadCode(w)
       PROVE  Kept /\ Counting(w)
  BY <1>22 DEF Counting, Loads, StoresRequests, Access, Copy!LoadRequests, Copy!StoreRequests,
               Copy!LoadCode, Copy!shmVars, Copy!connVars
<1>23. ASSUME NEW w \in Workers, StoreCode(w) PROVE Kept /\ Counting(w)
  BY <1>23 DEF Counting, StoresCode, Access, StoreCode
<1> HIDE DEF Kept
<1>24. ASSUME NEW w \in Workers, WriteCode(w)
       PROVE  Kept /\ (Counting(w) \/ \E p \in PcStates : Takes(w, p) \/ Gives(w, p))
  BY <1>20, <1>21, <1>22, <1>23, <1>24 DEF WriteCode
<1>25. ASSUME NEW w \in Workers, Faults(w) PROVE Kept /\ Ends({w})
  BY <1>10, <1>25 DEF Faults
<1>26. ASSUME NEW w \in Workers, DoCall(w)
       PROVE  /\ Kept
              /\ \/ Ends({w}) \/ Counting(w) \/ Finishes(w)
                 \/ \E p \in PcStates : Moves(w, p) \/ Takes(w, p) \/ Gives(w, p)
  <2>1. CASE \/ ReadRequestLine(w) \/ RefuseMethod(w) \/ RefuseVersion(w)
             \/ LsVersionTwo(w) \/ ReqParser(w) \/ HandleBash(w) \/ Epipe(w)
    BY <1>17, <2>1
  <2>2. CASE Statistics(w) \/ Send(w) \/ WriteCode(w) \/ BashEnds(w)
    BY <1>18, <1>19, <1>24, <1>31, <2>2
  <2>3. CASE Faults(w) \/ DoCallEnd(w) \/ StopEnds(w)
    BY <1>14, <1>25, <2>3
  <2> QED BY <1>26, <2>1, <2>2, <2>3 DEF DoCall
<1>27. ASSUME NEW w \in Workers, Fork(w) \/ Listen(w) \/ Open(w) \/ Accept(w) \/ Dies(w)
       PROVE  /\ Kept
              /\ \/ Ends({w}) \/ Opens(w) \/ Accepts(w)
                 \/ \E p \in PcStates : Moves(w, p)
  BY <1>10, <1>12, <1>13, <1>15, <1>27
<1>28. CASE HandlerOpen \/ HandlerWaitUser1 \/ HandlerWaitShm \/ HandlerRead \/ HandlerFaults
            \/ HandlerPost \/ HandlerExits \/ ForkHandler \/ MainEnds \/ Siguser1
            \/ UNCHANGED vars
  BY <1>1, <1>2, <1>3, <1>4, <1>5, <1>6, <1>7, <1>28 DEF Kept
<1>29. CASE CtrlC
  BY <1>9, <1>29 DEF Kept
<1>30. CASE \E w \in Workers : \/ Fork(w) \/ Server(w) \/ Dies(w)
                              \/ \E c \in Conns : Connect(w, c)
  BY <1>11, <1>26, <1>27, <1>30 DEF Server, Kept
<1> QED BY <1>28, <1>29, <1>30 DEF Next, Handler

-----------------------------------------------------------------------------
\* Who has the semaphore has it alone, and while it is free nobody has it.
LEMMA Holder ==
  ASSUME Types, Opened, Exclusive
  PROVE  /\ \A w \in Workers : pc[w] \in Holding =>
              /\ created /\ sem = 0 /\ hpc \notin HHolding
              /\ \A v \in Workers : pc[v] \in Holding => v = w
         /\ hpc \in HHolding => created /\ sem = 0 /\ \A v \in Workers : pc[v] \notin Holding
         /\ sem > 0 => created /\ hpc \notin HHolding /\ \A v \in Workers : pc[v] \notin Holding
<1>1. \A w \in Workers : pc[w] \in Holding => created
  BY DEF Opened, Holding, Critical
<1>2. hpc \in HHolding => created
  BY DEF Opened, HHolding, HCritical
<1> HIDE DEF Holding, HHolding
<1> QED BY <1>1, <1>2 DEF Exclusive, Taken, Types

\* Those that end leave nothing but the semaphore they may hold.
LEMMA EndsEffect ==
  ASSUME Types, NEW S \in SUBSET Workers, Ends(S)
  PROVE  /\ UNCHANGED <<accepted, counted, answered, classed, requests, codes, sem, created>>
         /\ HMoves
         /\ \A w \in Workers \ S :
              /\ pc'[w] = pc[w] /\ connfd'[w] = connfd[w] /\ backlog'[w] = backlog[w]
              /\ reg'[w] = reg[w] /\ class'[w] = class[w]
         /\ \A w \in S : /\ pc[w] \in Critical => pc'[w] = "crashed"
                         /\ pc[w] \notin Critical => pc'[w] = "dead"
                         /\ connfd'[w] = Nil /\ backlog'[w] = <<>>
                         /\ pc[w] # "crashed"
<1>1. Exits(S) /\ HMoves /\ S \subseteq {w \in Workers : Alive(w)}
  BY DEF Ends
<1>2. UNCHANGED <<accepted, counted, answered, classed, requests, codes, sem, created>>
  BY <1>1 DEF Exits
<1> HIDE DEF Critical
<1>3. \A w \in Workers :
        /\ pc'[w] = IF w \notin S THEN pc[w] ELSE IF pc[w] \in Critical THEN "crashed" ELSE "dead"
        /\ connfd'[w] = IF w \in S THEN Nil ELSE connfd[w]
        /\ backlog'[w] = IF w \in S THEN <<>> ELSE backlog[w]
        /\ reg'[w] = IF w \in S THEN 0 ELSE reg[w]
        /\ class'[w] = IF w \in S THEN 0 ELSE class[w]
  BY <1>1 DEF Exits
<1>4. \A w \in S : w \in Workers /\ pc[w] # "crashed"
  BY <1>1 DEF Alive
<1> QED BY <1>1, <1>2, <1>3, <1>4

\* Every step keeps the types, and the class of an answer where it is needed.
LEMMA TypesStep ==
  Types /\ HasClass /\ Opened /\ Exclusive /\ [Next]_vars => Types' /\ HasClass'
<1> SUFFICES ASSUME Types, HasClass, Opened, Exclusive, [Next]_vars PROVE Types' /\ HasClass'
  OBVIOUS
<1> USE DEF connVars, countVars
<1>0. up' = up /\ semWorks' = semWorks /\ (mpc' = "fork" => mpc = "fork" /\ hpc' = hpc)
  BY NextCases
<1>1. CASE Still
  BY <1>0, <1>1 DEF Still, HMoves, Types, HasClass
<1>2. CASE HOpens \/ HTakes
  <2>1. CASE HOpens
    BY <1>0, <2>1 DEF HOpens, SemOpen, Types, HasClass, HpcStates
  <2>2. CASE HTakes
    <3>1. sem' \in {0, 1}
      BY <2>2 DEF HTakes, Types
    <3> QED BY <1>0, <2>2, <3>1 DEF HTakes, Types, HasClass, HpcStates, HHolding, HCritical
  <2> QED BY <1>2, <2>1, <2>2
<1>3. CASE HGives
  <2>1. sem = 0
    BY <1>3, Holder DEF HGives, HHolding, HCritical
  <2> QED BY <1>0, <1>3, <2>1 DEF HGives, Types, HasClass, HpcStates
<1>4. ASSUME NEW w \in Workers, Opens(w) PROVE Types' /\ HasClass'
  BY <1>0, <1>4 DEF Opens, SemOpen, Types, HasClass, PcStates, Outside, Coded
<1>5. ASSUME NEW w \in Workers, NEW p \in PcStates, Goes(w, p), sem' \in {0, 1},
             created' = created
      PROVE  Types' /\ HasClass'
  <2>1. Types'
    BY <1>0, <1>5 DEF Goes, Types
  <2>2. HasClass'
    BY <1>5 DEF Goes, Types, HasClass
  <2> QED BY <2>1, <2>2
<1>6. ASSUME NEW w \in Workers, NEW p \in PcStates, Moves(w, p) \/ Takes(w, p)
      PROVE  Types' /\ HasClass'
  BY <1>5, <1>6 DEF Moves, Takes, Types
<1>7. ASSUME NEW w \in Workers, NEW p \in PcStates, Gives(w, p) PROVE Types' /\ HasClass'
  <2>1. sem = 0
    BY <1>7, Holder DEF Gives
  <2> QED BY <1>5, <1>7, <2>1 DEF Gives
<1>8. ASSUME NEW w \in Workers, Accepts(w) PROVE Types' /\ HasClass'
  <2>1. Head(backlog[w]) \in Conns /\ Tail(backlog[w]) \in Seq(Conns)
    BY <1>8, HeadTailProperties DEF Accepts, Types
  <2> QED BY <1>0, <1>8, <2>1 DEF Accepts, Types, HasClass, PcStates, Serving, Early, Coded
<1>9. ASSUME NEW w \in Workers, Finishes(w) PROVE Types' /\ HasClass'
  BY <1>0, <1>9 DEF Finishes, Types, HasClass, PcStates, Outside, Coded
<1>10. ASSUME NEW w \in Workers, NEW c \in Conns, Joins(w, c) PROVE Types' /\ HasClass'
  <2>1. Append(backlog[w], c) \in Seq(Conns)
    BY AppendProperties DEF Types
  <2> QED BY <1>0, <1>10, <2>1 DEF Joins, Types, HasClass
<1>11. ASSUME NEW w \in Workers, Counting(w) PROVE Types' /\ HasClass'
  <2>1. ASSUME NEW from, NEW to \in PcStates, NEW value \in Nat, Access(w, from, to, value),
               from \in Coded, requests' \in Nat, codes' \in [Class -> Nat]
        PROVE  Types' /\ HasClass'
    <3> HIDE DEF Coded
    <3> QED BY <1>0, <2>1 DEF Access, Types, HasClass
  <2>2. {"store_requests", "store_code", "load_code", "post"} \subseteq PcStates
    BY DEF PcStates, Serving, Early, Between, Finished
  <2>3. {"load_requests", "store_requests", "load_code", "store_code"} \subseteq Coded
    BY DEF Coded
  <2>4. CASE Loads(w)
    <3>1. CASE Access(w, "load_requests", "store_requests", requests)
      BY <2>1, <2>2, <2>3, <2>4, <3>1 DEF Loads, Types
    <3>2. CASE Access(w, "load_code", "store_code", codes[class[w]])
      <4>1. codes[class[w]] \in Nat
        BY <2>3, <3>2 DEF Access, Types, HasClass
      <4> QED BY <2>1, <2>2, <2>3, <2>4, <3>2, <4>1 DEF Loads, Types
    <3> QED BY <2>4, <3>1, <3>2 DEF Loads
  <2>5. CASE StoresRequests(w)
    <3>1. requests' \in Nat /\ codes' \in [Class -> Nat]
      BY <2>5 DEF StoresRequests, Types
    <3> QED BY <2>1, <2>2, <2>3, <2>5, <3>1 DEF StoresRequests
  <2>6. CASE StoresCode(w)
    <3>1. requests' \in Nat /\ codes' \in [Class -> Nat]
      <4>1. reg[w] + 1 \in Nat /\ codes \in [Class -> Nat]
        BY DEF Types
      <4> HIDE DEF Class
      <4> QED BY <2>6, <4>1 DEF StoresCode, Types
    <3> QED BY <2>1, <2>2, <2>3, <2>6, <3>1 DEF StoresCode
  <2> QED BY <1>11, <2>4, <2>5, <2>6 DEF Counting
<1>12. ASSUME NEW S \in SUBSET Workers, Ends(S) PROVE Types' /\ HasClass'
  <2>1. /\ Exits(S) /\ hpc' \in HpcStates
    BY <1>12 DEF Ends, HMoves
  <2>2. pc' \in [Workers -> PcStates]
    BY <2>1 DEF Exits, Types, PcStates, Outside
  <2>3. /\ reg' \in [Workers -> Nat] /\ class' \in [Workers -> Class \union {0}]
        /\ after' \in [Workers -> {"end", "body", "bash"}]
        /\ connfd' \in [Workers -> Conns \union {Nil}]
    BY <2>1 DEF Exits, Types
  <2>4. backlog' \in [Workers -> Seq(Conns)]
    BY <2>1, EmptySeq DEF Exits, Types
  <2>5. HasClass'
    BY <2>1 DEF Exits, HasClass, Coded, Types
  <2> QED BY <1>0, <2>1, <2>2, <2>3, <2>4, <2>5 DEF Exits, Types
<1> QED BY <1>1, <1>2, <1>3, <1>4, <1>6, <1>7, <1>8, <1>9, <1>10, <1>11, <1>12, NextCases

\* Nobody gets past sem_open without a semaphore, and no semaphore goes away.
LEMMA OpenedStep ==
  Types /\ HasClass /\ Opened /\ [Next]_vars => Opened' /\ (created => created')
<1> SUFFICES ASSUME Types, HasClass, Opened, [Next]_vars PROVE Opened' /\ (created => created')
  OBVIOUS
<1> USE DEF connVars, countVars, Opened
<1>1. CASE Still \/ HOpens \/ HTakes \/ HGives
  BY <1>1 DEF Still, HMoves, HOpens, HTakes, HGives, SemOpen
<1>2. ASSUME NEW w \in Workers, Opens(w) PROVE Opened' /\ (created => created')
  BY <1>2 DEF Opens, SemOpen
<1>3. ASSUME NEW w \in Workers, NEW p, pc' = [pc EXCEPT ![w] = p], UNCHANGED <<created, hpc>>,
             p \notin {"none", "start", "open"} => pc[w] \notin {"none", "start", "open", "dead"}
      PROVE  Opened' /\ (created => created')
  BY <1>3 DEF Types
<1>4. ASSUME NEW w \in Workers, NEW p \in PcStates, Moves(w, p) \/ Takes(w, p) \/ Gives(w, p)
      PROVE  Opened' /\ (created => created')
  BY <1>3, <1>4 DEF Moves, Takes, Gives, Goes
<1>5. ASSUME NEW w \in Workers, Accepts(w) \/ Finishes(w) PROVE Opened' /\ (created => created')
  BY <1>3, <1>5 DEF Accepts, Finishes
<1>6. ASSUME NEW w \in Workers, NEW c \in Conns, Joins(w, c)
      PROVE  Opened' /\ (created => created')
  BY <1>6 DEF Joins
<1>7. ASSUME NEW w \in Workers, Counting(w) PROVE Opened' /\ (created => created')
  BY <1>3, <1>7 DEF Counting, Loads, StoresRequests, StoresCode, Access
<1>8. ASSUME NEW S \in SUBSET Workers, Ends(S) PROVE Opened' /\ (created => created')
  BY <1>8, EndsEffect DEF HMoves, Critical
<1> QED BY <1>1, <1>2, <1>4, <1>5, <1>6, <1>7, <1>8, NextCases

-----------------------------------------------------------------------------
\* A step in which nobody takes or returns the semaphore.
LEMMA ExclusiveKept ==
  ASSUME Exclusive, UNCHANGED <<sem, created>>, hpc' \in HHolding <=> hpc \in HHolding,
         \A v \in Workers : pc'[v] \in Holding <=> pc[v] \in Holding
  PROVE  Exclusive'
<1> HIDE DEF Holding, HHolding
<1> QED BY DEF Exclusive, Taken

\* The semaphore has one holder at most, and is 0 while it has one.
LEMMA ExclusiveStep ==
  Types /\ HasClass /\ Opened /\ Exclusive /\ [Next]_vars => Exclusive'
<1> SUFFICES ASSUME Types, HasClass, Opened, Exclusive, [Next]_vars PROVE Exclusive'
  OBVIOUS
<1>1. CASE Still
  BY <1>1, ExclusiveKept DEF Still, HMoves
<1>2. ASSUME SemOpen, hpc' \in HHolding <=> hpc \in HHolding,
             \A v \in Workers : pc'[v] \in Holding <=> pc[v] \in Holding
      PROVE  Exclusive'
  <2>1. ~ created => hpc \notin HHolding /\ \A v \in Workers : pc[v] \notin Holding
    BY Holder
  <2> HIDE DEF Holding, HHolding
  <2> QED BY <1>2, <2>1 DEF SemOpen, Exclusive, Taken
<1>3. CASE HOpens
  <2>1. hpc' \in HHolding <=> hpc \in HHolding
    BY <1>3 DEF HOpens, HHolding, HCritical
  <2> QED BY <1>2, <1>3, <2>1 DEF HOpens
<1>4. CASE HTakes
  <2>1. /\ created /\ sem = 1 /\ \A v \in Workers : pc[v] \notin Holding
    BY <1>4, Holder DEF HTakes, Types
  <2>2. hpc' \in HHolding /\ sem' = 0 /\ created' /\ pc' = pc
    BY <1>4, <2>1 DEF HTakes, HHolding, HCritical
  <2> HIDE DEF Holding, HHolding
  <2> QED BY <2>1, <2>2 DEF Exclusive, Taken
<1>5. CASE HGives
  <2>1. hpc \in HHolding /\ hpc' \notin HHolding /\ pc' = pc /\ created' = created
    BY <1>5 DEF HGives, HHolding, HCritical
  <2>2. /\ created /\ sem = 0 /\ \A v \in Workers : pc[v] \notin Holding
    BY <2>1, Holder
  <2>3. sem' = 1
    BY <1>5, <2>2 DEF HGives
  <2> HIDE DEF Holding, HHolding
  <2> QED BY <2>1, <2>2, <2>3 DEF Exclusive, Taken
<1>6. ASSUME NEW w \in Workers, Opens(w) PROVE Exclusive'
  <2>1. \A v \in Workers : pc'[v] \in Holding <=> pc[v] \in Holding
    BY <1>6 DEF Opens, Types, Holding, Critical
  <2> QED BY <1>2, <1>6, <2>1 DEF Opens
<1>7. ASSUME NEW w \in Workers, NEW p, pc' = [pc EXCEPT ![w] = p],
             pc[w] \in Holding <=> p \in Holding, UNCHANGED <<sem, created, hpc>>
      PROVE  Exclusive'
  <2>1. \A v \in Workers : pc'[v] \in Holding <=> pc[v] \in Holding
    BY <1>7 DEF Types
  <2> QED BY <1>7, <2>1, ExclusiveKept
<1>8. ASSUME NEW w \in Workers, NEW p \in PcStates, Moves(w, p) PROVE Exclusive'
  BY <1>7, <1>8 DEF Moves, Goes
<1>9. ASSUME NEW w \in Workers, NEW p \in PcStates, Takes(w, p) PROVE Exclusive'
  <2>1. /\ created /\ sem = 1 /\ hpc \notin HHolding /\ \A v \in Workers : pc[v] \notin Holding
    BY <1>9, Holder DEF Takes, Types
  <2>2. /\ created' /\ sem' = 0 /\ hpc' \notin HHolding
    BY <1>9, <2>1 DEF Takes, Goes
  <2>3. \A v \in Workers : pc'[v] \in Holding <=> v = w
    BY <1>9, <2>1 DEF Takes, Goes, Types
  <2> HIDE DEF Holding, HHolding
  <2> QED BY <2>2, <2>3 DEF Exclusive, Taken
<1>10. ASSUME NEW w \in Workers, NEW p \in PcStates, Gives(w, p) PROVE Exclusive'
  <2>1. /\ created /\ sem = 0 /\ hpc \notin HHolding
        /\ \A v \in Workers : pc[v] \in Holding => v = w
    BY <1>10, Holder DEF Gives
  <2>2. /\ created' /\ sem' = 1 /\ hpc' \notin HHolding
    BY <1>10, <2>1 DEF Gives, Goes
  <2>3. \A v \in Workers : pc'[v] \notin Holding
    BY <1>10, <2>1 DEF Gives, Goes, Types
  <2> HIDE DEF Holding, HHolding
  <2> QED BY <2>2, <2>3 DEF Exclusive, Taken
<1>11. ASSUME NEW w \in Workers, Accepts(w) \/ Finishes(w) PROVE Exclusive'
  <2>1. pc[w] \notin Holding /\ "read" \notin Holding /\ "idle" \notin Holding
    BY <1>11 DEF Accepts, Finishes, Holding, Critical
  <2> QED BY <1>7, <1>11, <2>1 DEF Accepts, Finishes
<1>12. ASSUME NEW w \in Workers, NEW c \in Conns, Joins(w, c) PROVE Exclusive'
  BY <1>12, ExclusiveKept DEF Joins
<1>13. ASSUME NEW w \in Workers, Counting(w) PROVE Exclusive'
  <2>1. /\ pc[w] \in Holding /\ UNCHANGED <<sem, created, hpc>>
        /\ \E p \in Holding : pc' = [pc EXCEPT ![w] = p]
    BY <1>13 DEF Counting, Loads, StoresRequests, StoresCode, Access, Holding, Critical
  <2> QED BY <1>7, <2>1
<1>14. ASSUME NEW S \in SUBSET Workers, Ends(S) PROVE Exclusive'
  <2>1. \A v \in Workers : pc'[v] \in Holding <=> pc[v] \in Holding
    BY <1>14, EndsEffect DEF Holding, Critical
  <2> QED BY <1>14, <2>1, EndsEffect, ExclusiveKept DEF HMoves
<1> QED BY <1>1, <1>3, <1>4, <1>5, <1>6, <1>8, <1>9, <1>10, <1>11, <1>12, <1>13, <1>14,
           NextCases

-----------------------------------------------------------------------------
\* Backlogs stay without repetitions and without accepted clients.
LEMMA QueuedStep == Types /\ HasClass /\ Queued /\ [Next]_vars => Queued'
<1> SUFFICES ASSUME Types, HasClass, Queued, [Next]_vars PROVE Queued'
  OBVIOUS
<1>1. ASSUME UNCHANGED <<accepted, backlog>> PROVE Queued'
  BY <1>1 DEF Queued
<1>2. ASSUME NEW w \in Workers, Accepts(w) PROVE Queued'
  <2> DEFINE b == backlog[w]
  <2>1. /\ b \in Seq(Conns) /\ b # <<>> /\ Len(b) \in Nat /\ Len(b) >= 1
        /\ Head(b) = b[1] /\ Len(Tail(b)) = Len(b) - 1
        /\ \A i \in 1..Len(Tail(b)) : Tail(b)[i] = b[i + 1]
    BY <1>2, HeadTailProperties, EmptySeq DEF Accepts, Types
  <2>2. /\ backlog'[w] = Tail(b) /\ accepted' = accepted \union {b[1]}
        /\ \A v \in Workers : v # w => backlog'[v] = backlog[v]
    BY <1>2, <2>1 DEF Accepts, Types
  <2>3. \A i \in 1..Len(Tail(b)) : i + 1 \in 1..Len(b) /\ i + 1 # 1 /\ 1 \in 1..Len(b)
    BY <2>1
  <2>4. 1 \in 1..Len(b)
    BY <2>1
  <2> HIDE DEF b
  <2> DEFINE Old(v, i) == IF v = w THEN i + 1 ELSE i
  <2>5. \A v \in Workers : \A i \in 1..Len(backlog'[v]) :
          /\ Old(v, i) \in 1..Len(backlog[v]) /\ backlog'[v][i] = backlog[v][Old(v, i)]
          /\ i \in Int /\ (v = w => Old(v, i) # 1)
    <3> SUFFICES ASSUME NEW v \in Workers, NEW i \in 1..Len(backlog'[v])
                 PROVE  /\ Old(v, i) \in 1..Len(backlog[v])
                        /\ backlog'[v][i] = backlog[v][Old(v, i)]
                        /\ i \in Int /\ (v = w => Old(v, i) # 1)
      OBVIOUS
    <3>1. CASE v = w
      <4>1. i \in 1..Len(Tail(b)) /\ backlog'[v][i] = Tail(b)[i] /\ backlog[v] = b
        BY <2>2, <3>1 DEF b
      <4> QED BY <2>1, <2>3, <3>1, <4>1
    <3>2. CASE v # w
      <4>1. backlog'[v] = backlog[v]
        BY <2>2, <3>2
      <4> QED BY <3>2, <4>1
    <3> QED BY <3>1, <3>2
  <2>6. \A v \in Workers : \A i \in 1..Len(backlog'[v]) : backlog'[v][i] \notin accepted'
    <3> SUFFICES ASSUME NEW v \in Workers, NEW i \in 1..Len(backlog'[v])
                 PROVE  backlog'[v][i] \notin accepted'
      OBVIOUS
    <3>1. /\ Old(v, i) \in 1..Len(backlog[v]) /\ backlog'[v][i] = backlog[v][Old(v, i)]
          /\ v = w => Old(v, i) # 1
      BY <2>5
    <3> HIDE DEF Old
    <3>2. backlog[v][Old(v, i)] \notin accepted
      BY <3>1 DEF Queued
    <3>3. backlog[v][Old(v, i)] = b[1] => v = w /\ Old(v, i) = 1
      BY <2>4, <3>1 DEF Queued, b
    <3> QED BY <2>2, <3>1, <3>2, <3>3
  <2>7. \A u, v \in Workers : \A i \in 1..Len(backlog'[u]), j \in 1..Len(backlog'[v]) :
          backlog'[u][i] = backlog'[v][j] => u = v /\ i = j
    <3> SUFFICES ASSUME NEW u \in Workers, NEW v \in Workers, NEW i \in 1..Len(backlog'[u]),
                        NEW j \in 1..Len(backlog'[v]), backlog'[u][i] = backlog'[v][j]
                 PROVE  u = v /\ i = j
      OBVIOUS
    <3>1. /\ Old(u, i) \in 1..Len(backlog[u]) /\ backlog'[u][i] = backlog[u][Old(u, i)]
          /\ Old(v, j) \in 1..Len(backlog[v]) /\ backlog'[v][j] = backlog[v][Old(v, j)]
          /\ i \in Int /\ j \in Int
      BY <2>5
    <3> HIDE DEF Old
    <3>2. \A k \in 1..Len(backlog[u]), l \in 1..Len(backlog[v]) :
            backlog[u][k] = backlog[v][l] => u = v /\ k = l
      BY DEF Queued
    <3>3. u = v /\ Old(u, i) = Old(v, j)
      BY <3>1, <3>2
    <3> QED BY <3>1, <3>3 DEF Old
  <2> QED BY <2>6, <2>7 DEF Queued
<1>3. ASSUME NEW w \in Workers, NEW c \in Conns, Joins(w, c) PROVE Queued'
  <2> DEFINE b == backlog[w]
  <2>1. /\ b \in Seq(Conns) /\ Len(b) \in Nat /\ Len(Append(b, c)) = Len(b) + 1
        /\ Append(b, c)[Len(b) + 1] = c
        /\ \A i \in 1..Len(b) : Append(b, c)[i] = b[i]
    BY AppendProperties DEF Types
  <2>2. /\ c \notin accepted /\ accepted' = accepted
        /\ \A v \in Workers : \A n \in 1..Len(backlog[v]) : backlog[v][n] # c
        /\ backlog'[w] = Append(b, c)
        /\ \A v \in Workers : v # w => backlog'[v] = backlog[v]
    BY <1>3 DEF Joins, Types
  <2>3. \A i \in 1..Len(b) + 1 : i \in 1..Len(b) \/ i = Len(b) + 1
    BY <2>1
  <2> HIDE DEF b
  <2>4. \A v \in Workers : \A i \in 1..Len(backlog'[v]) :
          \/ i \in 1..Len(backlog[v]) /\ backlog'[v][i] = backlog[v][i]
          \/ v = w /\ i = Len(b) + 1 /\ backlog'[v][i] = c
    BY <2>1, <2>2, <2>3 DEF b
  <2>5. \A v \in Workers : \A i \in 1..Len(backlog'[v]) : backlog'[v][i] \notin accepted'
    BY <2>2, <2>4 DEF Queued
  <2>6. \A u, v \in Workers : \A i \in 1..Len(backlog'[u]), j \in 1..Len(backlog'[v]) :
          backlog'[u][i] = backlog'[v][j] => u = v /\ i = j
    BY <2>2, <2>4 DEF Queued
  <2> QED BY <2>5, <2>6 DEF Queued
<1>4. ASSUME NEW S \in SUBSET Workers, Ends(S) PROVE Queued'
  <2>1. /\ accepted' = accepted
        /\ \A w \in Workers : \A i \in 1..Len(backlog'[w]) :
             i \in 1..Len(backlog[w]) /\ backlog'[w][i] = backlog[w][i]
    <3>1. accepted' = accepted
      BY <1>4, EndsEffect
    <3> SUFFICES ASSUME NEW w \in Workers, NEW i \in 1..Len(backlog'[w])
                 PROVE  i \in 1..Len(backlog[w]) /\ backlog'[w][i] = backlog[w][i]
      BY <3>1
    <3>2. w \notin S
      <4>1. w \in S => Len(backlog'[w]) = 0
        BY <1>4, EndsEffect, EmptySeq
      <4> QED BY <4>1
    <3>3. backlog'[w] = backlog[w]
      BY <1>4, <3>2, EndsEffect
    <3> QED BY <3>3
  <2> QED BY <2>1 DEF Queued
<1>5. Still \/ HOpens \/ HTakes \/ HGives => UNCHANGED <<accepted, backlog>>
  BY DEF Still, HOpens, HTakes, HGives, connVars
<1>6. \A w \in Workers : Opens(w) \/ Finishes(w) \/ Counting(w) => UNCHANGED <<accepted, backlog>>
  BY DEF Opens, Finishes, Counting, Loads, StoresRequests, StoresCode, Access, connVars
<1>7. \A w \in Workers, p \in PcStates : Moves(w, p) \/ Takes(w, p) \/ Gives(w, p)
        => UNCHANGED <<accepted, backlog>>
  BY DEF Moves, Takes, Gives, Goes, connVars
<1> QED BY <1>1, <1>2, <1>3, <1>4, <1>5, <1>6, <1>7, NextCases

-----------------------------------------------------------------------------
\* A step in which every worker stays in its group of places.
LEMMA OwnedKept ==
  ASSUME Owned, UNCHANGED <<accepted, connfd, counted, answered, classed>>,
         \A v \in Workers : /\ pc'[v] \in Early <=> pc[v] \in Early
                            /\ pc'[v] \in Between <=> pc[v] \in Between
                            /\ pc'[v] \in Finished <=> pc[v] \in Finished
                            /\ pc'[v] \in Outside <=> pc[v] \in Outside
  PROVE  Owned'
<1> HIDE DEF Early, Between, Finished, Outside
<1> QED BY DEF Owned, Serving

LEMMA OwnedMove ==
  ASSUME Types, Owned, UNCHANGED <<accepted, connfd, counted, answered, classed>>,
         NEW w \in Workers, NEW p, pc' = [pc EXCEPT ![w] = p],
         \/ pc[w] \in Early /\ p \in Early
         \/ pc[w] \in Between /\ p \in Between
         \/ pc[w] \in Finished /\ p \in Finished
         \/ pc[w] \in Outside /\ p \in Outside
  PROVE  Owned'
<1>1. \A v \in Workers : pc'[v] = IF v = w THEN p ELSE pc[v]
  BY DEF Types
<1>2. /\ p \in Early <=> pc[w] \in Early
      /\ p \in Between <=> pc[w] \in Between
      /\ p \in Finished <=> pc[w] \in Finished
      /\ p \in Outside <=> pc[w] \in Outside
  BY DEF Early, Between, Finished, Outside
<1> QED BY <1>1, <1>2, OwnedKept

\* A worker is in one group, and its place says whether it has a connection.
LEMMA Groups ==
  ASSUME Types, Owned, NEW w \in Workers
  PROVE  /\ pc[w] \in Serving <=> pc[w] \notin Outside
         /\ pc[w] \in Serving => connfd[w] \in Conns
         /\ pc[w] \in Early => pc[w] \notin Between \union Finished
         /\ pc[w] \in Between => pc[w] \notin Finished
<1>1. pc[w] \in Serving \union Outside
  BY DEF Types, PcStates
<1>2. pc[w] \in Serving => connfd[w] \in Conns
  BY DEF Types, Owned
<1> QED BY <1>1, <1>2 DEF Serving, Early, Between, Finished, Outside

\* A connection stays with one worker, and is counted by it in order.
LEMMA OwnedStep == Types /\ HasClass /\ Queued /\ Owned /\ [Next]_vars => Owned'
<1> SUFFICES ASSUME Types, HasClass, Queued, Owned, [Next]_vars PROVE Owned'
  OBVIOUS
<1>1. CASE Still \/ HOpens \/ HTakes \/ HGives
  BY <1>1, OwnedKept DEF Still, HOpens, HTakes, HGives, connVars
<1>2. ASSUME NEW w \in Workers, Opens(w) PROVE Owned'
  BY <1>2, OwnedMove DEF Opens, connVars, Outside
<1>3. ASSUME NEW w \in Workers, NEW p \in PcStates, Moves(w, p) \/ Takes(w, p) \/ Gives(w, p)
      PROVE  Owned'
  <2>1. Goes(w, p)
    BY <1>3 DEF Moves, Takes, Gives
  <2> QED BY <2>1, OwnedMove DEF Goes, connVars
<1>4. ASSUME NEW w \in Workers, NEW c \in Conns, Joins(w, c) PROVE Owned'
  BY <1>4, OwnedKept DEF Joins
<1>5. ASSUME NEW w \in Workers, Loads(w) PROVE Owned'
  BY <1>5, OwnedMove DEF Loads, Access, Early, Between
<1>6. ASSUME NEW w \in Workers, Accepts(w) PROVE Owned'
  <2> DEFINE c == Head(backlog[w])
  <2>1. c \in Conns /\ c \notin accepted
    <3>1. /\ backlog[w] \in Seq(Conns) /\ backlog[w] # <<>>
      BY <1>6 DEF Accepts, Types
    <3>2. c = backlog[w][1] /\ 1 \in 1..Len(backlog[w]) /\ c \in Conns
      BY <3>1, HeadTailProperties, EmptySeq
    <3> QED BY <3>2 DEF Queued
  <2>2. /\ accepted' = accepted \union {c} /\ UNCHANGED <<counted, answered, classed>>
        /\ pc[w] = "idle"
        /\ \A v \in Workers : /\ pc'[v] = IF v = w THEN "read" ELSE pc[v]
                              /\ connfd'[v] = IF v = w THEN c ELSE connfd[v]
    <3>1. /\ accepted' = accepted \union {c} /\ UNCHANGED <<counted, answered, classed>>
          /\ pc[w] = "idle" /\ pc' = [pc EXCEPT ![w] = "read"]
          /\ connfd' = [connfd EXCEPT ![w] = c]
      BY <1>6 DEF Accepts
    <3> HIDE DEF c
    <3> QED BY <3>1 DEF Types
  <2>3. c \notin counted /\ c \notin answered /\ c \notin classed
    BY <2>1 DEF Owned
  <2>4. \A v \in Workers : connfd[v] # c
    <3>1. \A v \in Workers : connfd[v] \in accepted \/ connfd[v] = Nil
      BY Groups DEF Owned
    <3> QED BY <2>1, <3>1, PreforkAssumption
  <2>5. /\ "read" \in Early /\ "read" \in Serving
        /\ "read" \notin Between /\ "read" \notin Finished /\ "read" \notin Outside
    BY DEF Early, Between, Finished, Outside, Serving
  <2> HIDE DEF c, Early, Between, Finished, Outside, Serving
  <2>6. \A u, v \in Workers : pc'[u] \in Serving /\ connfd'[u] = connfd'[v] => u = v
    BY <2>2, <2>4 DEF Owned
  <2>7. answered' \subseteq classed' /\ classed' \subseteq counted' /\ counted' \subseteq accepted'
    BY <2>2 DEF Owned
  <2>8. \A v \in Workers :
          /\ pc'[v] \in Serving => connfd'[v] \in accepted'
          /\ pc'[v] \in Outside => connfd'[v] = Nil
          /\ connfd'[v] \notin answered'
          /\ pc'[v] \in Early => connfd'[v] \notin counted'
          /\ pc'[v] \in Between => connfd'[v] \in counted' \ classed'
          /\ pc'[v] \in Finished => connfd'[v] \in classed'
    BY <2>2, <2>3, <2>5 DEF Owned
  <2> QED BY <2>6, <2>7, <2>8 DEF Owned
<1>7. ASSUME NEW w \in Workers, Finishes(w) PROVE Owned'
  <2>1. /\ UNCHANGED <<accepted, counted, classed>>
        /\ \/ pc[w] = "end" /\ answered' = answered \union {connfd[w]}
           \/ pc[w] = "stop" /\ answered' = answered
        /\ \A v \in Workers : /\ pc'[v] = IF v = w THEN "idle" ELSE pc[v]
                              /\ connfd'[v] = IF v = w THEN Nil ELSE connfd[v]
    <3>1. /\ UNCHANGED <<accepted, counted, classed>>
          /\ \/ pc[w] = "end" /\ answered' = answered \union {connfd[w]}
             \/ pc[w] = "stop" /\ answered' = answered
          /\ pc' = [pc EXCEPT ![w] = "idle"]
          /\ connfd' = [connfd EXCEPT ![w] = Nil]
      BY <1>7 DEF Finishes
    <3> QED BY <3>1 DEF Types
  <2>2. /\ pc[w] = "end" => pc[w] \in Finished
        /\ pc[w] \in Serving /\ "idle" \in Outside
        /\ "idle" \notin Early /\ "idle" \notin Between /\ "idle" \notin Finished
        /\ "idle" \notin Serving
    BY <2>1 DEF Early, Between, Finished, Outside, Serving
  <2>3. /\ pc[w] = "end" => connfd[w] \in classed
        /\ \A v \in Workers : v # w => connfd[v] # connfd[w]
    BY <2>2 DEF Owned
  <2>4. Nil \notin answered'
    <3>1. connfd[w] # Nil
      BY <2>2, Groups, PreforkAssumption
    <3>2. Nil \notin answered
      BY PreforkAssumption DEF Owned, Types
    <3> QED BY <2>1, <3>1, <3>2
  <2> HIDE DEF Early, Between, Finished, Outside, Serving
  <2>5. \A u, v \in Workers : pc'[u] \in Serving /\ connfd'[u] = connfd'[v] => u = v
    <3>1. \A v \in Workers : pc[v] \in Serving => connfd[v] # Nil
      BY Groups, PreforkAssumption
    <3> QED BY <2>1, <2>2, <3>1 DEF Owned
  <2>6. answered' \subseteq classed' /\ classed' \subseteq counted' /\ counted' \subseteq accepted'
    BY <2>1, <2>3 DEF Owned
  <2>7. \A v \in Workers :
          /\ pc'[v] \in Serving => connfd'[v] \in accepted'
          /\ pc'[v] \in Outside => connfd'[v] = Nil
          /\ connfd'[v] \notin answered'
          /\ pc'[v] \in Early => connfd'[v] \notin counted'
          /\ pc'[v] \in Between => connfd'[v] \in counted' \ classed'
          /\ pc'[v] \in Finished => connfd'[v] \in classed'
    BY <2>1, <2>2, <2>3, <2>4 DEF Owned
  <2> QED BY <2>5, <2>6, <2>7 DEF Owned
<1>8. ASSUME NEW w \in Workers, StoresRequests(w) PROVE Owned'
  <2>1. /\ UNCHANGED <<accepted, connfd, answered, classed>>
        /\ counted' = counted \union {connfd[w]} /\ pc[w] = "store_requests"
        /\ \A v \in Workers : pc'[v] = IF v = w THEN "load_code" ELSE pc[v]
    BY <1>8 DEF StoresRequests, Access, Types
  <2>2. /\ pc[w] \in Early /\ pc[w] \in Serving /\ "load_code" \in Between
        /\ "load_code" \notin Early /\ "load_code" \notin Finished
        /\ "load_code" \notin Outside /\ "load_code" \in Serving
    BY <2>1 DEF Early, Between, Finished, Outside, Serving
  <2>3. /\ connfd[w] \in accepted /\ connfd[w] \notin counted /\ connfd[w] \notin classed
        /\ \A v \in Workers : v # w => connfd[v] # connfd[w]
    BY <2>2 DEF Owned
  <2> HIDE DEF Early, Between, Finished, Outside, Serving
  <2> QED BY <2>1, <2>2, <2>3 DEF Owned
<1>9. ASSUME NEW w \in Workers, StoresCode(w) PROVE Owned'
  <2>1. /\ UNCHANGED <<accepted, connfd, answered, counted>>
        /\ classed' = classed \union {connfd[w]} /\ pc[w] = "store_code"
        /\ \A v \in Workers : pc'[v] = IF v = w THEN "post" ELSE pc[v]
    BY <1>9 DEF StoresCode, Access, Types
  <2>2. /\ pc[w] \in Between /\ pc[w] \in Serving /\ "post" \in Finished
        /\ "post" \notin Early /\ "post" \notin Between
        /\ "post" \notin Outside /\ "post" \in Serving
    BY <2>1 DEF Early, Between, Finished, Outside, Serving
  <2>3. /\ connfd[w] \in counted
        /\ \A v \in Workers : v # w => connfd[v] # connfd[w]
    BY <2>2 DEF Owned
  <2> HIDE DEF Early, Between, Finished, Outside, Serving
  <2> QED BY <2>1, <2>2, <2>3 DEF Owned
<1>10. ASSUME NEW S \in SUBSET Workers, Ends(S) PROVE Owned'
  <2>1. /\ UNCHANGED <<accepted, counted, answered, classed>>
        /\ \A v \in Workers : \/ pc'[v] = pc[v] /\ connfd'[v] = connfd[v]
                              \/ pc'[v] \in {"crashed", "dead"} /\ connfd'[v] = Nil
    <3>1. UNCHANGED <<accepted, counted, answered, classed>>
      BY <1>10, EndsEffect
    <3>2. \A v \in Workers \ S : pc'[v] = pc[v] /\ connfd'[v] = connfd[v]
      BY <1>10, EndsEffect
    <3>3. \A v \in S : pc'[v] \in {"crashed", "dead"} /\ connfd'[v] = Nil
      BY <1>10, EndsEffect
    <3> QED BY <3>1, <3>2, <3>3
  <2>2. \A v \in {"crashed", "dead"} : /\ v \in Outside /\ v \notin Early /\ v \notin Between
                                       /\ v \notin Finished /\ v \notin Serving
    BY DEF Early, Between, Finished, Outside, Serving
  <2>3. Nil \notin answered /\ \A v \in Workers : pc[v] \in Serving => connfd[v] # Nil
    BY PreforkAssumption DEF Owned, Types
  <2> HIDE DEF Early, Between, Finished, Outside, Serving
  <2> QED BY <2>1, <2>2, <2>3 DEF Owned
<1> QED BY <1>1, <1>2, <1>3, <1>4, <1>5, <1>6, <1>7, <1>8, <1>9, <1>10, NextCases DEF Counting

-----------------------------------------------------------------------------
\* A step that does not count.
LEMMA ExactKept ==
  ASSUME Exact, UNCHANGED <<counted, classed, requests, codes>>,
         \A v \in Workers :
           /\ pc[v] = "crashed" => pc'[v] = "crashed"
           /\ pc[v] \in Between =>
                pc'[v] = "crashed" \/ (pc'[v] \in Between /\ connfd'[v] = connfd[v])
  PROVE  Exact'
<1> HIDE DEF Between
<1>1. \A c \in counted \ classed :
        \E w \in Workers : pc'[w] = "crashed" \/ (pc'[w] \in Between /\ connfd'[w] = c)
  <2> SUFFICES ASSUME NEW c \in counted \ classed
               PROVE  \E w \in Workers : pc'[w] = "crashed" \/ (pc'[w] \in Between /\ connfd'[w] = c)
    OBVIOUS
  <2>1. PICK w \in Workers : pc[w] = "crashed" \/ (pc[w] \in Between /\ connfd[w] = c)
    BY DEF Exact
  <2> QED BY <2>1
<1> QED BY <1>1 DEF Exact

LEMMA RegistersKept ==
  ASSUME Registers, UNCHANGED <<requests, codes>>,
         \A v \in Workers : pc'[v] \in {"store_requests", "store_code"} =>
           pc'[v] = pc[v] /\ reg'[v] = reg[v] /\ class'[v] = class[v]
  PROVE  Registers'
BY DEF Registers

\* One worker goes on, and counts nothing.
LEMMA CountsMove ==
  ASSUME Types, Exact, Registers, UNCHANGED <<counted, classed, countVars>>,
         NEW w \in Workers, NEW p, pc' = [pc EXCEPT ![w] = p],
         \A v \in Workers : v # w => class'[v] = class[v] /\ connfd'[v] = connfd[v],
         pc[w] \notin Between, pc[w] # "crashed", p \notin {"store_requests", "store_code"}
  PROVE  Exact' /\ Registers'
<1>1. \A v \in Workers : pc'[v] = IF v = w THEN p ELSE pc[v]
  BY DEF Types
<1>2. Exact'
  <2> HIDE DEF Between
  <2> QED BY <1>1, ExactKept DEF countVars
<1>3. Registers'
  BY <1>1, RegistersKept DEF countVars
<1> QED BY <1>2, <1>3

\* The counters and what was loaded of them stay exact: the one who has the semaphore
\* is the only one whose connection may be counted by half.
LEMMA CountsStep ==
  IInv /\ [Next]_vars => Exact' /\ Registers'
<1> SUFFICES ASSUME IInv, [Next]_vars PROVE Exact' /\ Registers'
  OBVIOUS
<1> USE DEF IInv
<1>1. CASE Still \/ HOpens \/ HTakes \/ HGives
  <2>1. UNCHANGED <<connVars, countVars, pc, class>>
    BY <1>1 DEF Still, HOpens, HTakes, HGives
  <2> QED BY <2>1, ExactKept, RegistersKept DEF connVars, countVars
<1>2. ASSUME NEW w \in Workers, Opens(w) PROVE Exact' /\ Registers'
  <2>1. /\ pc[w] = "open" /\ pc' = [pc EXCEPT ![w] = "idle"]
        /\ UNCHANGED <<counted, classed, countVars>>
        /\ \A v \in Workers : v # w => class'[v] = class[v] /\ connfd'[v] = connfd[v]
    BY <1>2 DEF Opens, connVars
  <2>2. pc[w] \notin Between /\ pc[w] # "crashed"
    BY <2>1 DEF Between
  <2> HIDE DEF Between
  <2> QED BY <2>1, <2>2, CountsMove
<1>3. ASSUME NEW w \in Workers, NEW p \in PcStates, Moves(w, p) \/ Takes(w, p) \/ Gives(w, p)
      PROVE  Exact' /\ Registers'
  <2>1. Goes(w, p)
    BY <1>3 DEF Moves, Takes, Gives
  <2>2. pc[w] \notin Between
    BY <2>1 DEF Goes, Between, Early, Finished, Outside
  <2> HIDE DEF Between
  <2> QED BY <2>1, <2>2, CountsMove DEF Goes, connVars
<1>4. ASSUME NEW w \in Workers, NEW c \in Conns, Joins(w, c) PROVE Exact' /\ Registers'
  BY <1>4, ExactKept, RegistersKept DEF Joins, countVars
<1>5. ASSUME NEW w \in Workers, Accepts(w) PROVE Exact' /\ Registers'
  <2>1. /\ UNCHANGED <<counted, classed, countVars>> /\ pc' = [pc EXCEPT ![w] = "read"]
        /\ \A v \in Workers : v # w => class'[v] = class[v] /\ connfd'[v] = connfd[v]
    BY <1>5 DEF Accepts, Types
  <2>2. pc[w] \notin Between /\ pc[w] # "crashed"
    BY <1>5 DEF Accepts, Between
  <2> HIDE DEF Between
  <2> QED BY <2>1, <2>2, CountsMove
<1>6. ASSUME NEW w \in Workers, Finishes(w) PROVE Exact' /\ Registers'
  <2>1. /\ UNCHANGED <<counted, classed, countVars>> /\ pc' = [pc EXCEPT ![w] = "idle"]
        /\ \A v \in Workers : v # w => class'[v] = class[v] /\ connfd'[v] = connfd[v]
    BY <1>6 DEF Finishes, Types
  <2>2. pc[w] \notin Between /\ pc[w] # "crashed"
    BY <1>6 DEF Finishes, Between
  <2> HIDE DEF Between
  <2> QED BY <2>1, <2>2, CountsMove
<1>7. ASSUME NEW S \in SUBSET Workers, Ends(S) PROVE Exact' /\ Registers'
  <2>1. UNCHANGED <<counted, classed, requests, codes>>
    BY <1>7, EndsEffect
  <2>2. \A v \in Workers :
          \/ v \notin S /\ pc'[v] = pc[v] /\ connfd'[v] = connfd[v] /\ reg'[v] = reg[v]
             /\ class'[v] = class[v]
          \/ v \in S /\ pc'[v] = "crashed" /\ pc[v] # "crashed"
          \/ v \in S /\ pc'[v] = "dead" /\ pc[v] \notin Critical /\ pc[v] # "crashed"
    BY <1>7, EndsEffect
  <2>3. Exact'
    BY <2>1, <2>2, ExactKept DEF Between, Critical
  <2>4. Registers'
    BY <2>1, <2>2, RegistersKept
  <2> QED BY <2>3, <2>4
<1>8. ASSUME NEW w \in Workers, Loads(w) PROVE Exact' /\ Registers'
  <2>1. /\ UNCHANGED <<counted, classed, requests, codes, connfd, class>>
        /\ \A v \in Workers : v # w => pc'[v] = pc[v] /\ reg'[v] = reg[v]
        /\ \/ /\ pc[w] = "load_requests" /\ pc'[w] = "store_requests" /\ reg'[w] = requests
           \/ /\ pc[w] = "load_code" /\ pc'[w] = "store_code"
              /\ reg'[w] = codes[class[w]]
    BY <1>8 DEF Loads, Access, Types
  <2>2. Exact'
    BY <2>1, ExactKept DEF Between
  <2>3. Registers'
    BY <2>1 DEF Registers
  <2> QED BY <2>2, <2>3
<1>9. /\ IsFiniteSet(counted) /\ IsFiniteSet(classed)
      /\ Cardinality(counted) \in Nat /\ Cardinality(classed) \in Nat
  BY PreforkAssumption, FS_Subset, FS_CardinalityType DEF Types, Owned
<1>10. ASSUME NEW w \in Workers, StoresRequests(w) PROVE Exact' /\ Registers'
  <2> DEFINE c == connfd[w]
  <2>1. /\ UNCHANGED <<classed, codes, connfd, class>> /\ counted' = counted \union {c}
        /\ requests' = reg[w] + 1 /\ pc[w] = "store_requests" /\ pc'[w] = "load_code"
        /\ \A v \in Workers : v # w => pc'[v] = pc[v] /\ reg'[v] = reg[v]
    BY <1>10 DEF StoresRequests, Access, Types
  <2>2. \A v \in Workers : pc[v] \in Holding => v = w
    BY <2>1, Holder DEF Holding, Critical
  <2>3. \A v \in Workers : /\ v # w => pc'[v] \notin {"store_requests", "store_code"}
                           /\ pc[v] # "crashed" /\ pc[v] \notin Between
    BY <2>1, <2>2 DEF Holding, Critical, Between
  <2>4. counted \ classed = {} /\ c \notin counted /\ c \notin classed
    <3>1. c \notin counted /\ c \notin classed
      BY <2>1 DEF Owned, Early
    <3> HIDE DEF Between
    <3> QED BY <2>3, <3>1 DEF Exact
  <2>5. counted' \ classed' = {c}
    BY <2>1, <2>4
  <2>6. requests' = Cardinality(counted')
    <3>1. Cardinality(counted') = Cardinality(counted) + 1
      BY <1>9, <2>1, <2>4, FS_AddElement
    <3>2. reg[w] = Cardinality(counted)
      BY <2>1 DEF Exact, Registers
    <3> QED BY <2>1, <3>1, <3>2
  <2>7. pc'[w] \in Between /\ connfd'[w] = c
    BY <2>1 DEF Between
  <2>8. Exact'
    <3> HIDE DEF Between, c
    <3> QED BY <2>1, <2>5, <2>6, <2>7 DEF Exact
  <2>9. Registers'
    BY <2>1, <2>3 DEF Registers
  <2> QED BY <2>8, <2>9
<1>11. ASSUME NEW w \in Workers, StoresCode(w) PROVE Exact' /\ Registers'
  <2> DEFINE c == connfd[w]
  <2>1. /\ UNCHANGED <<counted, requests, connfd, class>> /\ classed' = classed \union {c}
        /\ codes' = [codes EXCEPT ![class[w]] = reg[w] + 1]
        /\ pc[w] = "store_code" /\ pc'[w] = "post"
        /\ \A v \in Workers : v # w => pc'[v] = pc[v] /\ reg'[v] = reg[v]
    BY <1>11 DEF StoresCode, Access, Types
  <2>2. \A v \in Workers : pc[v] \in Holding => v = w
    BY <2>1, Holder DEF Holding, Critical
  <2>3. \A v \in Workers : v # w => pc'[v] \notin {"store_requests", "store_code"}
    BY <2>1, <2>2 DEF Holding, Critical
  <2>4. c \in counted /\ c \notin classed
    BY <2>1 DEF Owned, Between
  <2>5. counted' \ classed' = {}
    BY <2>1, <2>4 DEF Exact
  <2>6. codes'[2] + codes'[4] + codes'[5] = Cardinality(classed')
    <3>1. Cardinality(classed') = Cardinality(classed) + 1
      BY <1>9, <2>1, <2>4, FS_AddElement
    <3>2. /\ class[w] \in {2, 4, 5} /\ codes \in [{2, 4, 5} -> Nat]
          /\ reg[w] = codes[class[w]]
      BY <2>1 DEF Types, HasClass, Coded, Class, Copy!Class, Registers
    <3>3. codes' = [codes EXCEPT ![class[w]] = codes[class[w]] + 1]
      BY <2>1, <3>2
    <3>4. codes[2] \in Nat /\ codes[4] \in Nat /\ codes[5] \in Nat
      BY <3>2
    <3>5. codes'[2] + codes'[4] + codes'[5] = codes[2] + codes[4] + codes[5] + 1
      BY <3>2, <3>3, <3>4
    <3> QED BY <3>1, <3>5 DEF Exact
  <2>7. Exact'
    BY <2>1, <2>5, <2>6 DEF Exact
  <2>8. Registers'
    BY <2>1, <2>3 DEF Registers
  <2> QED BY <2>7, <2>8
<1> QED BY <1>1, <1>2, <1>3, <1>4, <1>5, <1>6, <1>7, <1>8, <1>10, <1>11, NextCases DEF Counting

\* The invariant is inductive.
THEOREM PoolInvariant == Spec => []IInv
<1>1. IInv /\ [Next]_vars => IInv'
  <2> SUFFICES ASSUME IInv, [Next]_vars PROVE IInv'
    OBVIOUS
  <2>1. Types' /\ HasClass' /\ Opened' /\ Exclusive'
    BY TypesStep, OpenedStep, ExclusiveStep DEF IInv
  <2>2. Queued' /\ Owned'
    BY QueuedStep, OwnedStep DEF IInv
  <2> QED BY <2>1, <2>2, CountsStep DEF IInv
<1> QED BY InitIInv, <1>1, PTL DEF Spec

-----------------------------------------------------------------------------
\* The semaphore of the pool counts the processes, dead or alive, that took it and did
\* not give it back, in a pool of any size.
THEOREM SemaphoreExactAlways == Spec => []SemaphoreExact
<1>1. IInv => SemaphoreExact
  <2> SUFFICES ASSUME IInv PROVE SemaphoreExact
    OBVIOUS
  <2> DEFINE H == {w \in Workers : pc[w] \in Holding}
  <2>1. Types /\ Opened /\ Exclusive
    BY DEF IInv
  <2>2. sem + Cardinality(H) + (IF hpc \in HHolding THEN 1 ELSE 0) = IF created THEN 1 ELSE 0
    <3>1. CASE \E w \in Workers : pc[w] \in Holding
      <4>1. PICK w \in Workers : pc[w] \in Holding
        BY <3>1
      <4>2. /\ created /\ sem = 0 /\ hpc \notin HHolding
            /\ \A v \in Workers : pc[v] \in Holding => v = w
        BY <2>1, <4>1, Holder
      <4> HIDE DEF Holding
      <4>3. H = {w}
        BY <4>1, <4>2
      <4> QED BY <4>2, <4>3, FS_Singleton
    <3>2. CASE hpc \in HHolding
      <4>1. /\ created /\ sem = 0 /\ \A v \in Workers : pc[v] \notin Holding
        BY <2>1, <3>2, Holder
      <4> HIDE DEF Holding, HHolding
      <4>2. H = {}
        BY <4>1
      <4> QED BY <3>2, <4>1, <4>2, FS_EmptySet
    <3>3. CASE hpc \notin HHolding /\ \A w \in Workers : pc[w] \notin Holding
      <4> HIDE DEF Holding, HHolding
      <4>1. H = {}
        BY <3>3
      <4>2. sem = IF created THEN 1 ELSE 0
        BY <2>1, <3>3 DEF Exclusive, Taken, Types
      <4> QED BY <3>3, <4>1, <4>2, FS_EmptySet
    <3> QED BY <3>1, <3>2, <3>3
  <2> QED BY <2>2 DEF SemaphoreExact, Holding, HHolding
<1> QED BY PoolInvariant, <1>1, PTL

\* The counters of the pool are exact, but for the one connection whose class is not
\* counted yet, or never will be; in a pool of any size, whoever dies where.
THEOREM CountExactAlways == Spec => []CountExact
<1>1. IInv => CountExact
  <2> SUFFICES ASSUME IInv PROVE CountExact
    OBVIOUS
  <2>1. \A c, d \in counted \ classed : c = d
    BY DEF IInv, Exact
  <2>2. Cardinality(counted \ classed) <= 1
    <3>1. CASE counted \ classed = {}
      BY <3>1, FS_EmptySet
    <3>2. CASE counted \ classed # {}
      <4>1. PICK c : c \in counted \ classed
        BY <3>2
      <4>2. counted \ classed = {c}
        BY <2>1, <4>1
      <4>3. Cardinality({c}) = 1
        BY FS_Singleton
      <4> QED BY <4>2, <4>3
    <3> QED BY <3>1, <3>2
  <2> QED BY <2>2 DEF IInv, Exact, Owned, CountExact
<1> QED BY PoolInvariant, <1>1, PTL

\* The server that was meant to pass descriptors does nothing that the pool does not
\* do: each function of the copy is the one of the pool.
THEOREM PassFdIsPool == PassFairSpec => Spec
<1>1. PassNext => Next
  <2>1. \A w \in Workers : PassDoCall(w) => DoCall(w)
    BY DEF PassDoCall, DoCall, PassReadRequestLine, PassParseMethod, PassParseVersion,
           PassHandleBash, PassLsVersionTwo, PassReqParser, PassResponse, PassWriteCode
  <2>2. \A w \in Workers : PassServer(w) => Server(w)
    BY <2>1 DEF PassServer, Server
  <2> QED BY <2>2 DEF PassNext, Next, PassMain, PassExitHandler, PassSiguser1,
                      PassHandlerSiguser1
<1>2. PassInit => Init
  BY DEF PassInit
<1> QED BY <1>1, <1>2, PTL DEF PassFairSpec, Spec

\* So its semaphore and its counters are exact as well.
COROLLARY PassFdExactAlways == PassFairSpec => [](SemaphoreExact /\ CountExact)
BY PassFdIsPool, SemaphoreExactAlways, CountExactAlways, PTL
=============================================================================
