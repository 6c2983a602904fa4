------------------------- MODULE ThreadedServersProofs -------------------------
(***************************************************************************)
(* What holds of the counters of the thread pool for any number of threads *)
(* and connections, whether or not the semaphore works.                    *)
(***************************************************************************)
EXTENDS QueueServer, ThreadServers, FiniteSetTheorems, SequenceTheorems, TLAPS

\* Where a thread has not counted its connection yet; where it knows its status code;
\* where it holds the semaphore; where it has counted it, but not its class.
Early == {"read", "dispatch", "stat_wait", "stat_read", "send", "wait", "load_requests",
          "store_requests"}
Coded == {"send", "wait", "load_requests", "store_requests", "load_code", "store_code"}
Holding == {"stat_read", "load_requests", "store_requests"}
Between == {"load_code", "store_code"}

PcStates == Early \union Between \union {"idle", "body", "end"}

Types ==
  /\ up \in BOOLEAN /\ semWorks \in BOOLEAN /\ sem \in Nat
  /\ accepted \in SUBSET Conns
  /\ connfd \in [Workers -> Conns \union {Nil}]
  /\ items \in Seq(Conns)
  /\ requests \in Nat /\ codes \in [Class -> Nat]
  /\ pc \in [Workers -> PcStates] /\ after \in [Workers -> {"end", "body"}]
  /\ reg \in [Workers -> Nat] /\ total \in [Workers -> Nat \union {-1}]
  /\ class \in [Workers -> Class \union {0}]

\* A connection has one owner, the queue or a thread, and is counted by that thread only.
Owned ==
  /\ \A w \in Workers : Busy(w) <=> connfd[w] # Nil
  /\ \A i \in 1..Len(items) : items[i] \in accepted \ counted
  /\ \A i, j \in 1..Len(items) : items[i] = items[j] => i = j
  /\ \A w \in Workers, i \in 1..Len(items) : connfd[w] # items[i]
  /\ \A w \in Workers : Busy(w) => connfd[w] \in accepted
  /\ \A v, w \in Workers : Busy(v) /\ connfd[v] = connfd[w] => v = w
  /\ counted \subseteq accepted
  /\ \A w \in Workers : pc[w] \in Early => connfd[w] \notin counted
  /\ \A w \in Workers : Busy(w) /\ pc[w] \notin Early => connfd[w] \in counted

\* The status of an answer is known where it is needed.
HasClass == \A w \in Workers : pc[w] \in Coded => class[w] \in Class

\* With a working semaphore, either nobody has taken it, or one thread has it and
\* nobody has been counted, or one connection has been counted and nobody has it.
Phase ==
  semWorks =>
    \/ sem = 1 /\ counted = {} /\ \A w \in Workers : pc[w] \notin Holding
    \/ /\ sem = 0 /\ counted = {}
       /\ \E w \in Workers : \A v \in Workers : pc[v] \in Holding <=> v = w
    \/ /\ sem = 0 /\ \E c \in Conns : counted = {c}
       /\ \A w \in Workers : pc[w] \notin Holding

\* The connections counted in their class, too.
Classed == counted \ {connfd[w] : w \in {v \in Workers : pc[v] \in Between}}

\* No counter, and no register on its way to a counter, exceeds what was counted.
Counts ==
  /\ requests <= Cardinality(counted)
  /\ \A w \in Workers : total[w] <= Cardinality(counted)
  /\ \A w \in Workers : pc[w] = "store_requests" => reg[w] <= Cardinality(counted)
  /\ \A k \in Class : codes[k] <= Cardinality(Classed)
  /\ \A w \in Workers : pc[w] = "store_code" => reg[w] <= Cardinality(Classed)

\* A connection that was answered was counted, and is nobody's any more.
Done ==
  /\ answered \subseteq counted
  /\ \A w \in Workers : connfd[w] \notin answered

\* The semaphore that does not work keeps its value.
Broken == semWorks \/ sem = 1

IInv == Types /\ Owned /\ HasClass /\ Phase /\ Counts /\ Done /\ Broken

\* The invariant holds when main has created the pool.
LEMMA InitIInv == Init => IInv
<1> SUFFICES ASSUME Init PROVE IInv
  OBVIOUS
<1> USE AnswerAssumption DEF Init, AnswerInit, Class
<1>1. Types
  BY DEF Types, PcStates
<1>2. Owned /\ HasClass /\ Phase /\ Done /\ Broken
  BY DEF Owned, HasClass, Phase, Done, Broken, Busy, Early, Coded, Holding
<1>3. Classed = {} /\ counted = {}
  BY DEF Classed
<1>4. Counts
  BY <1>3, FS_EmptySet DEF Counts
<1> QED BY <1>1, <1>2, <1>4 DEF IInv

-----------------------------------------------------------------------------
\* Status codes fall into the classes that are counted.
LEMMA Classes ==
  /\ \A code \in {200, 400, 403, 404, 405, 500, 505} : ClassOf(code) \in Class
  /\ ClassOf(0) = 0
BY DEF ClassOf, Class

\* A thread that goes on without a new class knows its class where it is needed.
LEMMA ClassKept ==
  ASSUME HasClass, UNCHANGED class,
         \A v \in Workers : pc'[v] \in Coded => pc[v] \in Coded
  PROVE  HasClass'
BY DEF HasClass

\* Every step keeps the types, and the class of an answer where it is needed.
LEMMA TypesStep == Types /\ HasClass /\ [Next]_vars => Types' /\ HasClass'
<1> SUFFICES ASSUME Types, HasClass, [Next]_vars PROVE Types' /\ HasClass'
  OBVIOUS
<1> USE AnswerAssumption, Classes DEF connVars, shmVars, localVars
<1>1. CASE UNCHANGED vars
  BY <1>1 DEF Types, HasClass, vars, answerVars
<1>2. CASE ExitHandler /\ UNCHANGED items
  <2>1. /\ up' \in BOOLEAN
        /\ UNCHANGED <<semWorks, sem, accepted, connfd, items, requests, codes, pc, after, reg,
                       total, class>>
    BY <1>2 DEF ExitHandler
  <2> QED BY <2>1 DEF Types, HasClass
<1>3. ASSUME NEW c \in Conns, Server(c) PROVE Types' /\ HasClass'
  <2>1. items' \in Seq(Conns)
    BY <1>3, AppendProperties DEF Types, Server, Queue!FifoPut
  <2>2. /\ accepted' \in SUBSET Conns
        /\ UNCHANGED <<up, semWorks, sem, connfd, requests, codes, pc, after, reg, total, class>>
    BY <1>3 DEF Types, Server, Queue!FifoPut
  <2> QED BY <2>1, <2>2 DEF Types, HasClass
<1>4. ASSUME NEW w \in Workers, DoCallGet(w) PROVE Types' /\ HasClass'
  <2>1. items' \in Seq(Conns) /\ Head(items) \in Conns
    BY <1>4, HeadTailProperties DEF Types, DoCallGet, Queue!FifoGet
  <2>2. /\ connfd' \in [Workers -> Conns \union {Nil}] /\ pc' \in [Workers -> PcStates]
        /\ \A v \in Workers : pc'[v] \in Coded => pc[v] \in Coded
    BY <1>4, <2>1 DEF Types, DoCallGet, Queue!FifoGet, Begin, PcStates, Early, Coded
  <2>3. UNCHANGED <<up, semWorks, sem, accepted, requests, codes, after, reg, total, class>>
    BY <1>4 DEF DoCallGet, Queue!FifoGet, Begin
  <2>4. HasClass'
    BY <2>2, <2>3, ClassKept
  <2> QED BY <2>1, <2>2, <2>3, <2>4 DEF Types
<1>5. ASSUME NEW w \in Workers, DoCallEnd(w) PROVE Types' /\ HasClass'
  <2>1. /\ connfd' \in [Workers -> Conns \union {Nil}] /\ pc' \in [Workers -> PcStates]
        /\ after' \in [Workers -> {"end", "body"}] /\ class' \in [Workers -> Class \union {0}]
    BY <1>5 DEF Types, DoCallEnd, Queue!FifoAsk, Finish, PcStates
  <2>2. UNCHANGED <<up, semWorks, sem, accepted, items, requests, codes, reg, total>>
    BY <1>5 DEF DoCallEnd, Queue!FifoAsk, Finish
  <2>3. HasClass'
    BY <1>5 DEF Types, HasClass, DoCallEnd, Finish, Coded
  <2> QED BY <2>1, <2>2, <2>3 DEF Types
<1>6. ASSUME NEW w \in Workers, Sigpipe(w), UNCHANGED items PROVE Types' /\ HasClass'
  <2>1. /\ up' \in BOOLEAN
        /\ UNCHANGED <<semWorks, sem, accepted, connfd, items, requests, codes, pc, after, reg,
                       total, class>>
    BY <1>6 DEF Sigpipe
  <2> QED BY <2>1 DEF Types, HasClass
<1>7. ASSUME NEW w \in Workers, NEW where, NEW code, NEW next, Goto(w, where, code, next),
             UNCHANGED items, next \in {"end", "body"},
             \/ where = "send" /\ code \in {200, 400, 403, 404, 405, 500, 505}
             \/ where = "dispatch" /\ code = 0
      PROVE  Types' /\ HasClass'
  <2>1. ClassOf(code) \in Class \union {0} /\ (where = "send" => ClassOf(code) \in Class)
    BY <1>7
  <2>2. where \in PcStates
    BY <1>7 DEF PcStates, Early
  <2> HIDE DEF ClassOf, Class
  <2>3. Types'
    BY <1>7, <2>1, <2>2 DEF Types, Goto
  <2>4. HasClass'
    BY <1>7, <2>1 DEF Types, HasClass, Goto, Coded
  <2> QED BY <2>3, <2>4
<1>8. ASSUME NEW w \in Workers, UNCHANGED items,
             \/ Statistics(w) \/ StatisticsWait(w) \/ StatisticsRead(w)
      PROVE  Types' /\ HasClass'
  <2>0. UNCHANGED <<up, semWorks, accepted, connfd, items, requests, codes, after, reg>>
    BY <1>8 DEF Statistics, StatisticsWait, StatisticsRead
  <2>1. CASE Statistics(w)
    <3>1. pc' = [pc EXCEPT ![w] = "stat_wait"] /\ UNCHANGED <<sem, total, class>>
      BY <2>1 DEF Statistics
    <3>2. pc' \in [Workers -> PcStates]
      BY <3>1 DEF Types, PcStates, Early
    <3>3. HasClass'
      BY <3>1 DEF Types, HasClass, Coded
    <3> QED BY <2>0, <3>1, <3>2, <3>3 DEF Types
  <2>2. CASE StatisticsWait(w)
    <3>1. pc' = [pc EXCEPT ![w] = "stat_read"] /\ UNCHANGED <<total, class>>
      BY <2>2 DEF StatisticsWait
    <3>2. pc' \in [Workers -> PcStates]
      BY <3>1 DEF Types, PcStates, Early
    <3>3. sem' \in Nat
      BY <2>2 DEF Types, StatisticsWait, Wait
    <3>4. HasClass'
      BY <3>1 DEF Types, HasClass, Coded
    <3> QED BY <2>0, <3>1, <3>2, <3>3, <3>4 DEF Types
  <2>3. CASE StatisticsRead(w)
    <3>1. sem' \in Nat
      BY <2>3 DEF Types, StatisticsRead, Post
    <3>2. pc' \in [Workers -> PcStates]
      BY <2>3 DEF Types, StatisticsRead, PcStates, Early
    <3>3. total' \in [Workers -> Nat \union {-1}] /\ class' \in [Workers -> Class \union {0}]
      BY <2>3 DEF Types, StatisticsRead
    <3>4. HasClass'
      BY <2>3 DEF Types, HasClass, StatisticsRead, Coded
    <3> QED BY <2>0, <3>1, <3>2, <3>3, <3>4 DEF Types
  <2> QED BY <1>8, <2>1, <2>2, <2>3
<1>9. ASSUME NEW w \in Workers, UNCHANGED items, Send(w) PROVE Types' /\ HasClass'
  <2>1. pc' \in [Workers -> PcStates] /\ total' \in [Workers -> Nat \union {-1}]
    BY <1>9 DEF Types, Send, PcStates, Early
  <2>2. HasClass'
    BY <1>9 DEF Types, HasClass, Send, Coded
  <2> QED BY <1>9, <2>1, <2>2 DEF Types, Send
<1>10. ASSUME NEW w \in Workers, UNCHANGED items, WriteCode(w) PROVE Types' /\ HasClass'
  <2>1. CASE WriteCodeWait(w)
    <3>1. /\ pc' = [pc EXCEPT ![w] = "load_requests"] /\ pc[w] \in Coded
          /\ UNCHANGED <<up, semWorks, accepted, connfd, items, requests, codes, after, reg, total,
                         class>>
      BY <1>10, <2>1 DEF WriteCodeWait, Coded
    <3>2. pc' \in [Workers -> PcStates]
      BY <3>1 DEF Types, PcStates, Early, Between
    <3>3. sem' \in Nat
      BY <2>1 DEF Types, WriteCodeWait, Wait
    <3>4. HasClass'
      BY <3>1 DEF Types, HasClass
    <3> QED BY <3>1, <3>2, <3>3, <3>4 DEF Types
  <2>2. CASE LoadRequests(w)
    <3>1. /\ pc' = [pc EXCEPT ![w] = "store_requests"] /\ pc[w] \in Coded
          /\ UNCHANGED <<up, semWorks, sem, accepted, connfd, items, requests, codes, after, total,
                         class>>
      BY <1>10, <2>2 DEF LoadRequests, Coded
    <3>2. pc' \in [Workers -> PcStates]
      BY <3>1 DEF Types, PcStates, Early, Between
    <3>3. reg' \in [Workers -> Nat]
      BY <2>2 DEF Types, LoadRequests
    <3>4. HasClass'
      BY <3>1 DEF Types, HasClass
    <3> QED BY <3>1, <3>2, <3>3, <3>4 DEF Types
  <2>3. CASE StoreRequests(w)
    <3>1. /\ pc' = [pc EXCEPT ![w] = "load_code"] /\ pc[w] \in Coded
          /\ UNCHANGED <<up, semWorks, sem, accepted, connfd, items, codes, after, total, class>>
      BY <1>10, <2>3 DEF StoreRequests, Coded
    <3>2. pc' \in [Workers -> PcStates]
      BY <3>1 DEF Types, PcStates, Early, Between
    <3>3. requests' \in Nat /\ reg' \in [Workers -> Nat]
      BY <2>3 DEF Types, StoreRequests
    <3>4. HasClass'
      BY <3>1 DEF Types, HasClass
    <3> QED BY <3>1, <3>2, <3>3, <3>4 DEF Types
  <2>4. CASE LoadCode(w)
    <3>1. /\ pc' = [pc EXCEPT ![w] = "store_code"] /\ pc[w] \in Coded
          /\ UNCHANGED <<up, semWorks, sem, accepted, connfd, items, requests, codes, after, total,
                         class>>
      BY <1>10, <2>4 DEF LoadCode, Coded
    <3>2. pc' \in [Workers -> PcStates]
      BY <3>1 DEF Types, PcStates, Early, Between
    <3>3. reg' \in [Workers -> Nat]
      <4>1. codes[class[w]] \in Nat
        BY <2>4, <3>1 DEF Types, HasClass
      <4> QED BY <2>4, <4>1 DEF Types, LoadCode
    <3>4. HasClass'
      BY <3>1 DEF Types, HasClass
    <3> QED BY <3>1, <3>2, <3>3, <3>4 DEF Types
  <2>5. CASE StoreCode(w)
    <3>1. /\ pc' = [pc EXCEPT ![w] = after[w]] /\ pc[w] \in Coded
          /\ UNCHANGED <<up, semWorks, sem, accepted, connfd, items, requests, after, total, class>>
      BY <1>10, <2>5 DEF StoreCode, Coded
    <3>2. pc' \in [Workers -> PcStates]
      BY <3>1 DEF Types, PcStates, Early, Between
    <3>3. codes' \in [Class -> Nat] /\ reg' \in [Workers -> Nat]
      <4>1. class[w] \in Class /\ reg[w] + 1 \in Nat /\ codes \in [Class -> Nat]
        BY <3>1 DEF Types, HasClass
      <4> HIDE DEF Class
      <4> QED BY <2>5, <4>1 DEF Types, StoreCode
    <3>4. HasClass'
      BY <3>1 DEF Types, HasClass
    <3> QED BY <3>1, <3>2, <3>3, <3>4 DEF Types
  <2> QED BY <1>10, <2>1, <2>2, <2>3, <2>4, <2>5 DEF WriteCode
<1> QED BY <1>1, <1>2, <1>3, <1>4, <1>5, <1>6, <1>7, <1>8, <1>9, <1>10
        DEF Next, DoCall, Answer, ReadRequestLine, Response, Stream, RefuseMethod, RefuseVersion,
            LsVersionTwo, ReqParser

-----------------------------------------------------------------------------
\* A step that leaves threads, connections and counters alone.
Quiet == UNCHANGED <<connVars, shmVars, items, pc, localVars, counted, answered>>

\* Thread w goes on to p, without the semaphore and the counters.
Moves(w, p) ==
  /\ pc[w] # "idle" /\ p \in PcStates \ {"idle"}
  /\ pc[w] \in Early <=> p \in Early
  /\ pc[w] \notin Holding \union Between /\ p \notin Holding \union Between
  /\ pc' = [pc EXCEPT ![w] = p]
  /\ \A v \in Workers : total'[v] = total[v] \/ total'[v] = -1
  /\ UNCHANGED <<connVars, shmVars, items, reg, counted, answered>>

\* Every step is one of these.
LEMMA NextCases ==
  ASSUME Types, [Next]_vars
  PROVE  \/ Quiet
         \/ \E c \in Conns : Server(c)
         \/ \E w \in Workers : \/ DoCallGet(w) \/ DoCallEnd(w)
                               \/ \E p \in PcStates : Moves(w, p)
                               \/ StatisticsWait(w) /\ UNCHANGED items
                               \/ StatisticsRead(w) /\ UNCHANGED items
                               \/ WriteCode(w) /\ UNCHANGED items
<1> USE DEF connVars, shmVars, localVars
<1>1. CASE UNCHANGED vars
  BY <1>1 DEF vars, answerVars, Quiet
<1>2. CASE ExitHandler /\ UNCHANGED items
  BY <1>2 DEF ExitHandler, Quiet
<1>3. ASSUME NEW w \in Workers, Sigpipe(w), UNCHANGED items PROVE Quiet
  BY <1>3 DEF Sigpipe, Quiet
<1>4. ASSUME NEW w \in Workers, NEW where, NEW code, NEW next, Goto(w, where, code, next),
             UNCHANGED items, pc[w] \in {"read", "dispatch"}, where \in {"send", "dispatch"}
      PROVE  Moves(w, where)
  BY <1>4 DEF Types, Goto, Moves, PcStates, Early, Holding, Between
<1>5. ASSUME NEW w \in Workers, UNCHANGED items, Statistics(w) PROVE Moves(w, "stat_wait")
  BY <1>5 DEF Types, Statistics, Moves, PcStates, Early, Holding, Between
<1>6. ASSUME NEW w \in Workers, UNCHANGED items, Send(w)
      PROVE  Moves(w, IF pc[w] = "body" THEN "end" ELSE "wait")
  BY <1>6 DEF Types, Send, Moves, PcStates, Early, Holding, Between
<1>7. {"send", "dispatch", "stat_wait", "end", "wait"} \subseteq PcStates
  BY DEF PcStates, Early
<1> HIDE DEF connVars, shmVars, localVars
<1>8. ASSUME NEW w \in Workers, UNCHANGED items,
             \/ ReadRequestLine(w) \/ RefuseMethod(w) \/ RefuseVersion(w)
             \/ LsVersionTwo(w) \/ ReqParser(w)
      PROVE  Moves(w, "send") \/ Moves(w, "dispatch")
  BY <1>4, <1>8 DEF ReadRequestLine, RefuseMethod, RefuseVersion, LsVersionTwo, ReqParser,
                    Response, Stream
<1>9. ASSUME NEW w \in Workers, UNCHANGED items, Send(w)
      PROVE  Moves(w, "end") \/ Moves(w, "wait")
  BY <1>6, <1>9
<1> QED BY <1>1, <1>2, <1>3, <1>5, <1>7, <1>8, <1>9 DEF Next, DoCall, Answer

-----------------------------------------------------------------------------
\* A thread goes on, and counts nothing.
LEMMA OwnedMove ==
  ASSUME Types, Owned, NEW w \in Workers, NEW p \in PcStates,
         pc' = [pc EXCEPT ![w] = p], pc[w] # "idle", p # "idle",
         pc[w] \in Early <=> p \in Early,
         UNCHANGED <<connVars, items, counted>>
  PROVE  Owned'
<1>1. \A v \in Workers : (Busy(v)' <=> Busy(v)) /\ (pc'[v] \in Early <=> pc[v] \in Early)
  BY DEF Types, Busy
<1> QED BY <1>1 DEF Owned, connVars

\* Every connection keeps one owner.
LEMMA OwnedStep == Types /\ Owned /\ [Next]_vars => Owned'
<1> SUFFICES ASSUME Types, Owned, [Next]_vars PROVE Owned'
  OBVIOUS
<1> USE AnswerAssumption DEF connVars, shmVars, localVars
<1>1. CASE Quiet
  BY <1>1 DEF Quiet, Owned, Busy
<1>2. ASSUME NEW c \in Conns, Server(c) PROVE Owned'
  <2>1. /\ Len(items) \in Nat /\ Len(items') = Len(items) + 1 /\ items'[Len(items) + 1] = c
        /\ \A i \in 1..Len(items) : items'[i] = items[i]
    BY <1>2, AppendProperties DEF Types, Server, Queue!FifoPut
  <2>2. /\ c \notin accepted /\ accepted' = accepted \union {c}
        /\ UNCHANGED <<connfd, counted, pc>>
    BY <1>2 DEF Server, Queue!FifoPut
  <2>3. \A i \in 1..Len(items') : IF i \in 1..Len(items) THEN items'[i] = items[i]
                                                          ELSE i = Len(items) + 1 /\ items'[i] = c
    BY <2>1
  <2>4. c \notin counted /\ \A w \in Workers : connfd[w] # c
    BY <2>2 DEF Owned, Types
  <2> HIDE DEF connVars, shmVars, localVars
  <2>5. \A i \in 1..Len(items') : items'[i] \in accepted' \ counted'
    BY <2>1, <2>2, <2>3, <2>4 DEF Owned
  <2>6. \A i, j \in 1..Len(items') : items'[i] = items'[j] => i = j
    BY <2>1, <2>2, <2>3 DEF Owned
  <2>7. \A w \in Workers, i \in 1..Len(items') : connfd'[w] # items'[i]
    BY <2>1, <2>2, <2>3, <2>4 DEF Owned
  <2> QED BY <2>2, <2>5, <2>6, <2>7 DEF Owned, Busy
<1>3. ASSUME NEW w \in Workers, DoCallGet(w) PROVE Owned'
  <2>1. /\ Len(items) \in Nat /\ Len(items) # 0 /\ Len(items') = Len(items) - 1
        /\ \A i \in 1..Len(items') : items'[i] = items[i + 1]
    BY <1>3, HeadTailProperties, EmptySeq DEF Types, DoCallGet, Queue!FifoGet
  <2>2. Head(items) = items[1] /\ 1 \in 1..Len(items)
    BY <2>1, <1>3 DEF Types
  <2>3. /\ pc[w] = "idle" /\ pc' = [pc EXCEPT ![w] = "read"]
        /\ connfd' = [connfd EXCEPT ![w] = items[1]]
        /\ UNCHANGED <<accepted, counted>>
    BY <1>3, <2>2 DEF DoCallGet, Queue!FifoGet, Begin, Busy
  <2>4. items[1] # Nil /\ items[1] \in accepted \ counted
    BY <2>2 DEF Owned, Types
  <2>5. \A i \in 1..Len(items') : i + 1 \in 1..Len(items) /\ i + 1 # 1
    BY <2>1
  <2>6. \A v \in Workers : /\ v # w => pc'[v] = pc[v] /\ connfd'[v] = connfd[v]
                           /\ v = w => pc'[v] = "read" /\ connfd'[v] = items[1]
    BY <2>3 DEF Types
  <2> HIDE DEF connVars, shmVars, localVars
  <2>7. \A i \in 1..Len(items') : /\ items'[i] \in accepted' \ counted'
                                 /\ \A j \in 1..Len(items') : items'[i] = items'[j] => i = j
    BY <2>1, <2>3, <2>5 DEF Owned
  <2>8. \A v \in Workers, i \in 1..Len(items') : connfd'[v] # items'[i]
    BY <2>1, <2>2, <2>5, <2>6 DEF Owned
  <2>9. \A v \in Workers : connfd[v] # items[1]
    BY <2>2 DEF Owned
  <2>10. \A v \in Workers : /\ Busy(v)' <=> connfd'[v] # Nil
                            /\ Busy(v)' => connfd'[v] \in accepted'
                            /\ pc'[v] \in Early => connfd'[v] \notin counted'
                            /\ Busy(v)' /\ pc'[v] \notin Early => connfd'[v] \in counted'
    BY <2>3, <2>4, <2>6 DEF Owned, Busy, Early
  <2>11. \A u, v \in Workers : Busy(u)' /\ connfd'[u] = connfd'[v] => u = v
    BY <2>3, <2>6, <2>9 DEF Owned, Busy
  <2> QED BY <2>3, <2>7, <2>8, <2>10, <2>11 DEF Owned
<1>4. ASSUME NEW w \in Workers, DoCallEnd(w) PROVE Owned'
  <2>1. /\ pc[w] = "end" /\ pc' = [pc EXCEPT ![w] = "idle"]
        /\ connfd' = [connfd EXCEPT ![w] = Nil] /\ UNCHANGED <<accepted, items, counted>>
    BY <1>4 DEF DoCallEnd, Queue!FifoAsk, Finish
  <2>2. \A v \in Workers : /\ v # w => pc'[v] = pc[v] /\ connfd'[v] = connfd[v]
                           /\ v = w => pc'[v] = "idle" /\ connfd'[v] = Nil
    BY <2>1 DEF Types
  <2>3. \A i \in 1..Len(items) : items[i] # Nil
    BY DEF Owned, Types
  <2> QED BY <2>1, <2>2, <2>3 DEF Owned, Busy, Early
<1>5. ASSUME NEW w \in Workers, NEW p \in PcStates, Moves(w, p) PROVE Owned'
  BY <1>5, OwnedMove DEF Moves
<1>6. ASSUME NEW w \in Workers, UNCHANGED items,
             \/ StatisticsWait(w) \/ StatisticsRead(w) \/ WriteCodeWait(w)
             \/ LoadRequests(w) \/ LoadCode(w) \/ StoreCode(w)
      PROVE  Owned'
  <2>1. PICK p \in PcStates : /\ pc' = [pc EXCEPT ![w] = p] /\ pc[w] # "idle" /\ p # "idle"
                              /\ pc[w] \in Early <=> p \in Early
                              /\ UNCHANGED <<connVars, items, counted>>
    <3>1. {"stat_read", "send", "load_requests", "store_requests", "store_code", "body", "end"}
            \subseteq PcStates
      BY DEF PcStates, Early, Between
    <3>2. CASE StoreCode(w)
      <4>1. after[w] \in {"end", "body"}
        BY DEF Types
      <4>2. pc' = [pc EXCEPT ![w] = after[w]] /\ pc[w] = "store_code"
        BY <3>2 DEF StoreCode
      <4> QED BY <1>6, <3>1, <3>2, <4>1, <4>2 DEF StoreCode, Early
    <3>3. CASE StatisticsWait(w)
      BY <1>6, <3>1, <3>3 DEF StatisticsWait, Early
    <3>4. CASE StatisticsRead(w)
      BY <1>6, <3>1, <3>4 DEF StatisticsRead, Early
    <3>5. CASE WriteCodeWait(w)
      BY <1>6, <3>1, <3>5 DEF WriteCodeWait, Early
    <3>6. CASE LoadRequests(w)
      BY <1>6, <3>1, <3>6 DEF LoadRequests, Early
    <3>7. CASE LoadCode(w)
      BY <1>6, <3>1, <3>7 DEF LoadCode, Early
    <3> QED BY <1>6, <3>2, <3>3, <3>4, <3>5, <3>6, <3>7
  <2> QED BY <2>1, OwnedMove
<1>7. ASSUME NEW w \in Workers, UNCHANGED items, StoreRequests(w) PROVE Owned'
  <2>1. /\ pc[w] = "store_requests" /\ pc' = [pc EXCEPT ![w] = "load_code"]
        /\ counted' = counted \union {connfd[w]} /\ UNCHANGED <<accepted, items, connfd>>
    BY <1>7 DEF StoreRequests
  <2>2. \A v \in Workers : /\ v # w => pc'[v] = pc[v]
                           /\ v = w => pc'[v] = "load_code"
    BY <2>1 DEF Types
  <2> HIDE DEF connVars, shmVars, localVars
  <2>3. \A v \in Workers : Busy(v)' <=> Busy(v)
    BY <2>1, <2>2 DEF Busy
  <2>4. Busy(w)
    BY <2>1 DEF Busy
  <2> QED BY <2>1, <2>2, <2>3, <2>4 DEF Owned, Early
<1> HIDE DEF connVars, shmVars, localVars
<1> QED BY <1>1, <1>2, <1>3, <1>4, <1>5, <1>6, <1>7, NextCases DEF WriteCode

-----------------------------------------------------------------------------
\* A step that neither takes nor returns the semaphore.
LEMMA PhaseKept ==
  ASSUME Types, Phase, NEW w \in Workers, NEW p, pc' = [pc EXCEPT ![w] = p],
         pc[w] \in Holding <=> p \in Holding, UNCHANGED <<semWorks, sem, counted>>
  PROVE  Phase'
<1>1. \A v \in Workers : pc'[v] \in Holding <=> pc[v] \in Holding
  BY DEF Types
<1> HIDE DEF Holding
<1> QED BY <1>1 DEF Phase

\* The semaphore and the counted connection stay together.
LEMMA PhaseStep == Types /\ Owned /\ Phase /\ [Next]_vars => Phase'
<1> SUFFICES ASSUME Types, Owned, Phase, [Next]_vars PROVE Phase'
  OBVIOUS
<1> USE DEF shmVars
<1>1. CASE Quiet
  BY <1>1 DEF Quiet, Phase
<1>2. ASSUME NEW c \in Conns, Server(c) PROVE Phase'
  BY <1>2 DEF Server, Phase
<1>3. ASSUME NEW w \in Workers, DoCallGet(w) PROVE Phase'
  <2>1. pc' = [pc EXCEPT ![w] = "read"] /\ pc[w] = "idle"
        /\ UNCHANGED <<semWorks, sem, counted>>
    BY <1>3 DEF DoCallGet, Begin, Busy
  <2> QED BY <2>1, PhaseKept DEF Holding
<1>4. ASSUME NEW w \in Workers, DoCallEnd(w) PROVE Phase'
  <2>1. pc' = [pc EXCEPT ![w] = "idle"] /\ pc[w] = "end"
        /\ UNCHANGED <<semWorks, sem, counted>>
    BY <1>4 DEF DoCallEnd, Finish
  <2> QED BY <2>1, PhaseKept DEF Holding
<1>5. ASSUME NEW w \in Workers, NEW p \in PcStates, Moves(w, p) PROVE Phase'
  <2>1. pc' = [pc EXCEPT ![w] = p] /\ pc[w] \notin Holding /\ p \notin Holding
        /\ UNCHANGED <<semWorks, sem, counted>>
    BY <1>5 DEF Moves
  <2> QED BY <2>1, PhaseKept
<1>6. ASSUME NEW w \in Workers, NEW p \in Holding, Wait, pc[w] \notin Holding,
             pc' = [pc EXCEPT ![w] = p], UNCHANGED <<semWorks, counted>>
      PROVE  Phase'
  <2>1. \A v \in Workers : pc'[v] \in Holding <=> v = w \/ pc[v] \in Holding
    BY <1>6 DEF Types
  <2>2. CASE semWorks
    <3>1. sem = 1 /\ counted = {} /\ (\A v \in Workers : pc[v] \notin Holding) /\ sem' = 0
      BY <1>6, <2>2 DEF Phase, Wait
    <3>2. \A v \in Workers : pc'[v] \in Holding <=> v = w
      BY <2>1, <3>1
    <3> HIDE DEF Holding
    <3> QED BY <1>6, <3>1, <3>2 DEF Phase
  <2> QED BY <1>6, <2>2 DEF Phase
<1>7. ASSUME NEW w \in Workers, StatisticsRead(w) PROVE Phase'
  <2>1. /\ pc[w] \in Holding /\ pc' = [pc EXCEPT ![w] = "send"] /\ "send" \notin Holding
        /\ sem' = (IF semWorks THEN sem + 1 ELSE sem) /\ UNCHANGED <<semWorks, counted>>
    BY <1>7 DEF StatisticsRead, Post, Holding
  <2>2. CASE semWorks
    <3>1. /\ sem = 0 /\ counted = {}
          /\ \A v \in Workers : pc[v] \in Holding => v = w
      BY <2>1, <2>2 DEF Phase
    <3>2. sem' = 1 /\ \A v \in Workers : pc'[v] \notin Holding
      BY <2>1, <2>2, <3>1 DEF Types
    <3> HIDE DEF Holding
    <3> QED BY <2>1, <3>1, <3>2 DEF Phase
  <2> QED BY <2>1, <2>2 DEF Phase
<1>8. ASSUME NEW w \in Workers, LoadRequests(w) PROVE Phase'
  <2>1. /\ pc[w] \in Holding /\ "store_requests" \in Holding
        /\ pc' = [pc EXCEPT ![w] = "store_requests"] /\ UNCHANGED <<semWorks, sem, counted>>
    BY <1>8 DEF LoadRequests, Holding
  <2> QED BY <2>1, PhaseKept
<1>9. ASSUME NEW w \in Workers, StoreRequests(w) PROVE Phase'
  <2>1. /\ pc[w] \in Holding /\ pc' = [pc EXCEPT ![w] = "load_code"]
        /\ "load_code" \notin Holding /\ pc[w] # "idle"
        /\ counted' = counted \union {connfd[w]} /\ UNCHANGED <<semWorks, sem>>
    BY <1>9 DEF StoreRequests, Holding
  <2>2. connfd[w] \in Conns
    BY <2>1 DEF Owned, Types, Busy
  <2>3. CASE semWorks
    <3>1. sem = 0 /\ counted = {} /\ \A v \in Workers : pc[v] \in Holding => v = w
      BY <2>1, <2>3 DEF Phase
    <3>2. sem' = 0 /\ counted' = {connfd[w]} /\ \A v \in Workers : pc'[v] \notin Holding
      BY <2>1, <3>1 DEF Types
    <3> HIDE DEF Holding
    <3> QED BY <2>2, <3>2 DEF Phase
  <2> QED BY <2>1, <2>3 DEF Phase
<1>10. ASSUME NEW w \in Workers, LoadCode(w) \/ StoreCode(w) PROVE Phase'
  <2>1. /\ pc[w] \notin Holding /\ UNCHANGED <<semWorks, sem, counted>>
        /\ \/ pc' = [pc EXCEPT ![w] = "store_code"]
           \/ pc' = [pc EXCEPT ![w] = after[w]]
    BY <1>10 DEF LoadCode, StoreCode, Holding
  <2>2. "store_code" \notin Holding /\ after[w] \notin Holding
    BY DEF Types, Holding
  <2> QED BY <2>1, <2>2, PhaseKept
<1>11. ASSUME NEW w \in Workers, StatisticsWait(w) PROVE Phase'
  BY <1>6, <1>11 DEF StatisticsWait, Holding
<1>12. ASSUME NEW w \in Workers, WriteCodeWait(w) PROVE Phase'
  BY <1>6, <1>12 DEF WriteCodeWait, Holding
<1> QED BY <1>1, <1>2, <1>3, <1>4, <1>5, <1>7, <1>8, <1>9, <1>10, <1>11, <1>12, NextCases
        DEF WriteCode

-----------------------------------------------------------------------------
\* A step in which no thread comes between its two counters, or leaves the place.
LEMMA ClassedKept ==
  ASSUME counted' = counted,
         \A v \in Workers : /\ pc'[v] \in Between <=> pc[v] \in Between
                            /\ pc[v] \in Between => connfd'[v] = connfd[v]
  PROVE  Classed' = Classed
<1> HIDE DEF Between
<1> QED BY DEF Classed

\* No counter ever exceeds what was counted.
LEMMA CountStep == Types /\ Owned /\ HasClass /\ Counts /\ [Next]_vars => Counts'
<1> SUFFICES ASSUME Types, Owned, HasClass, Counts, [Next]_vars PROVE Counts'
  OBVIOUS
<1> USE DEF connVars, shmVars, localVars
<1>0. /\ IsFiniteSet(counted) /\ IsFiniteSet(Classed)
      /\ Cardinality(counted) \in Nat /\ Cardinality(Classed) \in Nat
  BY AnswerAssumption, FS_Subset, FS_CardinalityType DEF Owned, Types, Classed
<1>a. ASSUME NEW w \in Workers, NEW p, pc' = [pc EXCEPT ![w] = p],
             p \notin {"store_requests", "store_code"}, pc[w] \notin Between, p \notin Between,
             \A v \in Workers : total'[v] <= Cardinality(counted),
             \A v \in Workers : v # w => connfd'[v] = connfd[v],
             UNCHANGED <<requests, codes, reg, counted>>
      PROVE  Counts'
  <2>1. \A v \in Workers : (v # w => pc'[v] = pc[v]) /\ (v = w => pc'[v] = p)
    BY <1>a DEF Types
  <2>2. Classed' = Classed
    BY <1>a, <2>1, ClassedKept
  <2> QED BY <1>a, <2>1, <2>2 DEF Counts
<1>1. CASE Quiet
  <2>1. Classed' = Classed
    BY <1>1 DEF Quiet, Classed
  <2> QED BY <1>1, <2>1 DEF Quiet, Counts
<1>2. ASSUME NEW c \in Conns, Server(c) PROVE Counts'
  <2>1. Classed' = Classed
    BY <1>2 DEF Server, Queue!FifoPut, Classed
  <2> QED BY <1>2, <2>1 DEF Server, Counts
<1>3. ASSUME NEW w \in Workers, DoCallGet(w) PROVE Counts'
  <2>1. /\ pc[w] = "idle" /\ pc' = [pc EXCEPT ![w] = "read"]
        /\ \A v \in Workers : v # w => connfd'[v] = connfd[v]
        /\ UNCHANGED <<requests, codes, reg, total, counted>>
    BY <1>3 DEF Types, DoCallGet, Queue!FifoGet, Begin, Busy
  <2> QED BY <2>1, <1>a DEF Counts, Between
<1>4. ASSUME NEW w \in Workers, DoCallEnd(w) PROVE Counts'
  <2>1. /\ pc[w] = "end" /\ pc' = [pc EXCEPT ![w] = "idle"]
        /\ \A v \in Workers : v # w => connfd'[v] = connfd[v]
        /\ UNCHANGED <<requests, codes, reg, total, counted>>
    BY <1>4 DEF Types, DoCallEnd, Queue!FifoAsk, Finish
  <2> QED BY <2>1, <1>a DEF Counts, Between
<1>5. ASSUME NEW w \in Workers, NEW p \in PcStates, Moves(w, p) PROVE Counts'
  <2>1. /\ pc[w] \notin Between /\ p \notin Between /\ p \notin {"store_requests", "store_code"}
        /\ pc' = [pc EXCEPT ![w] = p]
        /\ \A v \in Workers : connfd'[v] = connfd[v]
        /\ UNCHANGED <<requests, codes, reg, counted>>
    BY <1>5 DEF Moves, Holding, Between
  <2>2. \A v \in Workers : total'[v] = total[v] \/ total'[v] = -1
    BY <1>5 DEF Moves
  <2>3. \A v \in Workers : total'[v] <= Cardinality(counted)
    BY <1>0, <2>2 DEF Counts
  <2> QED BY <2>1, <2>3, <1>a
<1>6. ASSUME NEW w \in Workers, StatisticsWait(w) \/ WriteCodeWait(w) PROVE Counts'
  <2>1. /\ pc[w] \notin Between /\ UNCHANGED <<connfd, requests, codes, reg, total, counted>>
        /\ \/ pc' = [pc EXCEPT ![w] = "stat_read"]
           \/ pc' = [pc EXCEPT ![w] = "load_requests"]
    BY <1>6 DEF StatisticsWait, WriteCodeWait, Between
  <2>2. "stat_read" \notin Between /\ "load_requests" \notin Between
    BY DEF Between
  <2> QED BY <2>1, <2>2, <1>a DEF Counts
<1>7. ASSUME NEW w \in Workers, StatisticsRead(w) PROVE Counts'
  <2>1. /\ pc[w] \notin Between /\ "send" \notin Between /\ pc' = [pc EXCEPT ![w] = "send"]
        /\ UNCHANGED <<connfd, requests, codes, reg, counted>>
    BY <1>7 DEF StatisticsRead, Between
  <2>2. \A v \in Workers : total'[v] <= Cardinality(counted)
    BY <1>7 DEF StatisticsRead, Counts, Types
  <2> QED BY <2>1, <2>2, <1>a
<1>8. ASSUME NEW w \in Workers, LoadRequests(w) PROVE Counts'
  <2>1. \A v \in Workers : /\ v # w => pc'[v] = pc[v] /\ reg'[v] = reg[v]
                           /\ v = w => /\ pc'[v] = "store_requests" /\ reg'[v] = requests
                                       /\ pc[v] = "load_requests"
    BY <1>8 DEF Types, LoadRequests
  <2>2. UNCHANGED <<connfd, requests, codes, total, counted>>
    BY <1>8 DEF LoadRequests
  <2>3. Classed' = Classed
    BY <2>1, <2>2, ClassedKept DEF Between
  <2> QED BY <2>1, <2>2, <2>3 DEF Counts
<1>9. ASSUME NEW w \in Workers, StoreRequests(w) PROVE Counts'
  <2> DEFINE c == connfd[w]
  <2>1. /\ pc[w] = "store_requests" /\ requests' = reg[w] + 1
        /\ counted' = counted \union {c} /\ UNCHANGED <<connfd, codes, total>>
    BY <1>9 DEF StoreRequests
  <2>2. \A v \in Workers : /\ v # w => pc'[v] = pc[v] /\ reg'[v] = reg[v]
                           /\ v = w => pc'[v] = "load_code"
    BY <1>9 DEF Types, StoreRequests
  <2>3. c \notin counted
    BY <2>1 DEF Owned, Early
  <2>4. Cardinality(counted') = Cardinality(counted) + 1
    BY <1>0, <2>1, <2>3, FS_AddElement
  <2>5. Classed' = Classed
    <3>1. \A v \in Workers : pc'[v] \in Between <=> v = w \/ pc[v] \in Between
      BY <2>2 DEF Between
    <3> HIDE DEF Between
    <3> QED BY <2>1, <2>3, <3>1 DEF Classed
  <2>6. reg[w] \in Nat /\ reg[w] <= Cardinality(counted)
    BY <2>1 DEF Types, Counts
  <2> HIDE DEF c
  <2>7. requests' <= Cardinality(counted')
    BY <2>1, <2>4, <2>6, <1>0
  <2>8. \A v \in Workers : total'[v] <= Cardinality(counted')
    <3> SUFFICES ASSUME NEW v \in Workers PROVE total[v] <= Cardinality(counted')
      BY <2>1
    <3>1. total[v] \in Int /\ total[v] <= Cardinality(counted)
      BY DEF Types, Counts
    <3> QED BY <3>1, <2>4, <1>0
  <2>9. \A v \in Workers : pc'[v] = "store_requests" => reg'[v] <= Cardinality(counted')
    <3> SUFFICES ASSUME NEW v \in Workers, pc'[v] = "store_requests"
                 PROVE  reg'[v] <= Cardinality(counted')
      OBVIOUS
    <3>1. reg'[v] = reg[v] /\ reg[v] \in Nat /\ reg[v] <= Cardinality(counted)
      BY <2>2 DEF Types, Counts
    <3> QED BY <3>1, <2>4, <1>0
  <2>10. \A v \in Workers : pc'[v] = "store_code" => reg'[v] <= Cardinality(Classed')
    BY <2>2, <2>5 DEF Counts
  <2> QED BY <2>1, <2>5, <2>7, <2>8, <2>9, <2>10 DEF Counts
<1>10. ASSUME NEW w \in Workers, LoadCode(w) PROVE Counts'
  <2>1. \A v \in Workers : /\ v # w => pc'[v] = pc[v] /\ reg'[v] = reg[v]
                           /\ v = w => /\ pc'[v] = "store_code" /\ reg'[v] = codes[class[w]]
                                       /\ pc[v] = "load_code"
    BY <1>10 DEF Types, LoadCode
  <2>2. UNCHANGED <<connfd, requests, codes, total, counted>>
    BY <1>10 DEF LoadCode
  <2>3. Classed' = Classed
    BY <2>1, <2>2, ClassedKept DEF Between
  <2>4. codes[class[w]] <= Cardinality(Classed)
    BY <1>10 DEF LoadCode, HasClass, Coded, Counts
  <2> QED BY <2>1, <2>2, <2>3, <2>4 DEF Counts
<1>11. ASSUME NEW w \in Workers, StoreCode(w) PROVE Counts'
  <2> DEFINE c == connfd[w]
  <2>1. /\ pc[w] = "store_code" /\ codes' = [codes EXCEPT ![class[w]] = reg[w] + 1]
        /\ UNCHANGED <<connfd, requests, total, counted>>
    BY <1>11 DEF StoreCode
  <2>2. \A v \in Workers : /\ v # w => pc'[v] = pc[v] /\ reg'[v] = reg[v]
                           /\ v = w => pc'[v] \in {"end", "body"}
    BY <1>11 DEF Types, StoreCode
  <2>3. c \in counted /\ \A v \in Workers : v # w /\ pc[v] \in Between => connfd[v] # c
    BY <2>1 DEF Owned, Early, Between, Busy
  <2>4. Classed' = Classed \union {c} /\ c \notin Classed
    <3>1. w \in Workers /\ pc[w] \in Between /\ pc'[w] \notin Between
      BY <2>1, <2>2 DEF Between
    <3>2. \A v \in Workers : pc'[v] \in Between <=> v # w /\ pc[v] \in Between
      BY <2>2, <3>1
    <3> HIDE DEF Between
    <3> QED BY <2>1, <2>3, <3>1, <3>2 DEF Classed
  <2>5. Cardinality(Classed') = Cardinality(Classed) + 1
    BY <1>0, <2>4, FS_AddElement
  <2> HIDE DEF c
  <2>6. reg[w] \in Nat /\ reg[w] <= Cardinality(Classed)
    BY <2>1 DEF Types, Counts
  <2>7. \A k \in Class : codes'[k] <= Cardinality(Classed')
    <3> SUFFICES ASSUME NEW k \in Class PROVE codes'[k] <= Cardinality(Classed')
      OBVIOUS
    <3> HIDE DEF Class
    <3>1. codes[k] \in Nat /\ codes[k] <= Cardinality(Classed)
      BY DEF Types, Counts
    <3>2. codes'[k] = codes[k] \/ codes'[k] = reg[w] + 1
      BY <2>1 DEF Types
    <3> QED BY <3>1, <3>2, <2>5, <2>6, <1>0
  <2>8. \A v \in Workers : pc'[v] = "store_code" => reg'[v] <= Cardinality(Classed')
    <3> SUFFICES ASSUME NEW v \in Workers, pc'[v] = "store_code"
                 PROVE  reg'[v] <= Cardinality(Classed')
      OBVIOUS
    <3>1. reg'[v] = reg[v] /\ reg[v] \in Nat /\ reg[v] <= Cardinality(Classed)
      BY <2>2 DEF Types, Counts
    <3> QED BY <3>1, <2>5, <1>0
  <2>9. \A v \in Workers : pc'[v] = "store_requests" => reg'[v] <= Cardinality(counted')
    BY <2>1, <2>2 DEF Counts
  <2> QED BY <2>1, <2>7, <2>8, <2>9 DEF Counts
<1> QED BY <1>1, <1>2, <1>3, <1>4, <1>5, <1>6, <1>7, <1>8, <1>9, <1>10, <1>11, NextCases
        DEF WriteCode

-----------------------------------------------------------------------------
\* Who is done with a connection has counted it, and gives it away.
LEMMA DoneStep == Types /\ Owned /\ Done /\ [Next]_vars => Done'
<1> SUFFICES ASSUME Types, Owned, Done, [Next]_vars PROVE Done'
  OBVIOUS
<1> USE DEF connVars
<1>1. ASSUME NEW w \in Workers, DoCallGet(w) PROVE Done'
  <2>1. /\ Len(items) \in Nat /\ Len(items) # 0 /\ Head(items) = items[1]
        /\ connfd' = [connfd EXCEPT ![w] = Head(items)] /\ UNCHANGED <<counted, answered>>
    BY <1>1, EmptySeq DEF Types, DoCallGet, Queue!FifoGet, Begin
  <2>2. Head(items) \notin counted
    BY <2>1 DEF Owned
  <2> QED BY <2>1, <2>2 DEF Types, Done
<1>2. ASSUME NEW w \in Workers, DoCallEnd(w) PROVE Done'
  <2>1. /\ pc[w] = "end" /\ connfd' = [connfd EXCEPT ![w] = Nil]
        /\ answered' = answered \union {connfd[w]} /\ counted' = counted
    BY <1>2 DEF DoCallEnd, Queue!FifoAsk, Finish
  <2>2. connfd[w] \in counted /\ Nil \notin counted
    BY <2>1, AnswerAssumption DEF Types, Owned, Busy, Early
  <2>3. \A v \in Workers : v # w => connfd[v] # connfd[w]
    BY <2>1, <2>2, AnswerAssumption DEF Owned, Busy
  <2> QED BY <2>1, <2>2, <2>3 DEF Types, Done
<1>3. ASSUME counted \subseteq counted', connfd' = connfd, answered' = answered PROVE Done'
  BY <1>3 DEF Done
<1>4. CASE Quiet \/ \E w \in Workers, p \in PcStates : Moves(w, p)
  BY <1>3, <1>4 DEF Quiet, Moves
<1>5. ASSUME NEW c \in Conns, Server(c) PROVE Done'
  BY <1>3, <1>5 DEF Server, Queue!FifoPut
<1>6. ASSUME NEW w \in Workers, StatisticsWait(w) \/ StatisticsRead(w) \/ WriteCode(w)
      PROVE  Done'
  BY <1>3, <1>6 DEF StatisticsWait, StatisticsRead, WriteCode, WriteCodeWait,
                    LoadRequests, StoreRequests, LoadCode, StoreCode
<1> QED BY <1>1, <1>2, <1>4, <1>5, <1>6, NextCases

\* sem_wait and sem_post that fail leave the semaphore as it is.
LEMMA BrokenStep == Types /\ Broken /\ [Next]_vars => Broken'
<1> SUFFICES ASSUME Types, Broken, [Next]_vars PROVE Broken'
  OBVIOUS
<1> USE DEF shmVars
<1>1. ASSUME semWorks' = semWorks, ~ semWorks => sem' = sem PROVE Broken'
  BY <1>1 DEF Broken
<1>2. CASE Quiet \/ \E w \in Workers, p \in PcStates : Moves(w, p)
  BY <1>1, <1>2 DEF Quiet, Moves
<1>3. CASE \E c \in Conns : Server(c)
  BY <1>1, <1>3 DEF Server
<1>4. ASSUME NEW w \in Workers, DoCallGet(w) \/ DoCallEnd(w) PROVE Broken'
  BY <1>1, <1>4 DEF DoCallGet, DoCallEnd, Begin, Finish
<1>5. ASSUME NEW w \in Workers, StatisticsWait(w) \/ StatisticsRead(w) \/ WriteCode(w)
      PROVE  Broken'
  BY <1>1, <1>5 DEF StatisticsWait, StatisticsRead, WriteCode, WriteCodeWait, Wait, Post,
                    LoadRequests, StoreRequests, LoadCode, StoreCode
<1> QED BY <1>2, <1>3, <1>4, <1>5, NextCases

-----------------------------------------------------------------------------
THEOREM InductiveInvariant == Spec => []IInv
<1>1. IInv /\ [Next]_vars => IInv'
  BY TypesStep, OwnedStep, PhaseStep, CountStep, DoneStep, BrokenStep DEF IInv
<1> QED BY InitIInv, <1>1, PTL DEF Spec

\* Every variable has its type: among others, the semaphore is 0 or 1, and a
\* thread has a connection exactly while it is busy.
THEOREM TypeCorrect == Spec => []TypeOK
<1>1. IInv => TypeOK
  <2> SUFFICES ASSUME IInv PROVE TypeOK
    OBVIOUS
  <2>1. sem \in {0, 1}
    BY DEF IInv, Phase, Broken
  <2>2. counted \in SUBSET Conns /\ answered \in SUBSET Conns
    BY DEF IInv, Types, Owned, Done
  <2>3. pc \in [Workers -> {"idle", "read", "dispatch", "stat_wait", "stat_read", "send",
                            "wait", "load_requests", "store_requests", "load_code",
                            "store_code", "body", "end"}]
    BY DEF IInv, Types, PcStates, Early, Between
  <2> HIDE DEF Class
  <2>4. \A w \in Workers : Busy(w) <=> connfd[w] # Nil
    BY DEF IInv, Owned
  <2> QED BY <2>1, <2>2, <2>3, <2>4 DEF IInv, Types, TypeOK, AnswerTypeOK
<1> QED BY InductiveInvariant, <1>1, PTL

\* Whatever route answers a connection, it is counted before its answer ends, and
\* no thread has it afterwards.
THEOREM AnsweredIsCountedAlways == Spec => []AnsweredIsCounted
<1>1. IInv => AnsweredIsCounted
  BY DEF IInv, Done, AnsweredIsCounted
<1> QED BY InductiveInvariant, <1>1, PTL

\* A working semaphore admits one connection to the counters in the whole life
\* of the process, however many threads and connections there are: write_code
\* waits for it and never posts it.
THEOREM CountedOnceAlways == Spec => []CountedOnce
<1>1. IInv => CountedOnce
  <2> SUFFICES ASSUME IInv, semWorks PROVE CountedOnce
    BY DEF CountedOnce
  <2> DEFINE H == {w \in Workers : pc[w] \in Holding}
  <2>1. sem + Cardinality(counted) + Cardinality(H) = 1
    <3>1. CASE sem = 1 /\ counted = {} /\ H = {}
      BY <3>1, FS_EmptySet
    <3>2. CASE sem = 0 /\ counted = {} /\ \E w \in Workers : H = {w}
      BY <3>2, FS_EmptySet, FS_Singleton
    <3>3. CASE sem = 0 /\ H = {} /\ \E c \in Conns : counted = {c}
      BY <3>3, FS_EmptySet, FS_Singleton
    <3>4. Phase
      BY DEF IInv
    <3> HIDE DEF Holding
    <3>5. \/ sem = 1 /\ counted = {} /\ H = {}
          \/ sem = 0 /\ counted = {} /\ \E w \in Workers : H = {w}
          \/ sem = 0 /\ H = {} /\ \E c \in Conns : counted = {c}
      BY <3>4 DEF Phase
    <3> QED BY <3>1, <3>2, <3>3, <3>5
  <2> QED BY <2>1 DEF CountedOnce, Holding
<1> QED BY InductiveInvariant, <1>1, PTL

\* The counters never claim more than was counted, however many threads lose
\* each other's updates where the semaphore does not work.
THEOREM NeverOvercountsAlways == Spec => []NeverOvercounts
<1>1. IInv => NeverOvercounts
  <2> SUFFICES ASSUME IInv PROVE NeverOvercounts
    OBVIOUS
  <2> USE DEF IInv
  <2>1. IsFiniteSet(counted) /\ Classed \subseteq counted
    BY AnswerAssumption, FS_Subset DEF Owned, Types, Classed
  <2>2. /\ Cardinality(counted) \in Nat /\ Cardinality(Classed) \in Nat
        /\ Cardinality(Classed) <= Cardinality(counted)
    BY <2>1, FS_Subset, FS_CardinalityType
  <2> HIDE DEF Class
  <2>3. \A k \in Class : codes[k] \in Nat /\ codes[k] <= Cardinality(Classed)
    BY DEF Types, Counts
  <2>4. \A k \in Class : codes[k] <= Cardinality(counted)
    BY <2>2, <2>3
  <2> QED BY <2>4 DEF NeverOvercounts, Counts
<1> QED BY InductiveInvariant, <1>1, PTL
-----------------------------------------------------------------------------
\* The servers without a queue.  A thread is given its connection by accept, so that
\* nothing but the thread and the descriptor table is left to look at.
Fd == INSTANCE Descriptors

\* Where a thread of the two servers with statistics has counted its connection.
Past == Between \union {"end", "body"}

Kinds == {"conn", "file", "dir"}

ServerTypes ==
  /\ program \in {"thread", "prethread", "first"}
  /\ accepted \in SUBSET Conns /\ connfd \in [Workers -> Conns \union {Nil}]
  /\ pc \in [Workers -> PcStates] /\ after \in [Workers -> {"end", "body"}]
  /\ open \in [Kinds -> SUBSET Conns] /\ lost \in SUBSET accepted

\* A connection that was accepted is with one thread, or answered, or lost.
Given ==
  /\ \A w \in Workers : Busy(w) <=> connfd[w] # Nil
  /\ \A w \in Workers : Busy(w) => connfd[w] \in accepted \ (answered \union lost)
  /\ \A v, w \in Workers : Busy(v) /\ connfd[v] = connfd[w] => v = w
  /\ answered \subseteq accepted /\ answered \intersect lost = {}

\* What was answered was counted, where there are statistics.
CountedFirst ==
  program # "first" => /\ answered \subseteq counted
                       /\ \A w \in Workers : pc[w] \in Past => connfd[w] \in counted

\* Which connections are open: those in use and those lost, or all there ever were.
OpenConns ==
  /\ program = "thread" =>
       \A c \in Conns : c \in open["conn"] <=> c \in lost \/ \E w \in Workers : connfd[w] = c
  /\ program # "thread" => open["conn"] = accepted

\* Thread w may have a directory open.
Listing(w) == after[w] = "body" /\ pc[w] \in Coded \union {"body"}

OpenBodies ==
  /\ \A c \in open["dir"] : \E w \in Workers : connfd[w] = c /\ Listing(w)
  /\ \A c \in open["file"] : c \in answered \/ \E w \in Workers : connfd[w] = c
  /\ program = "first" => open["dir"] = {}

OpenFds == OpenConns /\ OpenBodies /\ Fd!NOpen <= MaxFds

ServersIInv == ServerTypes /\ Given /\ CountedFirst /\ OpenFds

\* Numbers of descriptors are numbers.
LEMMA Counted ==
  ASSUME ServerTypes
  PROVE  /\ IsFiniteSet(accepted)
         /\ \A kind \in Kinds : IsFiniteSet(open[kind]) /\ Cardinality(open[kind]) \in Nat
<1>1. IsFiniteSet(accepted) /\ \A kind \in Kinds : IsFiniteSet(open[kind])
  BY AnswerAssumption, FS_Subset DEF ServerTypes
<1> QED
  BY <1>1, FS_CardinalityType

\* All modules count as this one does.
LEMMA SameCardinality ==
  \A S : /\ Fd!Cardinality(S) = Cardinality(S)
         /\ T!Fd!Cardinality(S) = Cardinality(S)
         /\ P!Fd!Cardinality(S) = Cardinality(S)
         /\ F!Fd!Cardinality(S) = Cardinality(S)
         /\ F!PerConnection!Fd!Cardinality(S) = Cardinality(S)
BY DEF Cardinality, IsFiniteSet, Fd!Cardinality, Fd!IsFiniteSet,
       T!Fd!Cardinality, T!Fd!IsFiniteSet, P!Fd!Cardinality, P!Fd!IsFiniteSet,
       F!Fd!Cardinality, F!Fd!IsFiniteSet, F!PerConnection!Fd!Cardinality,
       F!PerConnection!Fd!IsFiniteSet

\* They mean the same by the steps of the descriptor table.
LEMMA SameOpens ==
  ASSUME NEW kind, NEW c
  PROVE  /\ T!Fd!Opens(kind, c) <=> Fd!Opens(kind, c)
         /\ P!Fd!Opens(kind, c) <=> Fd!Opens(kind, c)
         /\ F!Fd!Opens(kind, c) <=> Fd!Opens(kind, c)
         /\ F!PerConnection!Fd!Opens(kind, c) <=> Fd!Opens(kind, c)
BY SameCardinality DEF
  Fd!Opens, Fd!HasFd, Fd!NOpen, T!Fd!Opens, T!Fd!HasFd, T!Fd!NOpen, P!Fd!Opens, P!Fd!HasFd,
  P!Fd!NOpen, F!Fd!Opens, F!Fd!HasFd, F!Fd!NOpen, F!PerConnection!Fd!Opens,
  F!PerConnection!Fd!HasFd, F!PerConnection!Fd!NOpen

LEMMA SameOpensFor ==
  ASSUME NEW w, NEW kind
  PROVE  /\ T!Fd!OpensFor(w, kind) <=> Fd!OpensFor(w, kind)
         /\ P!Fd!OpensFor(w, kind) <=> Fd!OpensFor(w, kind)
         /\ F!Fd!OpensFor(w, kind) <=> Fd!OpensFor(w, kind)
BY SameOpens DEF Fd!OpensFor, T!Fd!OpensFor, P!Fd!OpensFor, F!Fd!OpensFor

LEMMA SameCloses ==
  ASSUME NEW w
  PROVE  /\ T!Fd!ClosesDir(w) <=> Fd!ClosesDir(w)
         /\ P!Fd!ClosesDir(w) <=> Fd!ClosesDir(w)
BY DEF Fd!ClosesDir, Fd!Closes, T!Fd!ClosesDir, T!Fd!Closes, P!Fd!ClosesDir, P!Fd!Closes

\* There are never more descriptors than there can be.
LEMMA OpensBounded ==
  ASSUME ServersIInv, NEW kind \in Kinds, NEW c \in Conns, Fd!Opens(kind, c)
  PROVE  open' \in [Kinds -> SUBSET Conns] /\ Fd!NOpen' <= MaxFds
<1>1. open' = [open EXCEPT ![kind] = @ \union {c}] /\ open \in [Kinds -> SUBSET Conns]
  BY DEF Fd!Opens, ServersIInv, ServerTypes
<1>2. \A k \in Kinds : IsFiniteSet(open[k]) /\ Cardinality(open[k]) \in Nat
  BY Counted DEF ServersIInv
<1>3. /\ Cardinality(open[kind] \union {c}) \in Nat
      /\ Cardinality(open[kind] \union {c}) <= Cardinality(open[kind]) + 1
  <2>1. Cardinality(open[kind] \union {c}) =
          IF c \in open[kind] THEN Cardinality(open[kind]) ELSE Cardinality(open[kind]) + 1
    BY <1>2, FS_AddElement
  <2>2. Cardinality(open[kind]) \in Nat
    BY <1>2
  <2> QED
    BY <2>1, <2>2
<1>4. \A k \in Kinds : open'[k] = IF k = kind THEN open[kind] \union {c} ELSE open[k]
  BY <1>1
<1>5. /\ \A k \in Kinds : Cardinality(open'[k]) \in Nat
      /\ \A k \in Kinds : k # kind => Cardinality(open'[k]) = Cardinality(open[k])
      /\ Cardinality(open'[kind]) <= Cardinality(open[kind]) + 1
  BY <1>2, <1>3, <1>4
<1>6. Cardinality(open["conn"]) + Cardinality(open["file"]) + Cardinality(open["dir"]) < MaxFds
  BY SameCardinality DEF Fd!Opens, Fd!HasFd, Fd!NOpen
<1>7. Cardinality(open'["conn"]) + Cardinality(open'["file"]) + Cardinality(open'["dir"])
        <= MaxFds
  BY <1>2, <1>5, <1>6, MaxFdsAssumption DEF Kinds
<1>8. Fd!NOpen' <= MaxFds
  BY <1>7, SameCardinality DEF Fd!NOpen
<1> QED
  BY <1>1, <1>8

LEMMA ClosesBounded ==
  ASSUME ServersIInv, NEW kind \in Kinds, NEW c, Fd!Closes(kind, c)
  PROVE  open' \in [Kinds -> SUBSET Conns] /\ Fd!NOpen' <= MaxFds
<1>1. open' = [open EXCEPT ![kind] = @ \ {c}] /\ open \in [Kinds -> SUBSET Conns]
  BY DEF Fd!Closes, ServersIInv, ServerTypes
<1>2. \A k \in Kinds : IsFiniteSet(open[k]) /\ Cardinality(open[k]) \in Nat
  BY Counted DEF ServersIInv
<1>3. /\ Cardinality(open[kind] \ {c}) \in Nat
      /\ Cardinality(open[kind] \ {c}) <= Cardinality(open[kind])
  BY <1>2, FS_Subset, FS_CardinalityType
<1>4. \A k \in Kinds : open'[k] = IF k = kind THEN open[kind] \ {c} ELSE open[k]
  BY <1>1
<1>5. \A k \in Kinds : /\ Cardinality(open'[k]) \in Nat
                       /\ Cardinality(open'[k]) <= Cardinality(open[k])
  BY <1>2, <1>3, <1>4
<1>6. Cardinality(open["conn"]) + Cardinality(open["file"]) + Cardinality(open["dir"]) <= MaxFds
  BY SameCardinality DEF ServersIInv, OpenFds, Fd!NOpen
<1>7. Cardinality(open'["conn"]) + Cardinality(open'["file"]) + Cardinality(open'["dir"])
        <= MaxFds
  BY <1>2, <1>5, <1>6, MaxFdsAssumption DEF Kinds
<1>8. Fd!NOpen' <= MaxFds
  BY <1>7, SameCardinality DEF Fd!NOpen
<1> QED
  BY <1>1, <1>8

LEMMA InitServersIInv == ServersInit => ServersIInv
<1> SUFFICES ASSUME ServersInit PROVE ServersIInv
  OBVIOUS
<1>1. /\ accepted = {} /\ connfd = [w \in Workers |-> Nil] /\ pc = [w \in Workers |-> "idle"]
      /\ after = [w \in Workers |-> "end"] /\ counted = {} /\ answered = {}
      /\ open = [kind \in Kinds |-> {}] /\ lost = {}
      /\ program \in {"thread", "prethread", "first"}
  BY DEF ServersInit, T!Init, P!Init, F!Init, F!PerConnection!Init, T!Thread!AnswerInit,
         P!Thread!AnswerInit, F!PerConnection!Thread!AnswerInit, T!Fd!NoneOpen, P!Fd!NoneOpen,
         F!PerConnection!Fd!NoneOpen, Kinds
<1>2. ServerTypes
  BY <1>1 DEF ServerTypes, PcStates
<1>3. Given /\ CountedFirst
  BY <1>1 DEF Given, CountedFirst, Busy, Past, Between
<1>4. OpenConns /\ OpenBodies
  BY <1>1, AnswerAssumption DEF OpenConns, OpenBodies, Kinds
<1>5. Fd!NOpen <= MaxFds
  BY <1>1, MaxFdsAssumption, SameCardinality, FS_EmptySet DEF Fd!NOpen, Kinds
<1> QED
  BY <1>2, <1>3, <1>4, <1>5 DEF ServersIInv, OpenFds

\* A thread goes on with its connection.
GoesOn(w) ==
  /\ Busy(w)
  /\ \E to \in PcStates \ {"idle"} :
       /\ pc' = [pc EXCEPT ![w] = to]
       /\ program # "first" /\ to \in Past => pc[w] \in Past \/ connfd[w] \in counted'
  /\ \E next \in {"end", "body"} : after' = [after EXCEPT ![w] = next]
  /\ counted \subseteq counted'
  /\ UNCHANGED <<accepted, connfd, answered>>

\* What becomes of the files and directories when it does.
OpensOrCloses(w) ==
  \/ UNCHANGED open /\ (Listing(w) => open["dir"] = {} \/ Listing(w)')
  \/ Fd!Opens("file", connfd[w]) /\ ~ Listing(w)
  \/ Fd!Opens("dir", connfd[w]) /\ Listing(w)'
  \/ Fd!Closes("dir", connfd[w])

\* It does so with every step of an answer.
LEMMA AnswerGoesOn ==
  ASSUME ServerTypes, NEW w \in Workers, Answer(w)
  PROVE  GoesOn(w)
<1> USE DEF connVars, shmVars, localVars
<1>1. ASSUME NEW where \in {"send", "dispatch"}, NEW code, NEW next \in {"end", "body"},
             Goto(w, where, code, next), pc[w] \in {"read", "dispatch"}
      PROVE  GoesOn(w)
  BY <1>1 DEF ServerTypes, Goto, GoesOn, Busy, PcStates, Early, Past, Between
<1>2. CASE ReadRequestLine(w) \/ RefuseMethod(w) \/ RefuseVersion(w) \/ LsVersionTwo(w)
           \/ ReqParser(w)
  BY <1>1, <1>2 DEF ReadRequestLine, RefuseMethod, RefuseVersion, LsVersionTwo, ReqParser,
                    Response, Stream
<1>3. ASSUME UNCHANGED <<accepted, connfd, counted, answered, after>>,
             NEW to \in PcStates \ {"idle"}, pc' = [pc EXCEPT ![w] = to], pc[w] # "idle",
             to \in Past => pc[w] \in Past
      PROVE  GoesOn(w)
  BY <1>3 DEF ServerTypes, GoesOn, Busy
<1>4. CASE Statistics(w) \/ StatisticsWait(w) \/ StatisticsRead(w)
  <2>1. \E to \in {"stat_wait", "stat_read", "send"} : pc' = [pc EXCEPT ![w] = to]
    BY <1>4 DEF Statistics, StatisticsWait, StatisticsRead
  <2>2. UNCHANGED <<accepted, connfd, counted, answered, after>> /\ pc[w] # "idle"
    BY <1>4 DEF Statistics, StatisticsWait, StatisticsRead
  <2> QED
    BY <1>3, <2>1, <2>2 DEF PcStates, Early, Past, Between
<1>5. CASE Send(w)
  BY <1>3, <1>5 DEF Send, PcStates, Early, Past, Between
<1>6. CASE WriteCodeWait(w) \/ LoadRequests(w)
  BY <1>3, <1>6 DEF WriteCodeWait, LoadRequests, PcStates, Early, Past, Between
<1>7. CASE StoreRequests(w)
  BY <1>7 DEF StoreRequests, ServerTypes, GoesOn, Busy, PcStates, Between
<1>8. CASE LoadCode(w)
  BY <1>3, <1>8 DEF LoadCode, PcStates, Past, Between
<1>9. CASE StoreCode(w)
  <2>1. after[w] \in {"end", "body"}
    BY DEF ServerTypes
  <2> QED
    BY <1>3, <1>9, <2>1 DEF StoreCode, PcStates, Past, Between
<1> QED
  BY <1>2, <1>4, <1>5, <1>6, <1>7, <1>8, <1>9 DEF Answer, WriteCode

LEMMA GoesOnKeeps ==
  ASSUME ServersIInv, NEW w \in Workers, GoesOn(w), OpensOrCloses(w),
         program = "first" => UNCHANGED open \/ Fd!Opens("file", connfd[w]),
         UNCHANGED <<lost, program>>
  PROVE  ServersIInv'
<1>1. PICK to \in PcStates \ {"idle"} :
        /\ pc' = [pc EXCEPT ![w] = to]
        /\ program # "first" /\ to \in Past => pc[w] \in Past \/ connfd[w] \in counted'
  BY DEF GoesOn
<1>2. UNCHANGED <<accepted, connfd, answered, lost, program>>
  BY DEF GoesOn
<1>c. connfd[w] \in Conns
  BY DEF GoesOn, ServersIInv, ServerTypes, Given
<1>o. open' \in [Kinds -> SUBSET Conns] /\ Fd!NOpen' <= MaxFds
  <2>1. CASE UNCHANGED open
    BY <2>1 DEF ServersIInv, ServerTypes, OpenFds, Fd!NOpen
  <2>2. CASE Fd!Opens("file", connfd[w]) \/ Fd!Opens("dir", connfd[w])
    BY <1>c, <2>2, OpensBounded DEF Kinds
  <2>3. CASE Fd!Closes("dir", connfd[w])
    BY <2>3, ClosesBounded DEF Kinds
  <2> QED
    BY <2>1, <2>2, <2>3 DEF OpensOrCloses
<1>3. ServerTypes'
  BY <1>1, <1>2, <1>o DEF ServersIInv, ServerTypes, GoesOn
<1>4. \A v \in Workers : Busy(v)' <=> Busy(v)
  BY <1>1 DEF ServersIInv, ServerTypes, GoesOn, Busy
<1>5. Given'
  BY <1>2, <1>4 DEF ServersIInv, Given
<1>6. ASSUME program # "first", NEW v \in Workers, pc'[v] \in Past PROVE connfd[v] \in counted'
  <2>1. CASE v = w
    BY <1>1, <1>6, <2>1 DEF ServersIInv, ServerTypes, CountedFirst, GoesOn
  <2>2. CASE v # w
    BY <1>1, <1>6, <2>2 DEF ServersIInv, ServerTypes, CountedFirst, GoesOn
  <2> QED
    BY <2>1, <2>2
<1>7. CountedFirst'
  BY <1>2, <1>6 DEF ServersIInv, CountedFirst, GoesOn
<1>8. OpenConns'
  <2>1. open'["conn"] = open["conn"]
    BY DEF OpensOrCloses, Fd!Opens, Fd!Closes, ServersIInv, ServerTypes, Kinds
  <2> QED
    BY <1>2, <2>1 DEF ServersIInv, OpenFds, OpenConns
<1>9. OpenBodies'
  <2>1. \A v \in Workers : v # w => (Listing(v) <=> Listing(v)')
    BY <1>1 DEF GoesOn, Listing, ServersIInv, ServerTypes
  <2>2. \A v \in Workers : connfd[v] = connfd[w] => v = w
    BY DEF GoesOn, ServersIInv, Given
  <2>3. \A c \in open'["dir"] : \E v \in Workers : connfd'[v] = c /\ Listing(v)'
    <3>1. CASE UNCHANGED open /\ (Listing(w) => open["dir"] = {} \/ Listing(w)')
      BY <1>2, <2>1, <3>1 DEF ServersIInv, OpenFds, OpenBodies
    <3>2. CASE Fd!Opens("file", connfd[w]) /\ ~ Listing(w)
      <4>1. open'["dir"] = open["dir"]
        BY <3>2 DEF Fd!Opens, ServersIInv, ServerTypes, Kinds
      <4> QED
        BY <1>2, <2>1, <3>2, <4>1 DEF ServersIInv, OpenFds, OpenBodies
    <3>3. CASE Fd!Opens("dir", connfd[w]) /\ Listing(w)'
      <4>1. open'["dir"] = open["dir"] \union {connfd[w]}
        BY <3>3 DEF Fd!Opens, ServersIInv, ServerTypes, Kinds
      <4> QED
        BY <1>2, <2>1, <3>3, <4>1 DEF ServersIInv, OpenFds, OpenBodies
    <3>4. CASE Fd!Closes("dir", connfd[w])
      <4>1. open'["dir"] = open["dir"] \ {connfd[w]}
        BY <3>4 DEF Fd!Closes, ServersIInv, ServerTypes, Kinds
      <4> QED
        BY <1>2, <2>1, <4>1 DEF ServersIInv, OpenFds, OpenBodies
    <3> QED
      BY <3>1, <3>2, <3>3, <3>4 DEF OpensOrCloses
  <2>4. open'["file"] \subseteq open["file"] \union {connfd[w]}
    BY DEF OpensOrCloses, Fd!Opens, Fd!Closes, ServersIInv, ServerTypes, Kinds
  <2>5. \A c \in open'["file"] : c \in answered' \/ \E v \in Workers : connfd'[v] = c
    BY <1>2, <2>4 DEF ServersIInv, OpenFds, OpenBodies
  <2>6. program = "first" => open'["dir"] = {}
    BY DEF Fd!Opens, ServersIInv, ServerTypes, OpenFds, OpenBodies, Kinds
  <2> QED
    BY <1>2, <2>3, <2>5, <2>6 DEF OpenBodies
<1> QED
  BY <1>3, <1>5, <1>7, <1>8, <1>9, <1>o DEF ServersIInv, OpenFds

\* accept returns a connection.
LEMMA AcceptOpens ==
  ASSUME ServersIInv, NEW c \in Conns \ accepted, Fd!Opens("conn", c)
  PROVE  /\ open' \in [Kinds -> SUBSET Conns] /\ Fd!NOpen' <= MaxFds
         /\ open'["conn"] = open["conn"] \union {c}
         /\ open'["file"] = open["file"] /\ open'["dir"] = open["dir"]
<1>1. open' \in [Kinds -> SUBSET Conns] /\ Fd!NOpen' <= MaxFds
  BY OpensBounded DEF Kinds
<1> QED
  BY <1>1 DEF Fd!Opens, ServersIInv, ServerTypes, Kinds

\* There is a thread for it.
LEMMA BeginKeeps ==
  ASSUME ServersIInv, NEW w \in Workers, NEW c \in Conns \ accepted, ~ Busy(w),
         pc' = [pc EXCEPT ![w] = "read"], connfd' = [connfd EXCEPT ![w] = c],
         accepted' = accepted \union {c}, Fd!Opens("conn", c),
         UNCHANGED <<after, counted, answered, lost, program>>
  PROVE  ServersIInv'
<1>1. ServerTypes'
  BY AcceptOpens DEF ServersIInv, ServerTypes, PcStates, Early
<1>2. c # Nil /\ connfd'[w] = c /\ pc'[w] = "read"
  BY AnswerAssumption DEF ServersIInv, ServerTypes
<1>3. \A v \in Workers : v # w => connfd'[v] = connfd[v] /\ pc'[v] = pc[v]
  BY DEF ServersIInv, ServerTypes
<1>4. \A v \in Workers : connfd[v] # c
  BY <1>2 DEF ServersIInv, Given
<1>5. Given'
  <2>1. \A v \in Workers : Busy(v)' <=> v = w \/ Busy(v)
    BY <1>2, <1>3 DEF Busy
  <2>2. c \notin answered \union lost
    BY DEF ServersIInv, ServerTypes, Given
  <2> QED
    BY <1>2, <1>3, <1>4, <2>1, <2>2 DEF ServersIInv, Given
<1>6. CountedFirst'
  BY <1>2, <1>3 DEF ServersIInv, CountedFirst, Past, Between
<1>7. connfd[w] = Nil /\ pc[w] = "idle"
  BY DEF ServersIInv, Given, Busy
<1>8. OpenConns'
  <2>1. CASE program = "thread"
    <3>1. \A d \in Conns : d # c =>
            ((\E v \in Workers : connfd'[v] = d) <=> (\E v \in Workers : connfd[v] = d))
      BY <1>2, <1>3, <1>7, AnswerAssumption
    <3> QED
      BY <1>2, <2>1, <3>1, AcceptOpens DEF ServersIInv, OpenFds, OpenConns
  <2>2. CASE program # "thread"
    BY <2>2, AcceptOpens DEF ServersIInv, OpenFds, OpenConns
  <2> QED
    BY <2>1, <2>2
<1>9. OpenBodies'
  <2>1. \A v \in Workers : Listing(v) => v # w /\ Listing(v)' /\ connfd'[v] = connfd[v]
    BY <1>3, <1>7 DEF Listing, Coded
  <2>2. \A v \in Workers : connfd[v] \in Conns => v # w /\ connfd'[v] = connfd[v]
    BY <1>3, <1>7, AnswerAssumption
  <2>3. open["file"] \subseteq Conns
    BY DEF ServersIInv, ServerTypes, Kinds
  <2> QED
    BY <2>1, <2>2, <2>3, AcceptOpens DEF ServersIInv, OpenFds, OpenBodies
<1> QED
  BY <1>1, <1>5, <1>6, <1>8, <1>9, AcceptOpens DEF ServersIInv, OpenFds

\* There is none.
LEMMA LoseKeeps ==
  ASSUME ServersIInv, NEW c \in Conns \ accepted, Fd!Opens("conn", c),
         accepted' = accepted \union {c}, lost' = lost \union {c},
         UNCHANGED <<pc, connfd, after, counted, answered, program>>
  PROVE  ServersIInv'
<1>1. ServerTypes'
  BY AcceptOpens DEF ServersIInv, ServerTypes
<1>2. \A v \in Workers : connfd[v] # c
  BY AnswerAssumption DEF ServersIInv, Given
<1>3. Given'
  BY <1>2 DEF ServersIInv, Given, Busy
<1>4. CountedFirst'
  BY DEF ServersIInv, CountedFirst
<1>5. OpenConns'
  BY AcceptOpens DEF ServersIInv, OpenFds, OpenConns
<1>6. OpenBodies'
  BY AcceptOpens DEF ServersIInv, OpenFds, OpenBodies, Listing
<1> QED
  BY <1>1, <1>3, <1>4, <1>5, <1>6, AcceptOpens DEF ServersIInv, OpenFds

\* A thread is done with its connection, and closes it or not.
LEMMA EndKeeps ==
  ASSUME ServersIInv, NEW w \in Workers, pc[w] = "end",
         pc' = [pc EXCEPT ![w] = "idle"], connfd' = [connfd EXCEPT ![w] = Nil],
         after' = [after EXCEPT ![w] = "end"], answered' = answered \union {connfd[w]},
         IF program = "thread" THEN Fd!Closes("conn", connfd[w]) ELSE UNCHANGED open,
         UNCHANGED <<accepted, counted, lost, program>>
  PROVE  ServersIInv'
<1>o. /\ open' \in [Kinds -> SUBSET Conns] /\ Fd!NOpen' <= MaxFds
      /\ open'["file"] = open["file"] /\ open'["dir"] = open["dir"]
      /\ program = "thread" => open'["conn"] = open["conn"] \ {connfd[w]}
  <2>1. CASE program = "thread"
    BY <2>1, ClosesBounded DEF Fd!Closes, ServersIInv, ServerTypes, Kinds
  <2>2. CASE program # "thread"
    BY <2>2 DEF ServersIInv, ServerTypes, OpenFds, Fd!NOpen
  <2> QED
    BY <2>1, <2>2
<1>1. ServerTypes'
  BY <1>o DEF ServersIInv, ServerTypes, PcStates
<1>2. /\ connfd[w] \in accepted \ (answered \union lost) /\ connfd[w] # Nil
      /\ connfd[w] \in Conns
      /\ \A v \in Workers : v # w => connfd[v] # connfd[w]
  BY DEF ServersIInv, ServerTypes, Given, Busy
<1>3. connfd'[w] = Nil /\ pc'[w] = "idle"
  BY DEF ServersIInv, ServerTypes
<1>4. \A v \in Workers : v # w => connfd'[v] = connfd[v] /\ pc'[v] = pc[v]
  BY DEF ServersIInv, ServerTypes
<1>5. Given'
  BY <1>2, <1>3, <1>4 DEF ServersIInv, Given, Busy
<1>6. CountedFirst'
  <2>1. program # "first" => connfd[w] \in counted
    BY DEF ServersIInv, CountedFirst, Past
  <2> QED
    BY <1>3, <1>4, <2>1 DEF ServersIInv, CountedFirst, Past, Between
<1>7. OpenConns'
  <2>1. CASE program = "thread"
    <3>1. \A c \in Conns : (\E v \in Workers : connfd'[v] = c) <=>
                           c # connfd[w] /\ \E v \in Workers : connfd[v] = c
      BY <1>2, <1>3, <1>4, AnswerAssumption
    <3> QED
      BY <1>2, <1>o, <2>1, <3>1 DEF ServersIInv, OpenFds, OpenConns
  <2>2. CASE program # "thread"
    BY <2>2 DEF ServersIInv, OpenFds, OpenConns
  <2> QED
    BY <2>1, <2>2
<1>8. OpenBodies'
  <2>1. \A v \in Workers : Listing(v) => v # w /\ Listing(v)' /\ connfd'[v] = connfd[v]
    BY <1>4 DEF Listing, Coded, ServersIInv, ServerTypes
  <2>2. \A v \in Workers : v # w => connfd'[v] = connfd[v]
    BY <1>4
  <2> QED
    BY <1>o, <2>1, <2>2 DEF ServersIInv, OpenFds, OpenBodies
<1> QED
  BY <1>1, <1>5, <1>6, <1>7, <1>8, <1>o DEF ServersIInv, OpenFds

\* What changes no more than whether the process runs.
LEMMA IdleKeeps ==
  ASSUME ServersIInv,
         UNCHANGED <<accepted, connfd, pc, after, counted, answered, open, lost, program>>
  PROVE  ServersIInv'
BY DEF ServersIInv, ServerTypes, Given, CountedFirst, OpenFds, OpenConns, OpenBodies, Listing, Busy,
       Fd!NOpen

\* The steps of an answer, with what they do to the descriptors.
OpeningAnswer(w) ==
  \/ /\ \/ ReadRequestLine(w) \/ RefuseMethod(w) \/ RefuseVersion(w) \/ Statistics(w)
        \/ StatisticsWait(w) \/ StatisticsRead(w) \/ WriteCode(w)
     /\ UNCHANGED open
  \/ LsVersionTwo(w) /\ Fd!OpensFor(w, "dir")
  \/ ReqParser(w) /\ Fd!OpensFor(w, "file")
  \/ Send(w) /\ Fd!ClosesDir(w)

LEMMA AnswerKeeps ==
  ASSUME ServersIInv, program # "first", NEW w \in Workers, OpeningAnswer(w),
         UNCHANGED <<lost, program>>
  PROVE  ServersIInv'
<1>1. Answer(w)
  BY DEF OpeningAnswer, Answer
<1>2. GoesOn(w)
  BY <1>1, AnswerGoesOn DEF ServersIInv
<1>3. pc \in [Workers -> PcStates] /\ after \in [Workers -> {"end", "body"}]
  BY DEF ServersIInv, ServerTypes
<1>4. ASSUME pc[w] \in {"read", "dispatch", "stat_wait", "stat_read"} PROVE ~ Listing(w)
  BY <1>4 DEF Listing, Coded
<1>5. CASE /\ \/ ReadRequestLine(w) \/ RefuseMethod(w) \/ RefuseVersion(w) \/ Statistics(w)
              \/ StatisticsWait(w) \/ StatisticsRead(w)
           /\ UNCHANGED open
  <2>1. ~ Listing(w)
    BY <1>4, <1>5 DEF ReadRequestLine, RefuseMethod, RefuseVersion, Statistics, StatisticsWait,
                      StatisticsRead
  <2> QED
    BY <1>2, <1>5, <2>1, GoesOnKeeps DEF OpensOrCloses
<1>6. CASE WriteCode(w) /\ UNCHANGED open
  <2>1. UNCHANGED after /\ (after[w] = "body" => pc'[w] \in Coded \union {"body"})
    BY <1>3, <1>6 DEF WriteCode, WriteCodeWait, LoadRequests, StoreRequests, LoadCode, StoreCode,
                      localVars, Coded
  <2>2. Listing(w) => Listing(w)'
    BY <2>1 DEF Listing
  <2> QED
    BY <1>2, <1>6, <2>2, GoesOnKeeps DEF OpensOrCloses
<1>7. CASE LsVersionTwo(w) /\ Fd!OpensFor(w, "dir")
  <2>1. ~ Listing(w) /\ (after'[w] = "body" => pc'[w] = "send")
    BY <1>3, <1>4, <1>7 DEF LsVersionTwo, Response, Stream, Goto
  <2>2. OpensOrCloses(w)
    BY <1>7, <2>1 DEF OpensOrCloses, Fd!OpensFor, Listing, Coded
  <2> QED
    BY <1>2, <2>2, GoesOnKeeps
<1>8. CASE ReqParser(w) /\ Fd!OpensFor(w, "file")
  <2>1. ~ Listing(w)
    BY <1>4, <1>8 DEF ReqParser
  <2>2. OpensOrCloses(w)
    BY <1>8, <2>1 DEF OpensOrCloses, Fd!OpensFor
  <2> QED
    BY <1>2, <2>2, GoesOnKeeps
<1>9. CASE Send(w) /\ Fd!ClosesDir(w)
  <2>1. pc[w] # "body" => UNCHANGED after /\ pc'[w] = "wait"
    BY <1>3, <1>9 DEF Send
  <2>2. OpensOrCloses(w)
    BY <1>9, <2>1 DEF OpensOrCloses, Fd!ClosesDir, Listing, Coded
  <2> QED
    BY <1>2, <2>2, GoesOnKeeps
<1> QED
  BY <1>5, <1>6, <1>7, <1>8, <1>9 DEF OpeningAnswer

\* They are those of the server that creates a thread for each connection, ...
LEMMA ThreadAnswers ==
  ASSUME NEW w \in Workers, T!DoCall(w)
  PROVE  (OpeningAnswer(w) /\ UNCHANGED lost) \/ T!DoCallEnd(w)
<1>1. CASE T!ReadRequestLine(w) \/ T!RefuseMethod(w) \/ T!RefuseVersion(w)
  BY <1>1 DEF
    T!ReadRequestLine, T!RefuseMethod, T!RefuseVersion, T!Thread!ReadRequestLine,
    T!Thread!RefuseMethod, T!Thread!RefuseVersion, T!Thread!Response, T!Thread!Goto,
    T!Thread!ClassOf, T!Thread!connVars, T!Thread!shmVars, T!Thread!localVars,
    ReadRequestLine, RefuseMethod, RefuseVersion, Response, Goto, ClassOf, connVars, shmVars,
    localVars, T!ownVars, OpeningAnswer
<1>2. CASE T!LsVersionTwo(w)
  <2>1. LsVersionTwo(w)
    BY <1>2 DEF
      T!LsVersionTwo, T!Thread!LsVersionTwo, T!Thread!Response, T!Thread!Stream, T!Thread!Goto,
      T!Thread!ClassOf, T!Thread!connVars, T!Thread!shmVars, T!Thread!localVars, LsVersionTwo,
      Response, Stream, Goto, ClassOf, connVars, shmVars, localVars
  <2> QED
    BY <1>2, <2>1, SameOpensFor DEF T!LsVersionTwo, OpeningAnswer
<1>3. CASE T!ReqParser(w)
  <2>1. ReqParser(w)
    BY <1>3 DEF
      T!ReqParser, T!Thread!ReqParser, T!Thread!Response, T!Thread!Stream, T!Thread!Goto,
      T!Thread!ClassOf, T!Thread!connVars, T!Thread!shmVars, T!Thread!localVars, ReqParser,
      Response, Stream, Goto, ClassOf, connVars, shmVars, localVars
  <2> QED
    BY <1>3, <2>1, SameOpensFor DEF T!ReqParser, OpeningAnswer
<1>4. CASE T!Statistics(w)
  BY <1>4 DEF
    T!Statistics, T!Thread!Statistics, T!Thread!StatisticsWait, T!Thread!StatisticsRead,
    T!Thread!Wait, T!Thread!Post, T!Thread!ClassOf, T!Thread!connVars, T!Thread!shmVars,
    T!Thread!localVars, Statistics, StatisticsWait, StatisticsRead, Wait, Post, ClassOf,
    connVars, shmVars, localVars, T!ownVars, OpeningAnswer
<1>5. CASE T!Send(w)
  <2>1. Send(w)
    BY <1>5 DEF T!Send, T!Thread!Send, T!Thread!connVars, T!Thread!shmVars, Send, connVars, shmVars
  <2> QED
    BY <1>5, <2>1, SameCloses DEF T!Send, OpeningAnswer
<1>6. CASE T!WriteCode(w)
  BY <1>6 DEF
    T!WriteCode, T!Thread!WriteCode, T!Thread!WriteCodeWait, T!Thread!LoadRequests,
    T!Thread!StoreRequests, T!Thread!LoadCode, T!Thread!StoreCode, T!Thread!Wait,
    T!Thread!connVars, T!Thread!shmVars, T!Thread!localVars, WriteCode, WriteCodeWait,
    LoadRequests, StoreRequests, LoadCode, StoreCode, Wait, connVars, shmVars, localVars,
    T!ownVars, OpeningAnswer
<1> QED
  BY <1>1, <1>2, <1>3, <1>4, <1>5, <1>6 DEF T!DoCall

\* ... and of the server whose threads accept.
LEMMA PreThreadAnswers ==
  ASSUME NEW w \in Workers, P!DoCall(w)
  PROVE  OpeningAnswer(w) \/ P!DoCallEnd(w)
<1>1. CASE P!ReadRequestLine(w) \/ P!RefuseMethod(w) \/ P!RefuseVersion(w)
  BY <1>1 DEF
    P!ReadRequestLine, P!RefuseMethod, P!RefuseVersion, P!Thread!ReadRequestLine,
    P!Thread!RefuseMethod, P!Thread!RefuseVersion, P!Thread!Response, P!Thread!Goto,
    P!Thread!ClassOf, P!Thread!connVars, P!Thread!shmVars, P!Thread!localVars,
    ReadRequestLine, RefuseMethod, RefuseVersion, Response, Goto, ClassOf, connVars, shmVars,
    localVars, OpeningAnswer
<1>2. CASE P!LsVersionTwo(w)
  <2>1. LsVersionTwo(w)
    BY <1>2 DEF
      P!LsVersionTwo, P!Thread!LsVersionTwo, P!Thread!Response, P!Thread!Stream, P!Thread!Goto,
      P!Thread!ClassOf, P!Thread!connVars, P!Thread!shmVars, P!Thread!localVars, LsVersionTwo,
      Response, Stream, Goto, ClassOf, connVars, shmVars, localVars
  <2> QED
    BY <1>2, <2>1, SameOpensFor DEF P!LsVersionTwo, OpeningAnswer
<1>3. CASE P!ReqParser(w)
  <2>1. ReqParser(w)
    BY <1>3 DEF
      P!ReqParser, P!Thread!ReqParser, P!Thread!Response, P!Thread!Stream, P!Thread!Goto,
      P!Thread!ClassOf, P!Thread!connVars, P!Thread!shmVars, P!Thread!localVars, ReqParser,
      Response, Stream, Goto, ClassOf, connVars, shmVars, localVars
  <2> QED
    BY <1>3, <2>1, SameOpensFor DEF P!ReqParser, OpeningAnswer
<1>4. CASE P!Statistics(w)
  BY <1>4 DEF
    P!Statistics, P!Thread!Statistics, P!Thread!StatisticsWait, P!Thread!StatisticsRead,
    P!Thread!Wait, P!Thread!Post, P!Thread!ClassOf, P!Thread!connVars, P!Thread!shmVars,
    P!Thread!localVars, Statistics, StatisticsWait, StatisticsRead, Wait, Post, ClassOf,
    connVars, shmVars, localVars, OpeningAnswer
<1>5. CASE P!Send(w)
  <2>1. Send(w)
    BY <1>5 DEF P!Send, P!Thread!Send, P!Thread!connVars, P!Thread!shmVars, Send, connVars, shmVars
  <2> QED
    BY <1>5, <2>1, SameCloses DEF P!Send, OpeningAnswer
<1>6. CASE P!WriteCode(w)
  BY <1>6 DEF
    P!WriteCode, P!Thread!WriteCode, P!Thread!WriteCodeWait, P!Thread!LoadRequests,
    P!Thread!StoreRequests, P!Thread!LoadCode, P!Thread!StoreCode, P!Thread!Wait,
    P!Thread!connVars, P!Thread!shmVars, P!Thread!localVars, WriteCode, WriteCodeWait,
    LoadRequests, StoreRequests, LoadCode, StoreCode, Wait, connVars, shmVars, localVars,
    OpeningAnswer
<1> QED
  BY <1>1, <1>2, <1>3, <1>4, <1>5, <1>6 DEF P!DoCall

\* A step of multi_server_thread.c.
LEMMA ThreadStep ==
  ASSUME ServersIInv, program = "thread", T!Next, program' = program
  PROVE  ServersIInv'
<1>1. ASSUME NEW c \in Conns, T!Server(c) PROVE ServersIInv'
  <2>1. c \in Conns \ accepted /\ accepted' = accepted \union {c} /\ Fd!Opens("conn", c)
    BY <1>1, SameOpens DEF T!Server, T!AcceptedBy
  <2>2. ASSUME NEW w \in Workers, T!Thread!Begin(w), connfd' = [connfd EXCEPT ![w] = c],
               UNCHANGED lost
        PROVE  ServersIInv'
    <3>1. ~ Busy(w) /\ pc' = [pc EXCEPT ![w] = "read"] /\ UNCHANGED <<after, counted, answered>>
      BY <2>2 DEF T!Thread!Begin, T!Thread!Busy, T!Thread!localVars, Busy
    <3> QED
      BY <2>1, <2>2, <3>1, BeginKeeps
  <2>3. ASSUME lost' = lost \union {c},
               UNCHANGED <<up, connfd, T!statVars, pc, T!localVars, counted, answered>>
        PROVE  ServersIInv'
    BY <2>1, <2>3, LoseKeeps DEF T!localVars
  <2> QED
    BY <1>1, <2>2, <2>3 DEF T!Server
<1>2. ASSUME NEW w \in Workers, T!DoCall(w) PROVE ServersIInv'
  <2>1. CASE OpeningAnswer(w) /\ UNCHANGED lost
    BY <2>1, AnswerKeeps
  <2>2. CASE T!DoCallEnd(w)
    <3>1. /\ pc[w] = "end" /\ pc' = [pc EXCEPT ![w] = "idle"]
          /\ connfd' = [connfd EXCEPT ![w] = Nil] /\ after' = [after EXCEPT ![w] = "end"]
          /\ answered' = answered \union {connfd[w]} /\ Fd!Closes("conn", connfd[w])
          /\ UNCHANGED <<accepted, counted, lost>>
      BY <2>2 DEF T!DoCallEnd, T!Thread!Finish, T!Fd!Closes, Fd!Closes
    <3> QED
      BY <3>1, EndKeeps
  <2> QED
    BY <1>2, <2>1, <2>2, ThreadAnswers
<1>3. ASSUME T!ExitHandler \/ \E w \in Workers : T!Sigpipe(w) PROVE ServersIInv'
  BY <1>3, IdleKeeps DEF T!ExitHandler, T!Sigpipe, T!Thread!ExitHandler, T!Thread!Sigpipe,
     T!Thread!connVars, T!Thread!localVars, T!ownVars
<1> QED
  BY <1>1, <1>2, <1>3 DEF T!Next

\* A step of multi_server_pre_create_thread.c.
LEMMA PreThreadStep ==
  ASSUME ServersIInv, program = "prethread", P!Next, UNCHANGED <<lost, program>>
  PROVE  ServersIInv'
<1>1. ASSUME NEW w \in Workers, NEW c \in Conns, P!Accept(w, c) PROVE ServersIInv'
  <2>1. /\ c \in Conns \ accepted /\ ~ Busy(w)
        /\ accepted' = accepted \union {c} /\ Fd!Opens("conn", c)
        /\ pc' = [pc EXCEPT ![w] = "read"] /\ connfd' = [connfd EXCEPT ![w] = c]
        /\ UNCHANGED <<after, counted, answered>>
    BY <1>1, SameOpens DEF P!Accept, P!Thread!Begin, P!Thread!Busy, P!Thread!localVars, Busy
  <2> QED
    BY <2>1, BeginKeeps
<1>2. ASSUME NEW w \in Workers, P!DoCall(w) PROVE ServersIInv'
  <2>1. CASE OpeningAnswer(w)
    BY <2>1, AnswerKeeps
  <2>2. CASE P!DoCallEnd(w)
    <3>1. /\ pc[w] = "end" /\ pc' = [pc EXCEPT ![w] = "idle"]
          /\ connfd' = [connfd EXCEPT ![w] = Nil] /\ after' = [after EXCEPT ![w] = "end"]
          /\ answered' = answered \union {connfd[w]}
          /\ UNCHANGED <<accepted, counted, open>>
      BY <2>2 DEF P!DoCallEnd, P!Thread!Finish
    <3> QED
      BY <3>1, EndKeeps
  <2> QED
    BY <1>2, <2>1, <2>2, PreThreadAnswers
<1>3. ASSUME P!ExitHandler \/ \E w \in Workers : P!Sigpipe(w) PROVE ServersIInv'
  BY <1>3, IdleKeeps DEF P!ExitHandler, P!Sigpipe, P!Thread!ExitHandler, P!Thread!Sigpipe,
     P!Thread!connVars, P!Thread!localVars
<1> QED
  BY <1>1, <1>2, <1>3 DEF P!Next

\* A step of server.c.
LEMMA FirstStep ==
  ASSUME ServersIInv, program = "first", F!Next, program' = program
  PROVE  ServersIInv'
<1>1. ASSUME NEW c \in Conns, F!Server(c) PROVE ServersIInv'
  <2>1. c \in Conns \ accepted /\ accepted' = accepted \union {c} /\ Fd!Opens("conn", c)
    BY <1>1, SameOpens DEF F!Server, F!PerConnection!Server, F!PerConnection!AcceptedBy
  <2>2. ASSUME NEW w \in Workers, F!PerConnection!Thread!Begin(w),
               connfd' = [connfd EXCEPT ![w] = c], UNCHANGED lost
        PROVE  ServersIInv'
    <3>1. ~ Busy(w) /\ pc' = [pc EXCEPT ![w] = "read"] /\ UNCHANGED <<after, counted, answered>>
      BY <2>2 DEF F!PerConnection!Thread!Begin, F!PerConnection!Thread!Busy,
                  F!PerConnection!Thread!localVars, Busy
    <3> QED
      BY <2>1, <2>2, <3>1, BeginKeeps
  <2>3. ASSUME lost' = lost \union {c},
               UNCHANGED <<connfd, pc, F!PerConnection!localVars, counted, answered>>
        PROVE  ServersIInv'
    BY <2>1, <2>3, LoseKeeps DEF F!PerConnection!localVars
  <2> QED
    BY <1>1, <2>2, <2>3 DEF F!Server, F!PerConnection!Server
<1>2. ASSUME NEW w \in Workers, NEW to \in {"dispatch", "send"},
             pc[w] \in {"read", "dispatch"}, pc' = [pc EXCEPT ![w] = to],
             NEW next \in {"end", "body"}, after' = [after EXCEPT ![w] = next],
             UNCHANGED open \/ Fd!Opens("file", connfd[w]),
             UNCHANGED <<accepted, connfd, counted, answered, lost>>
      PROVE  ServersIInv'
  <2>1. GoesOn(w)
    BY <1>2 DEF ServersIInv, ServerTypes, GoesOn, Busy, PcStates, Early, Past, Between
  <2>2. ~ Listing(w)
    BY <1>2 DEF Listing, Coded
  <2> QED
    BY <1>2, <2>1, <2>2, GoesOnKeeps DEF OpensOrCloses
<1>3. ASSUME NEW w \in Workers,
             F!ReadRequestLine(w) \/ F!RefuseMethod(w) \/ F!RefuseVersion(w) \/ F!ParseUri(w)
      PROVE  ServersIInv'
  BY <1>2, <1>3, SameOpensFor DEF Fd!OpensFor,
     F!ReadRequestLine, F!RefuseMethod, F!RefuseVersion, F!ParseUri,
     F!Thread!ReadRequestLine, F!Thread!RefuseMethod, F!Thread!RefuseVersion,
     F!Thread!Response, F!Thread!Stream, F!Thread!Goto, F!Thread!connVars
<1>4. ASSUME NEW w \in Workers, F!Response(w) PROVE ServersIInv'
  <2>1. after[w] \in {"end", "body"}
    BY DEF ServersIInv, ServerTypes
  <2>2. GoesOn(w) /\ UNCHANGED <<open, lost>>
    BY <1>4, <2>1 DEF F!Response, F!noVars, ServersIInv, ServerTypes, GoesOn, Busy, PcStates
  <2>3. open["dir"] = {}
    BY DEF ServersIInv, OpenFds, OpenBodies
  <2> QED
    BY <2>2, <2>3, GoesOnKeeps DEF OpensOrCloses
<1>5. ASSUME NEW w \in Workers, F!AcceptRequestEnd(w) PROVE ServersIInv'
  <2>1. /\ pc[w] = "end" /\ pc' = [pc EXCEPT ![w] = "idle"]
        /\ connfd' = [connfd EXCEPT ![w] = Nil] /\ after' = [after EXCEPT ![w] = "end"]
        /\ answered' = answered \union {connfd[w]}
        /\ UNCHANGED <<accepted, counted, open, lost>>
    BY <1>5 DEF F!AcceptRequestEnd, F!Thread!Finish
  <2> QED
    BY <2>1, EndKeeps
<1>6. ASSUME F!ProcessEnds PROVE ServersIInv'
  BY <1>6, IdleKeeps DEF F!ProcessEnds, F!PerConnection!ExitHandler,
     F!PerConnection!Thread!ExitHandler, F!PerConnection!Thread!connVars,
     F!PerConnection!Thread!localVars, F!PerConnection!ownVars
<1> QED
  BY <1>1, <1>3, <1>4, <1>5, <1>6 DEF F!Next, F!AcceptRequest

\* The invariant of the three servers without a queue.
THEOREM ServersInvariant == ServersSpec => []ServersIInv
<1>1. ServersIInv /\ [ServersNext]_serverVars => ServersIInv'
  <2> SUFFICES ASSUME ServersIInv, [ServersNext]_serverVars PROVE ServersIInv'
    OBVIOUS
  <2>1. CASE UNCHANGED serverVars
    BY <2>1, IdleKeeps DEF serverVars, answerVars, connVars, localVars
  <2>2. CASE ServersNext
    BY <2>2, ThreadStep, PreThreadStep, FirstStep DEF ServersNext
  <2> QED
    BY <2>1, <2>2
<1> QED
  BY <1>1, InitServersIInv, PTL DEF ServersSpec

\* No server goes on with a connection it has answered, and where there are
\* statistics every answered connection was counted: for any number of threads.
THEOREM AnsweredOnceAlways == ServersSpec => []AnsweredOnce
<1>1. ServersIInv => AnsweredOnce
  <2> SUFFICES ASSUME ServersIInv PROVE AnsweredOnce
    OBVIOUS
  <2>1. \A w \in Workers : connfd[w] \notin answered
    BY AnswerAssumption DEF ServersIInv, ServerTypes, Given
  <2> QED
    BY <2>1 DEF ServersIInv, CountedFirst, AnsweredOnce, AnsweredIsCounted
<1> QED
  BY <1>1, ServersInvariant, PTL

\* multi_server_thread.c has a connection open while a thread is serving it or because
\* it has no thread, a directory while it is listed, and a file, once it was sent, for
\* ever: nothing but these two leaks.
THEOREM ThreadOpenIsInUseAlways == ServersSpec => []ThreadOpenIsInUse
<1>1. ServersIInv => ThreadOpenIsInUse
  <2> SUFFICES ASSUME ServersIInv, program = "thread" PROVE T!OpenIsInUse
    BY DEF ThreadOpenIsInUse
  <2>1. \A c \in Conns : c \in open["conn"] <=> c \in lost \/ \E w \in Workers : connfd[w] = c
    BY DEF ServersIInv, OpenFds, OpenConns
  <2>2. \A c \in Conns, w \in Workers : connfd[w] = c => Busy(w)
    BY AnswerAssumption DEF ServersIInv, Given
  <2>3. \A w \in Workers : Busy(w) => connfd[w] \in Conns /\ connfd[w] \notin lost
    BY DEF ServersIInv, ServerTypes, Given
  <2>4. open["conn"] \subseteq Conns /\ open["file"] \subseteq Conns /\ lost \subseteq Conns
    BY DEF ServersIInv, ServerTypes, Kinds
  <2>5. open["conn"] = {connfd[w] : w \in {v \in Workers : Busy(v)}} \union lost
    BY <2>1, <2>2, <2>3, <2>4
  <2>6. \A c \in open["dir"] :
          \E w \in Workers : connfd[w] = c /\ after[w] = "body" /\ pc[w] # "end"
    BY DEF ServersIInv, OpenFds, OpenBodies, Listing, Coded
  <2>7. open["file"] \subseteq answered \union (open["conn"] \ lost)
    BY <2>2, <2>3, <2>4, <2>5 DEF ServersIInv, OpenFds, OpenBodies
  <2> QED
    BY <2>5, <2>6, <2>7 DEF T!OpenIsInUse, T!Thread!Busy, Busy
<1> QED
  BY <1>1, ServersInvariant, PTL

\* The servers that close neither connections nor files accept in their life no more
\* connections than the files they have sent leave descriptors for.
THEOREM LifetimeBoundedAlways == ServersSpec => []LifetimeBounded
<1>1. ServersIInv => LifetimeBounded
  <2> SUFFICES ASSUME ServersIInv, program # "thread"
               PROVE  Cardinality(accepted) + Cardinality(open["file"]) <= MaxFds
    BY DEF LifetimeBounded
  <2>1. /\ Cardinality(open["conn"]) \in Nat /\ Cardinality(open["file"]) \in Nat
        /\ Cardinality(open["dir"]) \in Nat
    BY Counted DEF ServersIInv, Kinds
  <2>2. open["conn"] = accepted
    BY DEF ServersIInv, OpenFds, OpenConns
  <2>3. Cardinality(open["conn"]) + Cardinality(open["file"]) + Cardinality(open["dir"]) <= MaxFds
    BY SameCardinality DEF ServersIInv, OpenFds, Fd!NOpen
  <2> QED
    BY <2>1, <2>2, <2>3, MaxFdsAssumption
<1> QED
  BY <1>1, ServersInvariant, PTL
=============================================================================
