------------------------ MODULE BlockingQueueProofs ------------------------
(***************************************************************************)
(* Proofs about struct queue, for any number of threads and messages.      *)
(***************************************************************************)
EXTENDS BlockingQueue, SequenceTheorems, FiniteSetTheorems, TLAPS

IInv == /\ TypeOK /\ MutualExclusion /\ ListShape /\ MessagesAccounted
        /\ HandInv /\ ConnfdInv

USE DEF PutPC, GetPC, Threads, Critical

\* The invariant holds of the queue that queue_init leaves.
LEMMA InitIInv == Init => IInv
<1> SUFFICES ASSUME Init PROVE IInv
  OBVIOUS
<1> USE QueueAssumption DEF Init
<1>0. nodes = <<>> /\ Len(nodes) = 0 /\ nodes \in Seq(Msgs)
  BY DEF Init
<1>1. TypeOK
  BY <1>0 DEF TypeOK
<1>2. MutualExclusion
  BY DEF MutualExclusion
<1>3. ListShape
  BY <1>0 DEF ListShape
<1>4. MessagesAccounted
  <2>1. \A t \in Threads : ~ InHand(t)
    BY DEF InHand
  <2> QED BY <1>0, <2>1 DEF MessagesAccounted
<1>5. HandInv /\ ConnfdInv
  BY DEF HandInv, ConnfdInv, InHand
<1> QED BY <1>1, <1>2, <1>3, <1>4, <1>5 DEF IInv

\* Every step of queue_put and queue_get keeps the types.
LEMMA StepTypeOK == IInv /\ [Next]_vars => TypeOK'
<1> SUFFICES ASSUME IInv, [Next]_vars PROVE TypeOK'
  OBVIOUS
<1> USE QueueAssumption DEF IInv, TypeOK
<1>1. CASE UNCHANGED vars
  BY <1>1 DEF vars
<1>2. ASSUME NEW p \in Putters, NEW s \in Socks, PutAlloc(p, s) PROVE TypeOK'
  BY <1>2 DEF PutAlloc
<1>3. ASSUME NEW p \in Putters, Lock(p, "put_lock", "put_link") PROVE TypeOK'
  BY <1>3 DEF Lock, fields
<1>4. ASSUME NEW p \in Putters, PutLink(p) PROVE TypeOK'
  BY <1>4 DEF PutLink, HandInv, InHand, MutualExclusion
<1>5. ASSUME NEW p \in Putters, Unlock(p, "put_unlock", "put_signal") PROVE TypeOK'
  BY <1>5 DEF Unlock, fields
<1>6. ASSUME NEW p \in Putters, PutSignal(p) PROVE TypeOK'
  BY <1>6 DEF PutSignal, fields
<1>7. ASSUME NEW w \in Workers, Lock(w, "get_lock", "get_check") PROVE TypeOK'
  BY <1>7 DEF Lock, fields
<1>8. ASSUME NEW w \in Workers, GetWait(w) PROVE TypeOK'
  BY <1>8 DEF GetWait, fields
<1>9. ASSUME NEW w \in Workers, GetTake(w) PROVE TypeOK'
  <2>1. nodes # <<>> /\ first \in Msgs
    BY <1>9 DEF GetTake, ListShape
  <2>2. Tail(nodes) \in Seq(Msgs)
    BY <2>1, HeadTailProperties
  <2> QED BY <1>9, <2>1, <2>2 DEF GetTake, ListShape
<1>10. ASSUME NEW w \in Workers, Unlock(w, "get_unlock", "get_free") PROVE TypeOK'
  BY <1>10 DEF Unlock, fields
<1>11. ASSUME NEW w \in Workers, GetFree(w) PROVE TypeOK'
  BY <1>11 DEF GetFree, HandInv, InHand
<1>12. ASSUME NEW w \in Workers, GetCall(w) PROVE TypeOK'
  BY <1>12 DEF GetCall, fields
<1>13. ASSUME NEW w \in Workers, SpuriousWakeup(w) PROVE TypeOK'
  BY <1>13 DEF SpuriousWakeup, fields
<1> QED
  BY <1>1, <1>2, <1>3, <1>4, <1>5, <1>6, <1>7, <1>8, <1>9, <1>10, <1>11, <1>12,
     <1>13 DEF Next, QueuePut, QueueGet

\* Every step keeps the mutex held by exactly the thread in its critical
\* section, and the waiting set exact.
LEMMA StepMutex == IInv /\ [Next]_vars => MutualExclusion'
<1> SUFFICES ASSUME IInv, [Next]_vars PROVE MutualExclusion'
  OBVIOUS
<1> USE QueueAssumption DEF IInv, TypeOK, MutualExclusion
<1>1. CASE UNCHANGED vars
  BY <1>1 DEF vars
<1>2. ASSUME NEW p \in Putters, NEW s \in Socks, PutAlloc(p, s) PROVE MutualExclusion'
  BY <1>2 DEF PutAlloc
<1>3. ASSUME NEW p \in Putters, Lock(p, "put_lock", "put_link") PROVE MutualExclusion'
  BY <1>3 DEF Lock, fields
<1>4. ASSUME NEW p \in Putters, PutLink(p) PROVE MutualExclusion'
  BY <1>4 DEF PutLink
<1>5. ASSUME NEW p \in Putters, Unlock(p, "put_unlock", "put_signal") PROVE MutualExclusion'
  BY <1>5 DEF Unlock, fields
<1>6. ASSUME NEW p \in Putters, PutSignal(p) PROVE MutualExclusion'
  BY <1>6 DEF PutSignal, fields
<1>7. ASSUME NEW w \in Workers, Lock(w, "get_lock", "get_check") PROVE MutualExclusion'
  BY <1>7 DEF Lock, fields
<1>8. ASSUME NEW w \in Workers, GetWait(w) PROVE MutualExclusion'
  BY <1>8 DEF GetWait, fields
<1>9. ASSUME NEW w \in Workers, GetTake(w) PROVE MutualExclusion'
  BY <1>9 DEF GetTake
<1>10. ASSUME NEW w \in Workers, Unlock(w, "get_unlock", "get_free") PROVE MutualExclusion'
  BY <1>10 DEF Unlock, fields
<1>11. ASSUME NEW w \in Workers, GetFree(w) PROVE MutualExclusion'
  BY <1>11 DEF GetFree
<1>12. ASSUME NEW w \in Workers, GetCall(w) PROVE MutualExclusion'
  BY <1>12 DEF GetCall, fields
<1>13. ASSUME NEW w \in Workers, SpuriousWakeup(w) PROVE MutualExclusion'
  BY <1>13 DEF SpuriousWakeup, fields
<1> QED
  BY <1>1, <1>2, <1>3, <1>4, <1>5, <1>6, <1>7, <1>8, <1>9, <1>10, <1>11, <1>12,
     <1>13 DEF Next, QueuePut, QueueGet

\* The steps that leave the list and the messages alone.
Quiet == UNCHANGED <<first, last, length, sock, next, alloc, nodes>>

\* Linking and unlinking keep the list well formed; nothing else touches it.
LEMMA StepListShape == IInv /\ [Next]_vars => ListShape'
<1> SUFFICES ASSUME IInv, [Next]_vars PROVE ListShape'
  OBVIOUS
<1> USE QueueAssumption DEF IInv, TypeOK
<1>1. CASE Quiet
  BY <1>1 DEF Quiet, ListShape
<1>2. ASSUME NEW p \in Putters, NEW s \in Socks, PutAlloc(p, s) PROVE ListShape'
  <2>1. PICK m \in Msgs \ alloc : next' = [next EXCEPT ![m] = Nil]
    BY <1>2 DEF PutAlloc
  <2>2. \A i \in 1..Len(nodes) : nodes[i] \in Msgs /\ nodes[i] # m
    BY <2>1 DEF MessagesAccounted
  <2>3. UNCHANGED <<first, last, length, nodes>>
    BY <1>2 DEF PutAlloc
  <2>4. \A i \in 1..Len(nodes) : next'[nodes[i]] = next[nodes[i]]
    BY <2>1, <2>2
  <2>5. nodes # <<>> => Len(nodes) \in 1..Len(nodes)
    BY EmptySeq
  <2> QED BY <2>2, <2>3, <2>4, <2>5 DEF ListShape
<1>3. ASSUME NEW p \in Putters, PutLink(p) PROVE ListShape'
  <2> DEFINE m == mq[p]  n == Len(nodes)
  <2>1. m \in Msgs /\ next[m] = Nil /\ \A i \in 1..n : nodes[i] # m
    BY <1>3 DEF PutLink, HandInv, InHand, MessagesAccounted
  <2>2. nodes' = Append(nodes, m) /\ last' = m /\ length' = length + 1
    BY <1>3 DEF PutLink
  <2>3. /\ Len(nodes') = n + 1 /\ nodes' # <<>> /\ nodes'[n + 1] = m
        /\ \A i \in 1..n : nodes'[i] = nodes[i]
    BY <2>1, <2>2, AppendProperties
  <2>4. Head(nodes') = nodes'[1]
    BY <2>3
  <2>5. CASE nodes = <<>>
    <3>1. first = Nil /\ n = 0
      BY <2>5 DEF ListShape
    <3>2. first' = m /\ next' = next
      BY <3>1, <1>3 DEF PutLink
    <3> QED BY <3>1, <3>2, <2>1, <2>2, <2>3, <2>4 DEF ListShape
  <2>6. CASE nodes # <<>>
    <3>1. n \in Nat /\ n > 0 /\ first = nodes[1] /\ last = nodes[n] /\ first # Nil
      BY <2>6, EmptySeq DEF ListShape
    <3>2. first' = first /\ next' = [next EXCEPT ![last] = m]
      BY <3>1, <1>3 DEF PutLink
    <3>3. last \in Msgs /\ last # m /\ next'[m] = Nil /\ next'[last] = m
      BY <3>1, <3>2, <2>1
    <3>4. \A i \in 1..n - 1 : nodes[i] \in Msgs /\ nodes[i] # last
      BY <3>1 DEF MessagesAccounted
    <3>5. ASSUME NEW i \in 1..n PROVE next'[nodes'[i]] = nodes'[i + 1]
      <4>1. CASE i = n
        BY <4>1, <3>1, <3>3, <2>3
      <4>2. CASE i # n
        BY <4>2, <3>1, <3>2, <3>4, <2>3 DEF ListShape
      <4> QED BY <4>1, <4>2
    <3> QED BY <3>1, <3>2, <3>3, <3>5, <2>2, <2>3, <2>4 DEF ListShape
  <2> QED BY <2>5, <2>6
<1>4. ASSUME NEW w \in Workers, GetTake(w) PROVE ListShape'
  <2> DEFINE n == Len(nodes)
  <2>1. n \in Nat /\ n > 0 /\ nodes # <<>> /\ first = nodes[1] /\ last = nodes[n]
    BY <1>4 DEF GetTake, ListShape
  <2>2. /\ nodes' = Tail(nodes) /\ Len(nodes') = n - 1
        /\ \A i \in 1..n - 1 : nodes'[i] = nodes[i + 1]
    BY <1>4, <2>1, HeadTailProperties DEF GetTake
  <2>3. length' = n - 1 /\ next' = next
    BY <1>4, <2>1 DEF GetTake, ListShape
  <2>4. CASE n = 1
    <3>1. first = last /\ next[first] = Nil
      BY <2>1, <2>4 DEF ListShape
    <3>2. first' = Nil /\ last' = Nil
      BY <3>1, <1>4 DEF GetTake
    <3> QED BY <3>2, <2>2, <2>3, <2>4 DEF ListShape
  <2>5. CASE n # 1
    <3>1. next[first] = nodes[2] /\ nodes[2] \in Msgs
      BY <2>1, <2>5 DEF ListShape
    <3>2. first' = nodes[2] /\ last' = last
      BY <3>1, <1>4 DEF GetTake
    <3>3. \A i \in 1..(n - 1) - 1 : next'[nodes'[i]] = nodes'[i + 1]
      BY <2>1, <2>2, <2>3 DEF ListShape
    <3>4. nodes'[1] = nodes[2] /\ nodes'[Len(nodes')] = last
      BY <2>1, <2>2, <2>5
    <3>5. nodes' \in Seq(Msgs) /\ nodes' # <<>> /\ Head(nodes') = nodes'[1]
      <4>1. nodes' \in Seq(Msgs)
        BY <2>1, <2>2, HeadTailProperties
      <4>2. nodes' # <<>>
        <5>1. Len(nodes') # 0
          BY <2>1, <2>2, <2>5
        <5> QED BY <5>1, EmptySeq, Zenon
      <4> QED BY <4>1, <4>2
    <3> QED BY <3>2, <3>3, <3>4, <3>5, <2>1, <2>2, <2>3 DEF ListShape
  <2> QED BY <2>4, <2>5, <2>1
<1>5. ASSUME NEW w \in Workers, GetFree(w) PROVE ListShape'
  <2> DEFINE m == mq[w]
  <2>1. m \in Msgs /\ \A i \in 1..Len(nodes) : nodes[i] # m /\ nodes[i] \in Msgs
    BY <1>5 DEF GetFree, HandInv, InHand, MessagesAccounted
  <2>2. next' = [next EXCEPT ![m] = Nil] /\ UNCHANGED <<first, last, length, nodes>>
    BY <1>5 DEF GetFree
  <2>3. nodes # <<>> => Len(nodes) \in 1..Len(nodes)
    BY EmptySeq
  <2> QED BY <2>1, <2>2, <2>3 DEF ListShape
<1> QED
  BY <1>1, <1>2, <1>3, <1>4, <1>5 DEF Next, QueuePut, QueueGet, Lock, Unlock,
     PutSignal, GetWait, GetCall, SpuriousWakeup, Quiet, fields, vars

\* Every step keeps each allocated message in exactly one place.
LEMMA StepAccounted == IInv /\ [Next]_vars => MessagesAccounted'
<1> SUFFICES ASSUME IInv, [Next]_vars PROVE MessagesAccounted'
  OBVIOUS
<1> USE QueueAssumption DEF IInv, TypeOK
<1> DEFINE Steady == /\ UNCHANGED <<alloc, nodes>>
                     /\ \A t \in Threads : InHand(t)' = InHand(t)
                     /\ \A t \in Threads : InHand(t) => mq'[t] = mq[t]
<1>1. CASE Steady
  <2>1. {mq'[t] : t \in {u \in Threads : InHand(u)'}} = {mq[t] : t \in {u \in Threads : InHand(u)}}
    BY <1>1
  <2> QED BY <1>1, <2>1 DEF MessagesAccounted
<1>2. ASSUME NEW p \in Putters, NEW s \in Socks, PutAlloc(p, s) PROVE MessagesAccounted'
  <2>1. PICK m \in Msgs \ alloc : alloc' = alloc \union {m} /\ mq' = [mq EXCEPT ![p] = m]
    BY <1>2 DEF PutAlloc
  <2>2. /\ ~ InHand(p) /\ InHand(p)' /\ nodes' = nodes /\ mq'[p] = m
        /\ \A t \in Threads \ {p} : InHand(t)' = InHand(t) /\ mq'[t] = mq[t]
    BY <1>2, <2>1 DEF PutAlloc, InHand
  <2>3. {mq'[t] : t \in {u \in Threads : InHand(u)'}}
          = {mq[t] : t \in {u \in Threads : InHand(u)}} \union {m}
    BY <2>2
  <2>4. /\ \A i \in 1..Len(nodes) : nodes[i] # m
        /\ \A t \in Threads : InHand(t) => mq[t] # m
    BY <2>1 DEF MessagesAccounted
  <2> QED BY <2>1, <2>2, <2>3, <2>4 DEF MessagesAccounted
<1>3. ASSUME NEW p \in Putters, PutLink(p) PROVE MessagesAccounted'
  <2> DEFINE m == mq[p]  n == Len(nodes)
  <2>1. /\ m \in Msgs /\ InHand(p) /\ ~ InHand(p)' /\ mq' = mq /\ alloc' = alloc
        /\ \A t \in Threads \ {p} : InHand(t)' = InHand(t)
    BY <1>3 DEF PutLink, HandInv, InHand
  <2>2. /\ n \in Nat /\ Len(nodes') = n + 1 /\ nodes'[n + 1] = m
        /\ \A i \in 1..n : nodes'[i] = nodes[i]
    BY <1>3, <2>1, AppendProperties DEF PutLink
  <2>3. {nodes'[i] : i \in 1..Len(nodes')} = {nodes[i] : i \in 1..n} \union {m}
    BY <2>2
  <2>4. /\ m \in {mq[t] : t \in {u \in Threads : InHand(u)}}
        /\ {mq[t] : t \in {u \in Threads : InHand(u)}}
             = {mq'[t] : t \in {u \in Threads : InHand(u)'}} \union {m}
    BY <2>1
  <2>5. \A i \in 1..n : nodes[i] # m
    BY <2>1 DEF MessagesAccounted
  <2>6. alloc' = {nodes'[i] : i \in 1..Len(nodes')}
                   \union {mq'[t] : t \in {u \in Threads : InHand(u)'}}
    BY <2>1, <2>3, <2>4 DEF MessagesAccounted
  <2>7. \A i, j \in 1..Len(nodes') : nodes'[i] = nodes'[j] => i = j
    BY <2>2, <2>5 DEF MessagesAccounted
  <2>8. ASSUME NEW t \in Threads, InHand(t)', NEW i \in 1..Len(nodes')
        PROVE  nodes'[i] # mq'[t]
    <3>1. t # p /\ InHand(t) /\ mq'[t] = mq[t] /\ mq[t] # m
      BY <2>1, <2>8 DEF MessagesAccounted
    <3> QED BY <2>2, <3>1 DEF MessagesAccounted
  <2>9. \A t, u \in Threads : InHand(t)' /\ InHand(u)' /\ mq'[t] = mq'[u] => t = u
    BY <2>1 DEF MessagesAccounted
  <2> QED BY <2>6, <2>7, <2>8, <2>9 DEF MessagesAccounted
<1>4. ASSUME NEW w \in Workers, GetTake(w) PROVE MessagesAccounted'
  <2> DEFINE n == Len(nodes)
  <2>1. n \in Nat /\ n > 0 /\ nodes # <<>> /\ first = nodes[1] /\ 1 \in 1..n
    BY <1>4 DEF GetTake, ListShape
  <2>2. /\ Len(nodes') = n - 1
        /\ \A i \in 1..n - 1 : nodes'[i] = nodes[i + 1]
    BY <1>4, <2>1, HeadTailProperties DEF GetTake
  <2>3. /\ ~ InHand(w) /\ InHand(w)' /\ mq'[w] = first /\ alloc' = alloc
        /\ \A t \in Threads \ {w} : InHand(t)' = InHand(t) /\ mq'[t] = mq[t]
    BY <1>4 DEF GetTake, InHand
  <2>4. {nodes[i] : i \in 1..n} = {nodes'[i] : i \in 1..n - 1} \union {first}
    <3>1. \A i \in 1..n : i = 1 \/ (i - 1 \in 1..n - 1 /\ nodes[i] = nodes'[i - 1])
      BY <2>1, <2>2
    <3>2. \A i \in 1..n - 1 : i + 1 \in 1..n /\ nodes'[i] = nodes[i + 1]
      BY <2>1, <2>2
    <3> QED BY <2>1, <3>1, <3>2
  <2>5. {mq'[t] : t \in {u \in Threads : InHand(u)'}}
          = {mq[t] : t \in {u \in Threads : InHand(u)}} \union {first}
    BY <2>3
  <2>6. alloc' = {nodes'[i] : i \in 1..Len(nodes')}
                   \union {mq'[t] : t \in {u \in Threads : InHand(u)'}}
    BY <2>2, <2>3, <2>4, <2>5 DEF MessagesAccounted
  <2>7. \A i, j \in 1..Len(nodes') : nodes'[i] = nodes'[j] => i = j
    <3> SUFFICES ASSUME NEW i \in 1..n - 1, NEW j \in 1..n - 1, nodes'[i] = nodes'[j]
                 PROVE  i = j
      BY <2>2
    <3>1. i + 1 \in 1..n /\ j + 1 \in 1..n /\ nodes[i + 1] = nodes[j + 1]
      BY <2>1, <2>2
    <3>2. i + 1 = j + 1
      BY <3>1 DEF MessagesAccounted
    <3> QED BY <3>2
  <2>8. \A t \in Threads : InHand(t)' => \A i \in 1..Len(nodes') : nodes'[i] # mq'[t]
    <3> SUFFICES ASSUME NEW t \in Threads, InHand(t)', NEW i \in 1..n - 1
                 PROVE  nodes'[i] # mq'[t]
      BY <2>2
    <3>1. i + 1 \in 1..n /\ nodes'[i] = nodes[i + 1] /\ i + 1 # 1
      BY <2>1, <2>2
    <3>2. CASE t = w
      BY <3>1, <3>2, <2>1, <2>3 DEF MessagesAccounted
    <3>3. CASE t # w
      BY <3>1, <3>3, <2>3 DEF MessagesAccounted
    <3> QED BY <3>2, <3>3
  <2>9. \A t, u \in Threads : InHand(t)' /\ InHand(u)' /\ mq'[t] = mq'[u] => t = u
    <3>1. \A t \in Threads : InHand(t) => mq[t] # first
      BY <2>1 DEF MessagesAccounted
    <3> QED BY <3>1, <2>3 DEF MessagesAccounted
  <2> QED BY <2>6, <2>7, <2>8, <2>9 DEF MessagesAccounted
<1>5. ASSUME NEW w \in Workers, GetFree(w) PROVE MessagesAccounted'
  <2> DEFINE m == mq[w]
  <2>1. /\ InHand(w) /\ ~ InHand(w)' /\ nodes' = nodes /\ alloc' = alloc \ {m}
        /\ \A t \in Threads \ {w} : InHand(t)' = InHand(t) /\ mq'[t] = mq[t]
    BY <1>5 DEF GetFree, InHand
  <2>2. /\ \A i \in 1..Len(nodes) : nodes[i] # m
        /\ \A t \in Threads \ {w} : InHand(t) => mq[t] # m
    BY <2>1 DEF MessagesAccounted
  <2>3. {mq'[t] : t \in {u \in Threads : InHand(u)'}}
          = {mq[t] : t \in {u \in Threads : InHand(u)}} \ {m}
    BY <2>1, <2>2
  <2> QED BY <2>1, <2>2, <2>3 DEF MessagesAccounted
<1>6. ASSUME NEW p \in Putters, PutSignal(p) PROVE Steady
  BY <1>6 DEF PutSignal, fields, InHand, MutualExclusion
<1>7. ASSUME NEW t \in Threads, NEW from, NEW to,
             Lock(t, from, to) \/ Unlock(t, from, to),
             <<from, to>> \in {<<"put_lock", "put_link">>, <<"put_unlock", "put_signal">>,
                               <<"get_lock", "get_check">>, <<"get_unlock", "get_free">>}
      PROVE  Steady
  BY <1>7 DEF Lock, Unlock, fields, InHand
<1>8. ASSUME NEW w \in Workers, GetWait(w) \/ GetCall(w) \/ SpuriousWakeup(w) PROVE Steady
  BY <1>8 DEF GetWait, GetCall, SpuriousWakeup, fields, InHand, MutualExclusion
<1>9. UNCHANGED vars => Steady
  BY DEF vars, InHand
<1> QED
  <2> HIDE DEF Steady
  <2> QED BY <1>1, <1>2, <1>3, <1>4, <1>5, <1>6, <1>7, <1>8, <1>9
             DEF Next, QueuePut, QueueGet

\* Every step keeps the messages in hand real, unlinked and with a socket of
\* their own.
LEMMA StepHandInv == IInv /\ [Next]_vars => HandInv'
<1> SUFFICES ASSUME IInv, [Next]_vars PROVE HandInv'
  OBVIOUS
<1> USE QueueAssumption DEF IInv, TypeOK
<1> DEFINE Coming == {"put_lock", "put_link"}
           Steady == /\ UNCHANGED <<sock, next, alloc, put>>
                     /\ \A t \in Threads : InHand(t)' => InHand(t) /\ mq'[t] = mq[t]
                     /\ \A p \in Putters : pc'[p] \in Coming => pc[p] \in Coming
<1>1. CASE Steady
  <2>1. \A p \in Putters : pc'[p] \in Coming => InHand(p)'
    BY DEF InHand
  <2> QED BY <1>1, <2>1 DEF HandInv
<1>2. ASSUME NEW p \in Putters, NEW s \in Socks, PutAlloc(p, s) PROVE HandInv'
  <2>1. PICK m \in Msgs \ alloc : /\ alloc' = alloc \union {m} /\ mq' = [mq EXCEPT ![p] = m]
                                  /\ sock' = [sock EXCEPT ![m] = s]
                                  /\ next' = [next EXCEPT ![m] = Nil]
    BY <1>2 DEF PutAlloc
  <2>2. /\ put' = put \union {s} /\ s \notin put
        /\ \A t \in Threads \ {p} : InHand(t)' => InHand(t) /\ mq'[t] = mq[t] /\ mq[t] # m
        /\ \A q \in Putters \ {p} : pc'[q] = pc[q] /\ (pc[q] \in Coming => InHand(q))
    BY <1>2, <2>1 DEF PutAlloc, InHand, MessagesAccounted
  <2>3. \A n \in alloc : n # m /\ sock'[n] = sock[n]
    BY <2>1
  <2>4. \A n \in alloc : sock[n] # s
    BY <2>2 DEF HandInv
  <2>5. \A t \in Threads : InHand(t)' => mq'[t] \in Msgs
    BY <2>1, <2>2 DEF HandInv
  <2>6. \A q \in Putters : pc'[q] \in Coming => next'[mq'[q]] = Nil
    BY <2>1, <2>2 DEF HandInv
  <2>7. \A k, n \in alloc' : sock'[k] = sock'[n] => k = n
    BY <2>1, <2>3, <2>4 DEF HandInv
  <2>8. \A n \in alloc' : sock'[n] \in put'
    BY <2>1, <2>2, <2>3 DEF HandInv
  <2> QED BY <2>5, <2>6, <2>7, <2>8 DEF HandInv
<1>3. ASSUME NEW p \in Putters, PutLink(p) PROVE HandInv'
  <2>1. /\ UNCHANGED <<sock, alloc, put, mq>>
        /\ \A t \in Threads : InHand(t)' => InHand(t)
        /\ \A q \in Putters : pc'[q] \in Coming => q # p /\ pc[q] \in Coming /\ InHand(q)
    BY <1>3 DEF PutLink, InHand
  <2>2. ASSUME NEW q \in Putters, pc'[q] \in Coming PROVE next'[mq[q]] = Nil
    <3>1. /\ q # p /\ pc[q] \in Coming /\ InHand(q) /\ InHand(p)
          /\ next[mq[q]] = Nil /\ mq[q] \in Msgs
      BY <1>3, <2>1, <2>2 DEF PutLink, InHand, HandInv
    <3>2. first # Nil => last # mq[q]
      <4>1. first # Nil => nodes # <<>> /\ last = nodes[Len(nodes)] /\ Len(nodes) \in 1..Len(nodes)
        BY EmptySeq DEF ListShape
      <4> QED BY <4>1, <3>1 DEF MessagesAccounted
    <3> QED BY <1>3, <3>1, <3>2 DEF PutLink
  <2> QED BY <2>1, <2>2 DEF HandInv
<1>4. ASSUME NEW w \in Workers, GetTake(w) PROVE HandInv'
  <2>1. first \in Msgs
    BY <1>4 DEF GetTake, ListShape
  <2>2. /\ UNCHANGED <<sock, next, alloc, put>> /\ mq'[w] = first
        /\ \A t \in Threads \ {w} : (InHand(t)' => InHand(t)) /\ mq'[t] = mq[t]
        /\ \A q \in Putters : pc'[q] = pc[q] /\ q # w
    BY <1>4 DEF GetTake, InHand
  <2> QED BY <2>1, <2>2 DEF HandInv
<1>5. ASSUME NEW w \in Workers, GetFree(w) PROVE HandInv'
  <2> DEFINE m == mq[w]
  <2>1. /\ m \in Msgs /\ InHand(w) /\ ~ InHand(w)' /\ alloc' = alloc \ {m} /\ put' = put
        /\ \A t \in Threads \ {w} : InHand(t)' = InHand(t) /\ mq'[t] = mq[t]
        /\ sock' = [sock EXCEPT ![m] = Nil] /\ next' = [next EXCEPT ![m] = Nil]
        /\ \A q \in Putters : pc'[q] = pc[q] /\ q # w /\ (pc[q] \in Coming => InHand(q))
    BY <1>5 DEF GetFree, InHand, HandInv
  <2>2. \A t \in Threads \ {w} : InHand(t) => mq[t] \in Msgs /\ mq[t] # m
    BY <2>1 DEF HandInv, MessagesAccounted
  <2>3. \A q \in Putters : pc'[q] \in Coming => next'[mq'[q]] = Nil
    BY <2>1, <2>2 DEF HandInv
  <2> QED BY <2>1, <2>2, <2>3 DEF HandInv
<1>6. ASSUME NEW p \in Putters, PutSignal(p) PROVE Steady
  BY <1>6 DEF PutSignal, fields, InHand
<1>7. ASSUME NEW t \in Threads, NEW from, NEW to,
             Lock(t, from, to) \/ Unlock(t, from, to),
             <<from, to>> \in {<<"put_lock", "put_link">>, <<"put_unlock", "put_signal">>,
                               <<"get_lock", "get_check">>, <<"get_unlock", "get_free">>}
      PROVE  Steady
  BY <1>7 DEF Lock, Unlock, fields, InHand
<1>8. ASSUME NEW w \in Workers, GetWait(w) \/ GetCall(w) \/ SpuriousWakeup(w) PROVE Steady
  BY <1>8 DEF GetWait, GetCall, SpuriousWakeup, fields, InHand
<1>9. UNCHANGED vars => Steady
  BY DEF vars, InHand
<1> QED
  <2> HIDE DEF Steady
  <2> QED BY <1>1, <1>2, <1>3, <1>4, <1>5, <1>6, <1>7, <1>8, <1>9
             DEF Next, QueuePut, QueueGet

\* A worker holds a socket only from queue_get to the end of do_call.
LEMMA StepConnfdInv == IInv /\ [Next]_vars => ConnfdInv'
<1> SUFFICES ASSUME IInv, [Next]_vars PROVE ConnfdInv'
  OBVIOUS
<1> USE QueueAssumption DEF IInv, TypeOK, ConnfdInv
<1>1. CASE UNCHANGED vars
  BY <1>1 DEF vars
<1>2. ASSUME NEW p \in Putters, NEW s \in Socks, PutAlloc(p, s) PROVE ConnfdInv'
  BY <1>2 DEF PutAlloc
<1>3. ASSUME NEW p \in Putters, PutLink(p) \/ PutSignal(p) PROVE ConnfdInv'
  BY <1>3 DEF PutLink, PutSignal, fields, MutualExclusion
<1>4. ASSUME NEW t \in Threads, NEW from, NEW to,
             Lock(t, from, to) \/ Unlock(t, from, to), from # "serve"
      PROVE  ConnfdInv'
  BY <1>4 DEF Lock, Unlock, fields
<1>5. ASSUME NEW w \in Workers,
             GetWait(w) \/ GetTake(w) \/ GetFree(w) \/ GetCall(w) \/ SpuriousWakeup(w)
      PROVE  ConnfdInv'
  BY <1>5 DEF GetWait, GetTake, GetFree, GetCall, SpuriousWakeup, fields, MutualExclusion
<1> QED
  BY <1>1, <1>2, <1>3, <1>4, <1>5 DEF Next, QueuePut, QueueGet

\* The conjunction of all of these is inductive, for any threads, messages and
\* sockets.
THEOREM InductiveInvariant == Spec => []IInv
<1>1. IInv /\ [Next]_vars => IInv'
  BY StepTypeOK, StepMutex, StepListShape, StepAccounted, StepHandInv, StepConnfdInv DEF IInv
<1> QED BY InitIInv, <1>1, PTL DEF Spec

\* The types hold of every variable: in particular length, an unsigned int, is
\* never decremented below zero.
THEOREM TypeCorrect == Spec => []TypeOK
BY InductiveInvariant, PTL DEF IInv

\* Whatever the number of threads, the critical sections of queue_put and
\* queue_get exclude each other, and only woken threads run.
THEOREM QueueMutualExclusion == Spec => []MutualExclusion
BY InductiveInvariant, PTL DEF IInv

\* The list is well formed in every state, for any number of messages.
THEOREM ListWellFormed == Spec => []ListShape
BY InductiveInvariant, PTL DEF IInv

\* No message is leaked, freed twice, or reachable after it was freed.
THEOREM NoLeakNoDoubleFree == Spec => []MessagesAccounted
BY InductiveInvariant, PTL DEF IInv
-----------------------------------------------------------------------------
\* The sets that NoLostWakeup counts are finite.
LEMMA AwakeFinite ==
  /\ IsFiniteSet(Awake) /\ Cardinality(Awake) \in Nat
  /\ IsFiniteSet(Signalling) /\ Cardinality(Signalling) \in Nat
<1>1. Awake \subseteq Workers /\ Signalling \subseteq Putters
  BY DEF Awake, Signalling
<1> QED BY <1>1, QueueAssumption, FS_Subset, FS_CardinalityType

\* Every step keeps NoLostWakeup: a worker that is woken enters Awake when the
\* signalling putter leaves Signalling.
LEMMA StepNoLostWakeup ==
  IInv /\ IInv' /\ NoLostWakeup /\ [Next]_vars => NoLostWakeup'
<1> SUFFICES ASSUME IInv, IInv', NoLostWakeup, [Next]_vars PROVE NoLostWakeup'
  OBVIOUS
<1> USE QueueAssumption DEF IInv, TypeOK
<1>0. /\ IsFiniteSet(Awake) /\ Cardinality(Awake) \in Nat
      /\ IsFiniteSet(Signalling) /\ Cardinality(Signalling) \in Nat
      /\ IsFiniteSet(Awake') /\ Cardinality(Awake') \in Nat
      /\ IsFiniteSet(Signalling') /\ Cardinality(Signalling') \in Nat
  <2>1. Awake' \subseteq Workers /\ Signalling' \subseteq Putters
    BY DEF Awake, Signalling
  <2> QED BY <2>1, AwakeFinite, FS_Subset, FS_CardinalityType
<1> DEFINE Calm == /\ length' = length /\ waiting' \subseteq waiting
                   /\ Awake \subseteq Awake' /\ Signalling \subseteq Signalling'
<1>1. CASE Calm
  <2>1. Cardinality(Awake) <= Cardinality(Awake')
    BY <1>0, <1>1, FS_Subset
  <2>2. Cardinality(Signalling) <= Cardinality(Signalling')
    BY <1>0, <1>1, FS_Subset
  <2> QED BY <1>0, <1>1, <2>1, <2>2 DEF NoLostWakeup
<1>2. ASSUME NEW p \in Putters, PutLink(p) PROVE NoLostWakeup'
  <2>1. /\ Signalling' = Signalling \union {p} /\ p \notin Signalling
        /\ Awake' = Awake /\ waiting' = waiting /\ length' = length + 1
    BY <1>2 DEF PutLink, Signalling, Awake
  <2>2. Cardinality(Signalling') = Cardinality(Signalling) + 1
    BY <2>1, <1>0, FS_AddElement
  <2> QED BY <1>0, <2>1, <2>2 DEF NoLostWakeup
<1>3. ASSUME NEW p \in Putters, PutSignal(p) PROVE NoLostWakeup'
  <2>1. PICK woken \in SUBSET waiting :
          /\ waiting # {} => woken # {}
          /\ waiting' = waiting \ woken
          /\ pc' = [t \in Threads |-> IF t \in woken THEN "get_lock"
                                      ELSE IF t = p THEN "accept" ELSE pc[t]]
    BY <1>3 DEF PutSignal
  <2>2. length' = length /\ p \in Signalling
    BY <1>3 DEF PutSignal, Signalling, fields
  <2>3. CASE waiting = {}
    BY <2>1, <2>3 DEF NoLostWakeup
  <2>4. CASE waiting # {}
    <3>1. PICK x \in woken : x \in Workers /\ pc[x] = "waiting"
      BY <2>1, <2>4 DEF MutualExclusion
    <3>2. Awake \union {x} \subseteq Awake' /\ x \notin Awake
      BY <2>1, <3>1 DEF Awake, MutualExclusion
    <3>3. Signalling' = Signalling \ {p}
      BY <1>3, <2>1 DEF PutSignal, Signalling
    <3>4. Cardinality(Awake \union {x}) = Cardinality(Awake) + 1
      BY <1>0, <3>2, FS_AddElement
    <3>5. Cardinality(Awake \union {x}) <= Cardinality(Awake')
      BY <1>0, <3>2, FS_Subset
    <3>6. Cardinality(Signalling') = Cardinality(Signalling) - 1
      BY <1>0, <2>2, <3>3, FS_RemoveElement
    <3> QED BY <1>0, <2>2, <2>4, <3>4, <3>5, <3>6 DEF NoLostWakeup
  <2> QED BY <2>3, <2>4
<1>4. ASSUME NEW w \in Workers, GetWait(w) PROVE NoLostWakeup'
  BY <1>0, <1>4 DEF GetWait, fields, NoLostWakeup
<1>5. ASSUME NEW w \in Workers, GetTake(w) PROVE NoLostWakeup'
  <2>1. /\ w \in Awake /\ Awake' = Awake \ {w} /\ Signalling' = Signalling
        /\ length' = length - 1 /\ waiting' = waiting /\ length > 0
    BY <1>5 DEF GetTake, Awake, Signalling
  <2>2. Cardinality(Awake') = Cardinality(Awake) - 1
    BY <1>0, <2>1, FS_RemoveElement
  <2> QED BY <1>0, <2>1, <2>2 DEF NoLostWakeup
<1>6. ASSUME NEW p \in Putters, NEW s \in Socks, PutAlloc(p, s) PROVE Calm
  BY <1>6 DEF PutAlloc, Awake, Signalling
<1>7. ASSUME NEW t \in Threads, NEW from, NEW to,
             Lock(t, from, to) \/ Unlock(t, from, to),
             <<from, to>> \in {<<"put_lock", "put_link">>, <<"put_unlock", "put_signal">>,
                               <<"get_lock", "get_check">>, <<"get_unlock", "get_free">>}
      PROVE  Calm
  BY <1>7 DEF Lock, Unlock, fields, Awake, Signalling
<1>8. ASSUME NEW w \in Workers, GetFree(w) \/ GetCall(w) \/ SpuriousWakeup(w) PROVE Calm
  BY <1>8 DEF GetFree, GetCall, SpuriousWakeup, fields, Awake, Signalling, MutualExclusion
<1>9. UNCHANGED vars => Calm
  BY DEF vars, Awake, Signalling
<1> QED
  <2> HIDE DEF Calm
  <2> QED BY <1>1, <1>2, <1>3, <1>4, <1>5, <1>6, <1>7, <1>8, <1>9
             DEF Next, QueuePut, QueueGet

\* No wakeup is lost, for any number of threads: a sleeping worker is never
\* the only hope of a message in the list.
THEOREM WakeupsAreNotLost == Spec => []NoLostWakeup
<1>1. Init => NoLostWakeup
  BY DEF Init, NoLostWakeup
<1> QED BY <1>1, StepNoLostWakeup, InductiveInvariant, PTL DEF Spec
-----------------------------------------------------------------------------
(***************************************************************************)
(* The implementation of FifoQueue: what each variable of the abstract     *)
(* queue is in a state of this one, and the step each action makes there.  *)
(***************************************************************************)
Items == [i \in 1..Len(nodes) |-> sock[nodes[i]]]
Coming == {q \in Putters : pc[q] \in {"put_lock", "put_link"}}
PutSoFar == put \ {sock[mq[p]] : p \in Coming}
Served == [w \in Workers |-> IF pc[w] \in {"get_unlock", "get_free"}
                             THEN sock[mq[w]] ELSE connfd[w]]

\* The initial states map to the empty abstract queue.
LEMMA InitRefines == Init => Fifo!FifoInit
<1> SUFFICES ASSUME Init PROVE Fifo!FifoInit
  OBVIOUS
<1>1. Items = <<>>
  BY DEF Init, Items
<1>2. PutSoFar = {}
  BY DEF Init, PutSoFar
<1>3. Served = [w \in Workers |-> Nil]
  BY QueueAssumption DEF Init, Served
<1> QED BY <1>1, <1>2, <1>3 DEF Fifo!FifoInit, Items, PutSoFar, Served, Coming

\* Steps that the abstract queue does not see.
Invisible == Items' = Items /\ PutSoFar' = PutSoFar /\ Served' = Served

\* An invisible step is a stutter of the abstract queue.
LEMMA InvisibleStutters == Invisible => UNCHANGED Fifo!fifoVars
BY DEF Invisible, Fifo!fifoVars, Items, PutSoFar, Served, Coming

\* What sock and nodes have to keep for the list to read the same.
LEMMA ItemsKept ==
  ASSUME IInv, nodes' = nodes, \A i \in 1..Len(nodes) : sock'[nodes[i]] = sock[nodes[i]]
  PROVE  Items' = Items
BY DEF Items

\* Linking a message is FifoPut.
LEMMA PutRefines ==
  ASSUME IInv, NEW p \in Putters, PutLink(p)
  PROVE  \E s \in Socks : Fifo!FifoPut(s)
<1> USE QueueAssumption DEF IInv, TypeOK
<1> DEFINE m == mq[p]  s == sock[m]  n == Len(nodes)
<1>1. /\ m \in Msgs /\ m \in alloc /\ s \in put /\ s \in Socks /\ p \in Coming
      /\ InHand(p) /\ nodes' = Append(nodes, m)
      /\ UNCHANGED <<sock, put, mq, connfd>>
  BY DEF PutLink, HandInv, InHand, MessagesAccounted, Coming
<1>2. Items' = Append(Items, s)
  <2>1. /\ n \in Nat /\ Len(nodes') = n + 1 /\ nodes'[n + 1] = m
        /\ \A i \in 1..n : nodes'[i] = nodes[i] /\ nodes[i] \in Msgs
    BY <1>1, AppendProperties
  <2>2. Items \in Seq(Socks \union {Nil}) /\ Len(Items) = n
    BY <2>1 DEF Items
  <2>3. Append(Items, s) = [i \in 1..n + 1 |-> IF i = n + 1 THEN s ELSE Items[i]]
    BY <2>1, <2>2, <1>1
  <2>4. Items' = [i \in 1..n + 1 |-> sock[nodes'[i]]]
    BY <2>1, <1>1 DEF Items
  <2>5. \A i \in 1..n + 1 : sock[nodes'[i]] = IF i = n + 1 THEN s ELSE Items[i]
    BY <2>1 DEF Items
  <2> QED BY <2>3, <2>4, <2>5
<1>3. Coming' = Coming \ {p}
  BY <1>1 DEF PutLink, Coming
<1>4. \A q \in Coming \ {p} : sock[mq[q]] # s
  <2>1. \A q \in Coming : InHand(q) /\ mq[q] \in alloc /\ q \in Threads
    BY DEF Coming, InHand, MessagesAccounted
  <2> QED BY <2>1, <1>1 DEF HandInv, MessagesAccounted
<1>5. s \notin PutSoFar /\ PutSoFar' = PutSoFar \union {s}
  BY <1>1, <1>3, <1>4 DEF PutSoFar
<1>6. Served' = Served
  BY <1>1 DEF Served, PutLink
<1> QED BY <1>1, <1>2, <1>5, <1>6
        DEF Fifo!FifoPut, Items, PutSoFar, Served, Coming

\* Unlinking a message is FifoGet.
LEMMA GetRefines ==
  ASSUME IInv, NEW w \in Workers, GetTake(w)
  PROVE  Fifo!FifoGet(w)
<1> USE QueueAssumption DEF IInv, TypeOK
<1> DEFINE n == Len(nodes)
<1>1. /\ n \in Nat /\ n > 0 /\ nodes # <<>> /\ first = nodes[1] /\ first \in Msgs
      /\ UNCHANGED <<sock, put, connfd>>
  BY DEF GetTake, ListShape
<1>2. /\ nodes' = Tail(nodes) /\ Len(nodes') = n - 1
      /\ \A i \in 1..n - 1 : nodes'[i] = nodes[i + 1]
  BY <1>1, HeadTailProperties DEF GetTake
<1>3. Items \in Seq(Socks \union {Nil}) /\ Len(Items) = n /\ Items # <<>>
      /\ Head(Items) = sock[first]
  <2>1. Items \in Seq(Socks \union {Nil}) /\ Len(Items) = n
    BY <1>1 DEF Items
  <2>2. Items # <<>>
    BY <2>1, <1>1, EmptySeq
  <2> QED BY <2>1, <2>2, <1>1 DEF Items
<1>4. Items' = Tail(Items)
  <2>1. Tail(Items) = [i \in 1..n - 1 |-> Items[i + 1]]
    <3> HIDE DEF Items
    <3>1. /\ Tail(Items) \in Seq(Socks \union {Nil}) /\ Len(Tail(Items)) = n - 1
          /\ \A i \in 1..n - 1 : Tail(Items)[i] = Items[i + 1]
      BY <1>3, HeadTailProperties
    <3>2. Tail(Items) \in [1..n - 1 -> Socks \union {Nil}]
      <4>1. \A s \in Seq(Socks \union {Nil}) : s \in [1..Len(s) -> Socks \union {Nil}]
        BY LenProperties
      <4> QED BY <3>1, <4>1
    <3> QED BY <3>1, <3>2
  <2>2. Items' = [i \in 1..n - 1 |-> sock[nodes[i + 1]]]
    BY <1>1, <1>2 DEF Items
  <2>3. \A i \in 1..n - 1 : Items[i + 1] = sock[nodes[i + 1]]
    BY <1>1 DEF Items
  <2> QED BY <2>1, <2>2, <2>3
<1>5. PutSoFar' = PutSoFar
  BY <1>1 DEF PutSoFar, Coming, GetTake
<1>6. Served[w] = Nil /\ Served' = [Served EXCEPT ![w] = sock[first]]
  BY <1>1 DEF Served, GetTake, ConnfdInv
<1> QED BY <1>3, <1>4, <1>5, <1>6
        DEF Fifo!FifoGet, Items, PutSoFar, Served, Coming

\* Returning to queue_get is FifoAsk.
LEMMA AskRefines ==
  ASSUME IInv, NEW w \in Workers, GetCall(w)
  PROVE  Fifo!FifoAsk(w) \/ UNCHANGED Fifo!fifoVars
<1> USE QueueAssumption DEF IInv, TypeOK
<1>1. Items' = Items /\ PutSoFar' = PutSoFar
  BY DEF GetCall, fields, Items, PutSoFar, Coming
<1>2. Served' = [Served EXCEPT ![w] = Nil]
  BY DEF GetCall, fields, Served
<1>3. CASE Served[w] = Nil
  <2>1. Served' = Served
    <3>1. Served = [v \in Workers |-> Served[v]]
      BY DEF Served
    <3> HIDE DEF Served
    <3> QED BY <1>2, <1>3, <3>1
  <2> QED BY <1>1, <2>1, InvisibleStutters DEF Invisible
<1>4. CASE Served[w] # Nil
  BY <1>1, <1>2, <1>4 DEF Fifo!FifoAsk, Items, PutSoFar, Served, Coming
<1> QED BY <1>3, <1>4

\* Every other step is invisible.
LEMMA InvisibleSteps ==
  ASSUME IInv, [Next]_vars,
         ~ \E p \in Putters : PutLink(p),
         ~ \E w \in Workers : GetTake(w) \/ GetCall(w)
  PROVE  Invisible
<1> USE QueueAssumption DEF IInv, TypeOK
<1>1. CASE UNCHANGED vars
  BY <1>1 DEF vars, Invisible, Items, PutSoFar, Served, Coming
<1>2. ASSUME NEW p \in Putters, NEW s \in Socks, PutAlloc(p, s) PROVE Invisible
  <2>1. PICK m \in Msgs \ alloc :
          alloc' = alloc \union {m} /\ mq' = [mq EXCEPT ![p] = m] /\ sock' = [sock EXCEPT ![m] = s]
    BY <1>2 DEF PutAlloc
  <2>2. /\ nodes' = nodes /\ connfd' = connfd /\ put' = put \union {s} /\ s \notin put
        /\ \A i \in 1..Len(nodes) : nodes[i] # m
        /\ \A t \in Threads : InHand(t) => mq[t] # m
    BY <1>2, <2>1 DEF PutAlloc, MessagesAccounted
  <2>3. Items' = Items
    BY <2>1, <2>2, ItemsKept
  <2>4. Coming' = Coming \union {p} /\ p \notin Coming
    BY <1>2 DEF PutAlloc, Coming
  <2>5. \A q \in Coming : mq'[q] = mq[q] /\ sock'[mq[q]] = sock[mq[q]]
    BY <2>1, <2>2, <2>4 DEF Coming, InHand
  <2>6. sock'[mq'[p]] = s
    BY <2>1
  <2>7. PutSoFar' = PutSoFar
    BY <2>2, <2>4, <2>5, <2>6 DEF PutSoFar
  <2>8. \A w \in Workers : pc'[w] = pc[w] /\ mq'[w] = mq[w]
    BY <1>2, <2>1 DEF PutAlloc
  <2>9. \A w \in Workers : pc[w] \in {"get_unlock", "get_free"} => sock'[mq[w]] = sock[mq[w]]
    BY <2>1, <2>2 DEF InHand
  <2>10. Served' = Served
    BY <2>2, <2>8, <2>9 DEF Served
  <2> QED BY <2>3, <2>7, <2>10 DEF Invisible
<1>3. ASSUME NEW w \in Workers, GetFree(w) PROVE Invisible
  <2> DEFINE m == mq[w]
  <2>1. /\ m \in Msgs /\ InHand(w) /\ sock' = [sock EXCEPT ![m] = Nil]
        /\ UNCHANGED <<nodes, put>>
        /\ \A t \in Threads \ {w} : mq'[t] = mq[t] /\ pc'[t] = pc[t]
        /\ \A i \in 1..Len(nodes) : nodes[i] # m
        /\ \A t \in Threads \ {w} : InHand(t) => mq[t] # m
    BY <1>3 DEF GetFree, HandInv, InHand, MessagesAccounted
  <2>2. Items' = Items
    BY <2>1, ItemsKept
  <2>3. Coming' = Coming /\ \A q \in Coming : q # w /\ InHand(q)
    BY <2>1 DEF Coming, InHand
  <2>4. \A q \in Coming : sock'[mq'[q]] = sock[mq[q]]
    BY <2>1, <2>3 DEF Coming, HandInv
  <2>5. PutSoFar' = PutSoFar
    BY <2>1, <2>3, <2>4 DEF PutSoFar
  <2>6. /\ pc[w] = "get_free" /\ pc'[w] = "serve" /\ connfd' = [connfd EXCEPT ![w] = sock[m]]
    BY <1>3 DEF GetFree
  <2>7. \A u \in Workers \ {w} : pc[u] \in {"get_unlock", "get_free"} => sock'[mq[u]] = sock[mq[u]]
    BY <2>1 DEF InHand, HandInv
  <2>8. Served' = Served
    BY <2>1, <2>6, <2>7 DEF Served
  <2> QED BY <2>2, <2>5, <2>8 DEF Invisible
<1>4. ASSUME NEW p \in Putters, PutSignal(p) PROVE Invisible
  <2>1. /\ UNCHANGED <<nodes, sock, put, connfd>>
        /\ \A t \in Threads \ {p} : mq'[t] = mq[t]
        /\ \A t \in Threads : pc[t] \in {"put_lock", "put_link", "get_unlock", "get_free"}
                               <=> pc'[t] \in {"put_lock", "put_link", "get_unlock", "get_free"}
        /\ pc[p] = "put_signal"
    BY <1>4 DEF PutSignal, fields, MutualExclusion
  <2>2. Items' = Items
    BY <2>1, ItemsKept
  <2>3. Coming' = Coming /\ p \notin Coming
    BY <1>4, <2>1 DEF PutSignal, Coming
  <2>4. PutSoFar' = PutSoFar
    BY <2>1, <2>3 DEF PutSoFar, Coming
  <2>5. Served' = Served
    <3>1. \A w \in Workers : pc[w] \in {"get_unlock", "get_free"} <=> pc'[w] \in {"get_unlock", "get_free"}
      BY <1>4 DEF PutSignal, MutualExclusion
    <3> QED BY <2>1, <3>1 DEF Served
  <2> QED BY <2>2, <2>4, <2>5 DEF Invisible
<1>5. ASSUME NEW t \in Threads, NEW from, NEW to,
             Lock(t, from, to) \/ Unlock(t, from, to),
             <<from, to>> \in {<<"put_lock", "put_link">>, <<"put_unlock", "put_signal">>,
                               <<"get_lock", "get_check">>, <<"get_unlock", "get_free">>}
      PROVE  Invisible
  <2>1. Coming' = Coming /\ UNCHANGED <<nodes, sock, put, connfd, mq>>
    BY <1>5 DEF Lock, Unlock, fields, Coming
  <2>2. \A w \in Workers : pc[w] \in {"get_unlock", "get_free"} <=> pc'[w] \in {"get_unlock", "get_free"}
    BY <1>5 DEF Lock, Unlock
  <2>3. Items' = Items /\ PutSoFar' = PutSoFar
    BY <2>1 DEF Items, PutSoFar
  <2>4. Served' = Served
    BY <2>1, <2>2 DEF Served
  <2> QED BY <2>3, <2>4 DEF Invisible
<1>6. ASSUME NEW w \in Workers, GetWait(w) \/ SpuriousWakeup(w) PROVE Invisible
  <2>1. Coming' = Coming /\ UNCHANGED <<nodes, sock, put, connfd, mq>>
    BY <1>6 DEF GetWait, SpuriousWakeup, fields, Coming
  <2>2. \A u \in Workers : pc[u] \in {"get_unlock", "get_free"} <=> pc'[u] \in {"get_unlock", "get_free"}
    BY <1>6 DEF GetWait, SpuriousWakeup, MutualExclusion
  <2>3. Items' = Items /\ PutSoFar' = PutSoFar
    BY <2>1 DEF Items, PutSoFar
  <2>4. Served' = Served
    BY <2>1, <2>2 DEF Served
  <2> QED BY <2>3, <2>4 DEF Invisible
<1> QED BY <1>1, <1>2, <1>3, <1>4, <1>5, <1>6 DEF Next, QueuePut, QueueGet

\* The linked list with its mutex and condition variable is a FIFO queue in
\* which every socket is handed out once, whatever the interleaving.
THEOREM QueueImplementsFifo == Spec => ImplementsFifo
<1>1. IInv /\ [Next]_vars => [Fifo!FifoNext]_(Fifo!fifoVars)
  <2> SUFFICES ASSUME IInv, [Next]_vars PROVE [Fifo!FifoNext]_(Fifo!fifoVars)
    OBVIOUS
  <2>1. CASE \E p \in Putters : PutLink(p)
    BY <2>1, PutRefines DEF Fifo!FifoNext
  <2>2. CASE \E w \in Workers : GetTake(w)
    BY <2>2, GetRefines DEF Fifo!FifoNext
  <2>3. CASE \E w \in Workers : GetCall(w)
    BY <2>3, AskRefines DEF Fifo!FifoNext
  <2> QED BY <2>1, <2>2, <2>3, InvisibleSteps, InvisibleStutters
<1> QED BY InitRefines, <1>1, InductiveInvariant, PTL DEF Spec, ImplementsFifo, Fifo!FifoSpec
=============================================================================
