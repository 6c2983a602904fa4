-------------------------- MODULE QueueShutdownProofs --------------------------
(***************************************************************************)
(* queue_destroy without the mutex, for any number of workers and of       *)
(* connections, wherever SIGINT finds the threads; and that the accesses   *)
(* of queue_put and queue_get make a queue before it.                      *)
(***************************************************************************)
EXTENDS QueueShutdown, FiniteSetTheorems, SequenceTheorems, WellFoundedInduction, TLAPS

PutPc == {"accept", "put_lock", "put_check", "put_first", "put_next", "put_last",
          "put_length", "put_store", "put_unlock", "put_signal"}
GetPc == {"get_lock", "waiting", "get_wake", "get_check", "get_length", "get_store",
          "get_mq", "get_compare", "get_last_one", "get_deref", "get_last", "get_first",
          "get_next", "get_link", "get_unlock", "get_free", "serve"}

\* The acceptor has allocated a message.
Carrying == PutPc \ {"accept"}

\* A thread has a message that is not in the list, or not any more.
OutOfList == {"put_lock", "put_check", "put_first", "put_next", "get_unlock", "get_free"}

\* A worker unlinks the message it has read from first.
Unlinking == {"get_compare", "get_last_one", "get_deref", "get_last", "get_first",
              "get_next", "get_link"}

\* A thread is between pthread_mutex_lock and pthread_mutex_unlock.
Inside == {"put_check", "put_first", "put_next", "put_last", "put_length", "put_store",
           "put_unlock", "get_check", "get_length", "get_store", "get_mq", "get_unlock"}
          \union Unlinking

\* The list and length differ by one.
Lag == {"put_last", "put_length", "put_store", "get_mq"} \union Unlinking

\* The types, and which messages the variables name: only accepted ones.
Types ==
  /\ TypeOK
  /\ pc \in [Threads -> PutPc \union GetPc]
  /\ pc[Acceptor] \in PutPc /\ \A w \in Workers : pc[w] \in GetPc
  /\ \A t \in Threads : pc[t] \in {"put_store", "get_store"} => reg[t] \in 0..Modulus - 1
  /\ \A t \in Threads : pc[t] = "get_link" => reg[t] \in accepted \union {Nil}
  /\ pc[Acceptor] \in Carrying => mq[Acceptor] \in accepted
  /\ \A t \in Threads : mq[t] \in accepted \union {Nil}
  /\ first \in accepted \union {Nil} /\ last \in accepted \union {Nil}
  /\ \A s \in Socks : next[s] \in accepted \union {Nil}

\* Where exit_handler is.
Places ==
  /\ taker = Nil <=> dpc = "none"
  /\ mutexGone => dpc \notin {"none", "mutex"}
  /\ dpc = "done" => ~ up

\* While the mutex lives, it excludes, and who waits is in pthread_cond_wait.
Exclusive == ~ mutexGone => /\ \A t \in Threads : pc[t] \in Inside => owner = t
                            /\ \A w \in waiting : pc[w] = "waiting"

\* The messages that are linked, or that queue_destroy has unlinked.
Live == {s \in accepted \ freed :
           \A t \in Threads : pc[t] \in OutOfList => mq[t] # s}

\* Every message that is not linked is some thread's own.
Hands ==
  /\ \A t \in Threads : pc[t] \in OutOfList => mq[t] \in accepted \ freed
  /\ \A t, u \in Threads :
       pc[t] \in OutOfList /\ pc[u] \in OutOfList /\ mq[t] = mq[u] => t = u

\* No link leads to a message that is free or some thread's own, and no two lead to
\* the same one.
Links ==
  /\ first \in Live \union {Nil} /\ last \in Live \union {Nil}
  /\ \A s \in Live : next[s] \in Live \union {Nil} /\ (next[s] # Nil => next[s] # first)
  /\ \A r, s \in Live : next[r] = next[s] /\ next[r] # Nil => r = s
  /\ last # Nil /\ pc[Acceptor] # "put_last" => next[last] = Nil
  /\ \A s \in Socks \ accepted : next[s] = Nil
  /\ pc[Acceptor] \in OutOfList => next[mq[Acceptor]] = Nil

\* What a thread inside knows of the message it holds, even if queue_destroy resets
\* first and last under it.
Known(t) ==
  /\ pc[t] = "put_last" => mq[t] \in Live /\ next[mq[t]] = Nil
  /\ pc[t] \in Unlinking => /\ mq[t] \in Live \union {Nil} /\ first \in {Nil, mq[t]}
                            /\ mq[t] # Nil => \A s \in Live : next[s] # mq[t]
  /\ pc[t] = "get_last_one" => reg[t] \in {Nil, mq[t]} /\ (reg[t] = Nil => first = Nil)
  /\ pc[t] = "get_deref" => (first # Nil => next[first] = Nil)
  /\ pc[t] \in {"get_last", "get_first"} => mq[t] # Nil /\ next[mq[t]] = Nil
  /\ pc[t] = "get_first" => last = Nil
  /\ pc[t] = "get_next" => (first # Nil => last # first)
  /\ pc[t] = "get_link" => mq[t] # Nil /\ reg[t] = next[mq[t]] /\ last # mq[t]

Sound == Hands /\ Links /\ \A t \in Threads : Known(t)
Safe == ~ mutexGone => Sound

\* What no thread is in the middle of.
Idle == {"accept", "put_lock", "put_check", "put_unlock", "put_signal", "get_lock",
         "waiting", "get_wake", "get_check", "get_unlock", "get_free", "serve"}

\* first and next, before queue_destroy touches them, are the list q[1], ..., q[n].
IsList(n, q) ==
  /\ \A i \in 1..n : q[i] \in Live
  /\ \A i, j \in 1..n : q[i] = q[j] => i = j
  /\ \A i \in 1..n - 1 : next[q[i]] = q[i + 1]
  /\ first = IF n = 0 THEN Nil ELSE q[1]

\* What the thread inside has done to it so far.
Progress(n, q, t) ==
  /\ pc[t] \in {"put_store", "get_store"} => reg[t] = length
  /\ pc[t] \in {"get_length", "get_store"} => length # 0
  /\ pc[t] = "put_first" => n = 0
  /\ pc[t] = "put_next" => n # 0
  /\ pc[t] = "put_last" => n # 0 /\ q[n] = mq[t]
  /\ pc[t] \in Unlinking => n # 0 /\ mq[t] = first
  /\ pc[t] = "get_last_one" => reg[t] = first
  /\ pc[t] \in {"get_deref", "get_last", "get_first"} => n = 1
  /\ pc[t] \in {"get_next", "get_link"} => n > 1

Intact(n, q) ==
  /\ IsList(n, q)
  /\ (\A t \in Threads : pc[t] \notin {"put_last", "get_first"})
       => last = IF n = 0 THEN Nil ELSE q[n]
  /\ length = IF \E t \in Threads : pc[t] \in Lag THEN n - 1 ELSE n
  /\ \A t \in Threads : Progress(n, q, t)

Untouched == ~ mutexGone /\ dpc \in {"none", "mutex", "cond", "last"}

Whole == Untouched => \E n \in Nat : \E q \in [1..n -> Socks] : Intact(n, q)

\* After a quiet SIGINT no worker gets past the test of length.
QuietInv ==
  quiet =>
    /\ taker = Acceptor /\ length = 0 /\ fault = "none"
    /\ \A w \in Workers :
         /\ pc[w] \in {"get_lock", "waiting", "get_wake", "get_check", "get_free", "serve"}
         /\ pc[w] = "get_free" => mq[w] \in accepted \ freed
    /\ \A v, w \in Workers :
         pc[v] = "get_free" /\ pc[w] = "get_free" /\ mq[v] = mq[w] => v = w

IInv == Types /\ Places /\ Exclusive /\ Safe /\ Whole /\ QuietInv /\ FaultsExplained

-----------------------------------------------------------------------------
LEMMA Distinct ==
  /\ Acceptor \notin Workers /\ Nil \notin Threads /\ Nil \notin Socks
  /\ Acceptor \in Threads /\ Workers \subseteq Threads
BY ShutdownAssumption DEF Threads

\* Going around: what an unsigned int holds after an addition or a subtraction that
\* stays in its range.
LEMMA NoWrap ==
  ASSUME NEW k \in Nat
  PROVE  /\ k + 1 < Modulus => (k + 1) % Modulus = k + 1
         /\ k # 0 /\ k < Modulus => (k + Modulus - 1) % Modulus = k - 1
         /\ (k + 1) % Modulus \in 0..Modulus - 1
         /\ (k + Modulus - 1) % Modulus \in 0..Modulus - 1
<1>1. Modulus \in Nat /\ Modulus > 0
  BY ShutdownAssumption, FS_CardinalityType
<1>2. \A m, n \in Nat : n > 0 => m % n \in 0..n - 1
  OBVIOUS
<1>3. \A m, n \in Nat : m < n => m % n = m
  OBVIOUS
<1>4. \A m, n \in Nat : m < n => (m + n) % n = m
  OBVIOUS
<1> QED
  BY <1>1, <1>2, <1>3, <1>4

-----------------------------------------------------------------------------
LEMMA InitTypes == Init => Types
<1> SUFFICES ASSUME Init PROVE Types
  OBVIOUS
<1> USE Distinct
<1>1. Modulus \in Nat /\ Modulus > 0
  BY ShutdownAssumption, FS_CardinalityType
<1>2. /\ owner = Nil /\ waiting = {} /\ first = Nil /\ last = Nil /\ length = 0
      /\ accepted = {} /\ freed = {} /\ taker = Nil /\ dpc = "none" /\ fault = "none"
      /\ next \in [Socks -> {Nil}] /\ mq \in [Threads -> {Nil}] /\ reg \in [Threads -> {Nil}]
  BY DEF Init
<1>3. /\ up \in BOOLEAN /\ mutexGone \in BOOLEAN /\ condBlocks \in BOOLEAN
      /\ quiet \in BOOLEAN
  BY DEF Init
<1>4. /\ pc \in [Threads -> {"accept", "get_lock"}] /\ pc[Acceptor] = "accept"
      /\ \A w \in Workers : pc[w] = "get_lock"
  BY DEF Init
<1>5. TypeOK
  BY <1>1, <1>2, <1>3 DEF TypeOK
<1> QED
  BY <1>2, <1>4, <1>5 DEF Types, PutPc, GetPc, Carrying

\* Steps that change where one thread is, and at most the mutex and who waits.
LEMMA MovesTyped ==
  ASSUME Types, NEW t \in Threads, NEW to, pc' = [pc EXCEPT ![t] = to],
         to \in IF t = Acceptor THEN PutPc ELSE GetPc,
         t = Acceptor /\ to \in Carrying => pc[Acceptor] \in Carrying,
         to \notin {"put_store", "get_store", "get_link"},
         owner' \in Threads \union {Nil}, waiting' \in SUBSET Workers,
         UNCHANGED <<dataVars, mq, reg, up, fault, exitVars>>
  PROVE  Types'
<1> USE Distinct
<1>1. /\ pc' \in [Threads -> PutPc \union GetPc]
      /\ pc'[Acceptor] \in PutPc /\ \A w \in Workers : pc'[w] \in GetPc
      /\ pc'[Acceptor] \in Carrying => mq[Acceptor] \in accepted
  BY DEF Types
<1>2. TypeOK'
  BY DEF Types, TypeOK, dataVars, listVars, exitVars
<1>3. /\ \A u \in Threads : pc'[u] \in {"put_store", "get_store"} => reg[u] \in 0..Modulus - 1
      /\ \A u \in Threads : pc'[u] = "get_link" => reg[u] \in accepted \union {Nil}
  BY DEF Types
<1> QED
  BY <1>1, <1>2, <1>3 DEF Types, dataVars, listVars

\* Steps that load a value into reg.
LEMMA LoadsTyped ==
  ASSUME Types, NEW t \in Threads, NEW to, NEW value, pc' = [pc EXCEPT ![t] = to],
         to \in IF t = Acceptor THEN PutPc ELSE GetPc,
         t = Acceptor /\ to \in Carrying => pc[Acceptor] \in Carrying,
         reg' = [reg EXCEPT ![t] = value],
         value \in Socks \union {Nil} \union (0..Modulus - 1),
         to \in {"put_store", "get_store"} => value \in 0..Modulus - 1,
         to = "get_link" => value \in accepted \union {Nil},
         UNCHANGED <<owner, waiting, dataVars, mq, up, fault, exitVars>>
  PROVE  Types'
<1> USE Distinct
<1>1. /\ pc' \in [Threads -> PutPc \union GetPc]
      /\ pc'[Acceptor] \in PutPc /\ \A w \in Workers : pc'[w] \in GetPc
      /\ pc'[Acceptor] \in Carrying => mq[Acceptor] \in accepted
  BY DEF Types
<1>2. reg' \in [Threads -> Socks \union {Nil} \union (0..Modulus - 1)]
  BY DEF Types, TypeOK
<1>3. TypeOK'
  BY <1>2 DEF Types, TypeOK, dataVars, listVars, exitVars
<1>4. /\ \A u \in Threads : pc'[u] \in {"put_store", "get_store"} => reg'[u] \in 0..Modulus - 1
      /\ \A u \in Threads : pc'[u] = "get_link" => reg'[u] \in accepted \union {Nil}
  BY DEF Types, TypeOK
<1> QED
  BY <1>1, <1>3, <1>4 DEF Types, dataVars, listVars

\* Steps that write the list, what is accepted or freed, or the thread's mq.
LEMMA WritesTyped ==
  ASSUME Types, NEW t \in Threads, NEW to, pc' = [pc EXCEPT ![t] = to],
         to \in IF t = Acceptor THEN PutPc ELSE GetPc,
         to \notin {"put_store", "get_store", "get_link"},
         first' \in accepted' \union {Nil}, last' \in accepted' \union {Nil},
         length' \in 0..Modulus - 1,
         next' \in [Socks -> accepted' \union {Nil}],
         accepted \subseteq accepted', accepted' \subseteq Socks,
         freed' \subseteq accepted', mq' \in [Threads -> accepted' \union {Nil}],
         IF t = Acceptor THEN to \in Carrying => mq'[Acceptor] \in accepted'
                         ELSE mq'[Acceptor] = mq[Acceptor],
         reg' = reg \/ reg' = [reg EXCEPT ![t] = Nil],
         UNCHANGED <<owner, waiting, up, fault, exitVars>>
  PROVE  Types'
<1> USE Distinct
<1>1. /\ pc' \in [Threads -> PutPc \union GetPc]
      /\ pc'[Acceptor] \in PutPc /\ \A w \in Workers : pc'[w] \in GetPc
      /\ pc'[Acceptor] \in Carrying => mq'[Acceptor] \in accepted'
  BY DEF Types
<1>2. reg' \in [Threads -> Socks \union {Nil} \union (0..Modulus - 1)]
  BY DEF Types, TypeOK
<1>3. TypeOK'
  <2>1. mq' \in [Threads -> Socks \union {Nil}] /\ next' \in [Socks -> Socks \union {Nil}]
        /\ first' \in Socks \union {Nil} /\ last' \in Socks \union {Nil}
    OBVIOUS
  <2> QED
    BY <1>2, <2>1 DEF Types, TypeOK, exitVars
<1>4. /\ \A u \in Threads : pc'[u] \in {"put_store", "get_store"} => reg'[u] \in 0..Modulus - 1
      /\ \A u \in Threads : pc'[u] = "get_link" => reg'[u] \in accepted' \union {Nil}
  <2>1. \A u \in Threads : pc'[u] \in {"put_store", "get_store", "get_link"} =>
          pc'[u] = pc[u] /\ reg'[u] = reg[u]
    BY DEF Types, TypeOK
  <2> QED
    BY <2>1 DEF Types
<1> QED
  BY <1>1, <1>3, <1>4 DEF Types

\* Steps of exit_handler, and a signal that comes in.
LEMMA ExitsTyped ==
  ASSUME Types, first' \in {first, Nil}, last' \in {last, Nil}, length' \in {length, 0},
         taker' \in Threads \union {Nil}, mutexGone' \in BOOLEAN, quiet' \in BOOLEAN,
         dpc' \in {"none", "mutex", "cond", "last", "first", "length", "exit", "done"},
         up' \in BOOLEAN, fault' \in {"none", "null", "freed"},
         UNCHANGED <<owner, waiting, next, accepted, freed, pc, mq, reg, condBlocks>>
  PROVE  Types'
<1>0. Modulus \in Nat /\ Modulus > 0
  BY ShutdownAssumption, FS_CardinalityType
<1>1. TypeOK'
  BY <1>0 DEF Types, TypeOK
<1> QED
  BY <1>1 DEF Types

LEMMA StepTypes == Types /\ [Next]_vars => Types'
<1> SUFFICES ASSUME Types, [Next]_vars PROVE Types'
  OBVIOUS
<1> USE Distinct
<1>0. mq \in [Threads -> accepted \union {Nil}] /\ next \in [Socks -> accepted \union {Nil}]
      /\ accepted \subseteq Socks /\ freed \subseteq accepted /\ length \in 0..Modulus - 1
      /\ owner \in Threads \union {Nil} /\ waiting \in SUBSET Workers
      /\ first \in accepted \union {Nil} /\ last \in accepted \union {Nil}
      /\ reg \in [Threads -> Socks \union {Nil} \union (0..Modulus - 1)]
      /\ Modulus \in Nat /\ Modulus > 0
  BY ShutdownAssumption, FS_CardinalityType DEF Types, TypeOK
<1>1. ASSUME NEW s \in Socks, PutAlloc(s) PROVE Types'
  <2>1. /\ pc' = [pc EXCEPT ![Acceptor] = "put_lock"] /\ mq' = [mq EXCEPT ![Acceptor] = s]
        /\ accepted' = accepted \union {s}
        /\ UNCHANGED <<owner, waiting, listVars, freed, reg, up, fault, exitVars>>
    BY <1>1 DEF PutAlloc, Step
  <2>2. mq' \in [Threads -> accepted' \union {Nil}] /\ mq'[Acceptor] \in accepted'
    BY <1>0, <2>1
  <2>3. first' \in accepted' \union {Nil} /\ last' \in accepted' \union {Nil}
        /\ length' \in 0..Modulus - 1 /\ next' \in [Socks -> accepted' \union {Nil}]
    BY <1>0, <2>1 DEF listVars
  <2>4. accepted \subseteq accepted' /\ accepted' \subseteq Socks /\ freed' \subseteq accepted'
        /\ reg' = reg /\ UNCHANGED <<owner, waiting, up, fault, exitVars>>
    BY <1>0, <2>1
  <2> QED
    BY <2>1, <2>2, <2>3, <2>4, WritesTyped DEF PutPc
<1>2. CASE Lock(Acceptor, "put_lock", "put_check")
  <2>1. pc' = [pc EXCEPT ![Acceptor] = "put_check"] /\ owner' \in {owner, Acceptor}
        /\ pc[Acceptor] = "put_lock"
        /\ UNCHANGED <<waiting, dataVars, mq, reg, up, fault, exitVars>>
    BY <1>2 DEF Lock, Step, At
  <2> QED
    BY <1>0, <2>1, MovesTyped DEF PutPc, Carrying
<1>3. CASE PutCheck
  <2>1. PICK to \in {"put_first", "put_next"} : pc' = [pc EXCEPT ![Acceptor] = to]
    BY <1>3 DEF PutCheck, Step
  <2>2. pc[Acceptor] = "put_check"
        /\ UNCHANGED <<owner, waiting, dataVars, mq, reg, up, fault, exitVars>>
    BY <1>3 DEF PutCheck, Step, At
  <2> QED
    BY <1>0, <2>1, <2>2, MovesTyped DEF PutPc, Carrying
<1>4. CASE PutFirst
  <2>1. pc' = [pc EXCEPT ![Acceptor] = "put_last"] /\ first' = mq[Acceptor]
        /\ pc[Acceptor] = "put_first"
        /\ UNCHANGED <<owner, waiting, last, length, next, accepted, freed, mq, reg, up,
                       fault, exitVars>>
    BY <1>4 DEF PutFirst, Step, At
  <2>2. mq[Acceptor] \in accepted
    BY <2>1 DEF Types, PutPc, Carrying
  <2> QED
    BY <1>0, <2>1, <2>2, WritesTyped DEF PutPc
<1>5. ASSUME NEW t \in Threads, NEW from, NEW m, Faults(t, from, m) PROVE Types'
  <2>1. fault' \in {"null", "freed"}
        /\ UNCHANGED <<owner, waiting, dataVars, pc, mq, reg, up, exitVars>>
    BY <1>5 DEF Faults
  <2> QED
    BY <2>1 DEF Types, TypeOK, dataVars, listVars, exitVars
<1>6. CASE PutNext
  <2> SUFFICES ASSUME ~ Faults(Acceptor, "put_next", last) PROVE Types'
    BY <1>5
  <2>1. pc' = [pc EXCEPT ![Acceptor] = "put_last"] /\ last # Nil
        /\ next' = [next EXCEPT ![last] = mq[Acceptor]]
        /\ pc[Acceptor] = "put_next"
        /\ UNCHANGED <<owner, waiting, first, last, length, accepted, freed, mq, reg, up,
                       fault, exitVars>>
    BY <1>6 DEF PutNext, Step, At
  <2>2. mq[Acceptor] \in accepted
    BY <2>1 DEF Types, PutPc, Carrying
  <2>3. next' \in [Socks -> accepted' \union {Nil}]
    BY <1>0, <2>1, <2>2
  <2> QED
    BY <1>0, <2>1, <2>2, <2>3, WritesTyped DEF PutPc
<1>7. CASE PutLast
  <2>1. pc' = [pc EXCEPT ![Acceptor] = "put_length"] /\ last' = mq[Acceptor]
        /\ pc[Acceptor] = "put_last"
        /\ UNCHANGED <<owner, waiting, first, length, next, accepted, freed, mq, reg, up,
                       fault, exitVars>>
    BY <1>7 DEF PutLast, Step, At
  <2>2. mq[Acceptor] \in accepted
    BY <2>1 DEF Types, PutPc, Carrying
  <2> QED
    BY <1>0, <2>1, <2>2, WritesTyped DEF PutPc
<1>8. CASE PutLength
  <2>1. CASE Load(Acceptor, "put_length", "put_store", length)
    <3>1. pc' = [pc EXCEPT ![Acceptor] = "put_store"] /\ reg' = [reg EXCEPT ![Acceptor] = length]
          /\ pc[Acceptor] = "put_length"
          /\ UNCHANGED <<owner, waiting, dataVars, mq, up, fault, exitVars>>
      BY <2>1 DEF Load, Step, At
    <3> QED
      BY <1>0, <3>1, LoadsTyped DEF PutPc, Carrying
  <2>2. CASE ~ Load(Acceptor, "put_length", "put_store", length)
    <3>1. pc' = [pc EXCEPT ![Acceptor] = "put_unlock"]
          /\ length' = (reg[Acceptor] + 1) % Modulus
          /\ reg' = [reg EXCEPT ![Acceptor] = Nil]
          /\ pc[Acceptor] = "put_store"
          /\ UNCHANGED <<owner, waiting, first, last, next, accepted, freed, mq, up, fault,
                         exitVars>>
      BY <1>8, <2>2 DEF PutLength, Step, At
    <3>2. mq[Acceptor] \in accepted /\ reg[Acceptor] \in 0..Modulus - 1
      BY <3>1 DEF Types, PutPc, Carrying
    <3>3. length' \in 0..Modulus - 1
      BY <3>1, <3>2, NoWrap
    <3> QED
      BY <1>0, <3>1, <3>2, <3>3, WritesTyped DEF PutPc
  <2> QED
    BY <2>1, <2>2
<1>9. CASE Unlock(Acceptor, "put_unlock", "put_signal")
  <2>1. pc' = [pc EXCEPT ![Acceptor] = "put_signal"] /\ owner' \in {owner, Nil}
        /\ pc[Acceptor] = "put_unlock"
        /\ UNCHANGED <<waiting, dataVars, mq, reg, up, fault, exitVars>>
    BY <1>9 DEF Unlock, Step, At
  <2> QED
    BY <1>0, <2>1, MovesTyped DEF PutPc, Carrying
<1>10. CASE PutSignal
  <2>1. PICK woken \in SUBSET waiting :
          /\ waiting' = waiting \ (woken \ {taker})
          /\ pc' = [t \in Threads |-> IF t \in woken \ {taker} THEN "get_wake"
                                      ELSE IF t = Acceptor THEN "accept" ELSE pc[t]]
    BY <1>10 DEF PutSignal
  <2>2. mq' = [mq EXCEPT ![Acceptor] = Nil]
        /\ UNCHANGED <<owner, dataVars, reg, up, fault, exitVars>>
    BY <1>10 DEF PutSignal
  <2>3. Acceptor \notin woken
    BY <1>0
  <2>4. /\ pc' \in [Threads -> PutPc \union GetPc]
        /\ pc'[Acceptor] = "accept" /\ \A w \in Workers : pc'[w] \in GetPc
    BY <2>1, <2>3 DEF Types, PutPc, GetPc
  <2>5. mq' \in [Threads -> accepted \union {Nil}]
    BY <1>0, <2>2
  <2>6. TypeOK'
    <3>1. mq' \in [Threads -> Socks \union {Nil}] /\ waiting' \in SUBSET Workers
      BY <1>0, <2>1, <2>5
    <3> QED
      BY <2>2, <3>1 DEF Types, TypeOK, dataVars, listVars, exitVars
  <2>7. \A t \in Threads : pc'[t] \in {"put_store", "get_store", "get_link"} => pc'[t] = pc[t]
    BY <2>1
  <2>8. /\ \A t \in Threads : pc'[t] \in {"put_store", "get_store"} => reg'[t] \in 0..Modulus - 1
        /\ \A t \in Threads : pc'[t] = "get_link" => reg'[t] \in accepted \union {Nil}
    BY <2>2, <2>7 DEF Types
  <2>9. UNCHANGED <<first, last, next, accepted>>
    BY <2>2 DEF dataVars, listVars
  <2>10. pc'[Acceptor] \in PutPc /\ pc'[Acceptor] \notin Carrying
    BY <2>4 DEF PutPc, Carrying
  <2>11. /\ \A t \in Threads : mq'[t] \in accepted' \union {Nil}
         /\ first' \in accepted' \union {Nil} /\ last' \in accepted' \union {Nil}
         /\ \A s \in Socks : next'[s] \in accepted' \union {Nil}
    BY <1>0, <2>5, <2>9
  <2> QED
    BY <2>4, <2>6, <2>8, <2>9, <2>10, <2>11 DEF Types
<1>11. ASSUME NEW w \in Workers, NEW from \in {"get_lock", "get_wake"},
              Lock(w, from, "get_check")
       PROVE  Types'
  <2>1. pc' = [pc EXCEPT ![w] = "get_check"] /\ owner' \in {owner, w}
        /\ UNCHANGED <<waiting, dataVars, mq, reg, up, fault, exitVars>>
    BY <1>11 DEF Lock, Step
  <2> QED
    BY <1>0, <2>1, MovesTyped DEF GetPc
<1>12. ASSUME NEW w \in Workers, GetWait(w) PROVE Types'
  <2>1. pc' = [pc EXCEPT ![w] = "waiting"] /\ owner' = Nil /\ waiting' = waiting \union {w}
        /\ UNCHANGED <<dataVars, mq, reg, up, fault, exitVars>>
    BY <1>12 DEF GetWait, Step
  <2> QED
    BY <1>0, <2>1, MovesTyped DEF GetPc
<1>13. ASSUME NEW w \in Workers, SpuriousWakeup(w) PROVE Types'
  <2>1. pc' = [pc EXCEPT ![w] = "get_wake"] /\ waiting' = waiting \ {w}
        /\ UNCHANGED <<owner, dataVars, mq, reg, up, fault, exitVars>>
    BY <1>13 DEF SpuriousWakeup, Step
  <2> QED
    BY <1>0, <2>1, MovesTyped DEF GetPc
<1>14. ASSUME NEW w \in Workers, GetCheck(w) PROVE Types'
  <2>1. pc' = [pc EXCEPT ![w] = "get_length"]
        /\ UNCHANGED <<owner, waiting, dataVars, mq, reg, up, fault, exitVars>>
    BY <1>14 DEF GetCheck, Step
  <2> QED
    BY <1>0, <2>1, MovesTyped DEF GetPc
<1>15. ASSUME NEW w \in Workers, GetLength(w) PROVE Types'
  <2>1. CASE Load(w, "get_length", "get_store", length)
    <3>1. pc' = [pc EXCEPT ![w] = "get_store"] /\ reg' = [reg EXCEPT ![w] = length]
          /\ UNCHANGED <<owner, waiting, dataVars, mq, up, fault, exitVars>>
      BY <2>1 DEF Load, Step
    <3> QED
      BY <1>0, <3>1, LoadsTyped DEF GetPc
  <2>2. CASE ~ Load(w, "get_length", "get_store", length)
    <3>1. pc' = [pc EXCEPT ![w] = "get_mq"]
          /\ length' = (reg[w] + Modulus - 1) % Modulus
          /\ reg' = [reg EXCEPT ![w] = Nil]
          /\ pc[w] = "get_store"
          /\ UNCHANGED <<owner, waiting, first, last, next, accepted, freed, mq, up, fault,
                         exitVars>>
      BY <1>15, <2>2 DEF GetLength, Step, At
    <3>2. reg[w] \in 0..Modulus - 1
      BY <3>1 DEF Types
    <3>3. length' \in 0..Modulus - 1
      BY <3>1, <3>2, NoWrap
    <3> QED
      BY <1>0, <3>1, <3>3, WritesTyped DEF GetPc
  <2> QED
    BY <2>1, <2>2
<1>16. ASSUME NEW w \in Workers, GetMq(w) PROVE Types'
  <2>1. pc' = [pc EXCEPT ![w] = "get_compare"] /\ mq' = [mq EXCEPT ![w] = first]
        /\ UNCHANGED <<owner, waiting, first, last, length, next, accepted, freed, reg, up,
                       fault, exitVars>>
    BY <1>16 DEF GetMq, Step, dataVars, listVars
  <2>2. mq' \in [Threads -> accepted' \union {Nil}] /\ mq'[Acceptor] = mq[Acceptor]
    BY <1>0, <2>1
  <2> QED
    BY <1>0, <2>1, <2>2, WritesTyped DEF GetPc
<1>17. ASSUME NEW w \in Workers, GetCompare(w) PROVE Types'
  <2>1. PICK to \in {"get_last_one", "get_deref", "get_next"}, value \in {first, Nil} :
          pc' = [pc EXCEPT ![w] = to] /\ reg' = [reg EXCEPT ![w] = value]
    BY <1>17 DEF GetCompare, Load, Step
  <2>2. UNCHANGED <<owner, waiting, dataVars, mq, up, fault, exitVars>>
    BY <1>17 DEF GetCompare, Load, Step
  <2>3. value \in Socks \union {Nil} \union (0..Modulus - 1)
    BY <1>0
  <2> QED
    BY <1>0, <2>1, <2>2, <2>3, LoadsTyped DEF GetPc
<1>18. ASSUME NEW w \in Workers, GetDeref(w) PROVE Types'
  <2> SUFFICES ASSUME ~ Faults(w, "get_deref", first) PROVE Types'
    BY <1>5
  <2>1. PICK to \in {"get_last", "get_next"} : pc' = [pc EXCEPT ![w] = to]
    BY <1>18 DEF GetDeref, Step
  <2>2. UNCHANGED <<owner, waiting, dataVars, mq, reg, up, fault, exitVars>>
    BY <1>18 DEF GetDeref, Step
  <2> QED
    BY <1>0, <2>1, <2>2, MovesTyped DEF GetPc
<1>19. ASSUME NEW w \in Workers, GetLast(w) PROVE Types'
  <2>1. pc' = [pc EXCEPT ![w] = "get_first"] /\ last' = Nil
        /\ UNCHANGED <<owner, waiting, first, length, next, accepted, freed, mq, reg, up,
                       fault, exitVars>>
    BY <1>19 DEF GetLast, Step
  <2> QED
    BY <1>0, <2>1, WritesTyped DEF GetPc
<1>20. ASSUME NEW w \in Workers, GetFirst(w) PROVE Types'
  <2>1. pc' = [pc EXCEPT ![w] = "get_unlock"] /\ first' = Nil
        /\ UNCHANGED <<owner, waiting, last, length, next, accepted, freed, mq, reg, up,
                       fault, exitVars>>
    BY <1>20 DEF GetFirst, Step
  <2> QED
    BY <1>0, <2>1, WritesTyped DEF GetPc
<1>21. ASSUME NEW w \in Workers, GetNext(w) PROVE Types'
  <2>1. CASE first \notin freed \union {Nil} /\ Load(w, "get_next", "get_link", next[first])
    <3>1. pc' = [pc EXCEPT ![w] = "get_link"] /\ reg' = [reg EXCEPT ![w] = next[first]]
          /\ first # Nil
          /\ UNCHANGED <<owner, waiting, dataVars, mq, up, fault, exitVars>>
      BY <2>1 DEF Load, Step
    <3>2. next[first] \in accepted \union {Nil}
      BY <1>0, <3>1
    <3> QED
      BY <1>0, <3>1, <3>2, LoadsTyped DEF GetPc
  <2>2. CASE /\ Step(w, "get_link", "get_unlock") /\ first' = reg[w]
             /\ reg' = [reg EXCEPT ![w] = Nil]
             /\ UNCHANGED <<owner, waiting, last, length, next, accepted, freed, mq>>
    <3>1. pc' = [pc EXCEPT ![w] = "get_unlock"] /\ pc[w] = "get_link"
          /\ UNCHANGED <<up, fault, exitVars>>
      BY <2>2 DEF Step, At
    <3>2. reg[w] \in accepted \union {Nil}
      BY <3>1 DEF Types
    <3> QED
      BY <1>0, <2>2, <3>1, <3>2, WritesTyped DEF GetPc
  <2> QED
    BY <1>5, <1>21, <2>1, <2>2 DEF GetNext
<1>22. ASSUME NEW w \in Workers, Unlock(w, "get_unlock", "get_free") PROVE Types'
  <2>1. pc' = [pc EXCEPT ![w] = "get_free"] /\ owner' \in {owner, Nil}
        /\ UNCHANGED <<waiting, dataVars, mq, reg, up, fault, exitVars>>
    BY <1>22 DEF Unlock, Step
  <2> QED
    BY <1>0, <2>1, MovesTyped DEF GetPc
<1>23. ASSUME NEW w \in Workers, GetFree(w) PROVE Types'
  <2> SUFFICES ASSUME ~ Faults(w, "get_free", mq[w]) PROVE Types'
    BY <1>5
  <2>1. pc' = [pc EXCEPT ![w] = "serve"] /\ mq' = [mq EXCEPT ![w] = Nil]
        /\ freed' = freed \union {mq[w]} /\ mq[w] # Nil
        /\ UNCHANGED <<owner, waiting, first, last, length, next, accepted, reg, up, fault,
                       exitVars>>
    BY <1>23 DEF GetFree, Step, listVars
  <2>2. mq' \in [Threads -> accepted' \union {Nil}] /\ mq'[Acceptor] = mq[Acceptor]
        /\ freed' \subseteq accepted
    BY <1>0, <2>1
  <2> QED
    BY <1>0, <2>1, <2>2, WritesTyped DEF GetPc
<1>24. ASSUME NEW w \in Workers, DoCall(w) PROVE Types'
  <2>1. pc' = [pc EXCEPT ![w] = "get_lock"]
        /\ UNCHANGED <<owner, waiting, dataVars, mq, reg, up, fault, exitVars>>
    BY <1>24 DEF DoCall, Step
  <2> QED
    BY <1>0, <2>1, MovesTyped DEF GetPc
<1>25. ASSUME NEW t \in Threads, SigintHandler(t) PROVE Types'
  <2>1. taker' = t /\ dpc' = "mutex" /\ quiet' \in BOOLEAN
    BY <1>25 DEF SigintHandler
  <2>2. UNCHANGED <<owner, waiting, dataVars, pc, mq, reg, up, fault, mutexGone, condBlocks>>
    BY <1>25 DEF SigintHandler
  <2> QED
    BY <2>1, <2>2, ExitsTyped DEF Types, TypeOK, dataVars, listVars
<1>26. CASE ExitHandler
  <2>1. /\ first' \in {first, Nil} /\ last' \in {last, Nil} /\ length' \in {length, 0}
        /\ mutexGone' \in {mutexGone, FALSE, owner = Nil} /\ up' \in {up, FALSE}
        /\ UNCHANGED <<owner, waiting, next, accepted, freed, pc, mq, reg, fault, taker,
                       condBlocks, quiet>>
        /\ dpc' \in {"cond", "last", "first", "length", "exit", "done"}
    BY <1>26 DEF ExitHandler, QueueDestroy, DestroyMutex, DestroyCond, DestroyLast,
                 DestroyFirst, DestroyLength, Destroy
  <2>2. mutexGone' \in BOOLEAN /\ up' \in BOOLEAN /\ quiet' \in BOOLEAN
    <3>1. mutexGone \in BOOLEAN /\ up \in BOOLEAN /\ quiet \in BOOLEAN
      BY DEF Types, TypeOK
    <3> QED
      BY <2>1, <3>1
  <2>3. taker' \in Threads \union {Nil} /\ fault' \in {"none", "null", "freed"}
    BY <2>1 DEF Types, TypeOK
  <2> QED
    BY <2>1, <2>2, <2>3, ExitsTyped
<1>27. CASE UNCHANGED vars
  BY <1>27 DEF vars, Types, TypeOK, dataVars, listVars, exitVars
<1> QED
  BY <1>1, <1>2, <1>3, <1>4, <1>6, <1>7, <1>8, <1>9, <1>10, <1>11, <1>12, <1>13, <1>14,
     <1>15, <1>16, <1>17, <1>18, <1>19, <1>20, <1>21, <1>22, <1>23, <1>24, <1>25, <1>26,
     <1>27 DEF Next, QueuePut, QueueGet, GetWake

-----------------------------------------------------------------------------
\* All but exit_handler and SIGINT leave exit_handler's variables alone.
LEMMA ExitVarsKept ==
  [Next]_vars => \/ UNCHANGED <<up, exitVars>>
                 \/ ExitHandler
                 \/ \E t \in Threads : SigintHandler(t)
<1>1. ASSUME NEW t, NEW from, NEW m, Faults(t, from, m) PROVE UNCHANGED <<up, exitVars>>
  BY <1>1 DEF Faults
<1>2. ASSUME NEW t, NEW from, NEW to, Step(t, from, to) PROVE UNCHANGED <<up, exitVars>>
  BY <1>2 DEF Step
<1>3. ASSUME NEW s \in Socks, PutAlloc(s) PROVE UNCHANGED <<up, exitVars>>
  BY <1>2, <1>3 DEF PutAlloc
<1>4. QueuePut => UNCHANGED <<up, exitVars>>
  BY <1>1, <1>2 DEF QueuePut, Lock, PutCheck, PutFirst, PutNext, PutLast, PutLength, Load,
                    Unlock, PutSignal
<1>5. ASSUME NEW w \in Workers, QueueGet(w) \/ SpuriousWakeup(w)
      PROVE  UNCHANGED <<up, exitVars>>
  BY <1>1, <1>2, <1>5 DEF QueueGet, Lock, GetWait, GetWake, GetCheck, GetLength, GetMq,
       GetCompare, GetDeref, GetLast, GetFirst, GetNext, Load, Unlock, GetFree, DoCall,
       SpuriousWakeup
<1>6. UNCHANGED vars => UNCHANGED <<up, exitVars>>
  BY DEF vars
<1> QED
  BY <1>3, <1>4, <1>5, <1>6 DEF Next

LEMMA StepPlaces == Types /\ Places /\ [Next]_vars => Places'
<1> SUFFICES ASSUME Types, Places, [Next]_vars PROVE Places'
  OBVIOUS
<1> USE Distinct
<1>1. CASE UNCHANGED <<up, exitVars>>
  BY <1>1 DEF Places, exitVars
<1>2. CASE ExitHandler
  BY <1>2 DEF Places, ExitHandler, QueueDestroy, DestroyMutex, DestroyCond, DestroyLast,
              DestroyFirst, DestroyLength, Destroy
<1>3. ASSUME NEW t \in Threads, SigintHandler(t) PROVE Places'
  BY <1>3 DEF Places, SigintHandler
<1> QED
  BY <1>1, <1>2, <1>3, ExitVarsKept

\* The mutex is not repaired.
LEMMA GoneForGood == Types /\ Places /\ [Next]_vars /\ ~ mutexGone' => ~ mutexGone
<1> SUFFICES ASSUME Types, Places, [Next]_vars, mutexGone PROVE mutexGone'
  OBVIOUS
<1>1. CASE UNCHANGED <<up, exitVars>>
  BY <1>1 DEF exitVars
<1>2. CASE ExitHandler
  BY <1>2 DEF Places, ExitHandler, QueueDestroy, DestroyMutex, DestroyCond, DestroyLast,
              DestroyFirst, DestroyLength, Destroy
<1>3. ASSUME NEW t \in Threads, SigintHandler(t) PROVE mutexGone'
  BY <1>3 DEF SigintHandler
<1> QED
  BY <1>1, <1>2, <1>3, ExitVarsKept

\* A thread that stays inside, or stays outside, or comes out.
LEMMA InsideKept ==
  ASSUME Exclusive, Types, NEW t \in Threads, NEW to, pc' = [pc EXCEPT ![t] = to],
         to \in Inside => pc[t] \in Inside, pc[t] # "waiting",
         UNCHANGED <<owner, waiting, mutexGone>>
  PROVE  Exclusive'
BY DEF Exclusive, Types, TypeOK

LEMMA StepExclusive == Types /\ Places /\ Exclusive /\ [Next]_vars => Exclusive'
<1> SUFFICES ASSUME Types, Places, Exclusive, [Next]_vars, ~ mutexGone' PROVE Exclusive'
  BY DEF Exclusive
<1>0. ~ mutexGone /\ (\A t \in Threads : pc[t] \in Inside => owner = t)
      /\ (\A w \in waiting : pc[w] = "waiting") /\ waiting \subseteq Workers
      /\ pc \in [Threads -> PutPc \union GetPc]
  BY GoneForGood DEF Exclusive, Types, TypeOK
<1> USE Distinct
<1>1. ASSUME NEW t \in Threads, NEW from, NEW m, Faults(t, from, m) PROVE Exclusive'
  BY <1>0, <1>1 DEF Faults, Exclusive, exitVars
<1>2. ASSUME NEW t \in Threads, NEW from, NEW to, Step(t, from, to), owner' = owner,
             waiting' = waiting, to \in Inside => from \in Inside, from # "waiting"
      PROVE  Exclusive'
  <2>1. pc' = [pc EXCEPT ![t] = to] /\ pc[t] = from /\ mutexGone' = mutexGone
    BY <1>2 DEF Step, At, exitVars
  <2> QED
    BY <1>2, <2>1, InsideKept
<1>3. ASSUME NEW t \in Threads, NEW from, NEW to, NEW value, Load(t, from, to, value),
             to \in Inside => from \in Inside, from # "waiting"
      PROVE  Exclusive'
  BY <1>2, <1>3 DEF Load
<1>4. ASSUME NEW t \in Threads, NEW from, NEW to, Lock(t, from, to), from # "waiting"
      PROVE  Exclusive'
  <2>1. pc' = [pc EXCEPT ![t] = to] /\ owner = Nil /\ owner' = t /\ waiting' = waiting
        /\ pc[t] # "waiting"
    BY <1>0, <1>4 DEF Lock, Step, At
  <2> QED
    BY <1>0, <2>1 DEF Exclusive
<1>5. ASSUME NEW t \in Threads, NEW from, NEW to, Unlock(t, from, to), to \notin Inside,
             from # "waiting"
      PROVE  Exclusive'
  <2>1. pc' = [pc EXCEPT ![t] = to] /\ waiting' = waiting
        /\ pc[t] # "waiting" /\ owner' = IF owner = t THEN Nil ELSE owner
    BY <1>5 DEF Unlock, Step, At
  <2> QED
    BY <1>0, <1>5, <2>1 DEF Exclusive
<1>6. ASSUME NEW s \in Socks, PutAlloc(s) PROVE Exclusive'
  BY <1>2, <1>6 DEF PutAlloc, Inside, Unlinking
<1>7. CASE QueuePut
  <2>1. CASE PutSignal
    <3>1. PICK woken \in SUBSET waiting :
            /\ pc' = [t \in Threads |-> IF t \in woken \ {taker} THEN "get_wake"
                                        ELSE IF t = Acceptor THEN "accept" ELSE pc[t]]
            /\ waiting' = waiting \ (woken \ {taker})
      BY <2>1 DEF PutSignal
    <3>2. owner' = owner
      BY <2>1 DEF PutSignal
    <3>3. \A t \in Threads : pc'[t] \in Inside => pc'[t] = pc[t]
      BY <3>1 DEF Inside, Unlinking
    <3>4. \A w \in waiting' : pc'[w] = "waiting"
      BY <1>0, <3>1
    <3> QED
      BY <1>0, <3>2, <3>3, <3>4 DEF Exclusive
  <2>2. CASE PutCheck
    BY <1>2, <2>2 DEF PutCheck, Inside
  <2>3. CASE PutFirst \/ PutNext \/ PutLast
    BY <1>1, <1>2, <2>3 DEF PutFirst, PutNext, PutLast, Inside
  <2>4. CASE PutLength
    BY <1>2, <1>3, <2>4 DEF PutLength, Inside
  <2>5. CASE Lock(Acceptor, "put_lock", "put_check")
    BY <1>4, <2>5
  <2>6. CASE Unlock(Acceptor, "put_unlock", "put_signal")
    BY <1>5, <2>6 DEF Inside, Unlinking
  <2> QED
    BY <1>7, <2>1, <2>2, <2>3, <2>4, <2>5, <2>6 DEF QueuePut
<1>8. ASSUME NEW w \in Workers, QueueGet(w) PROVE Exclusive'
  <2>1. CASE Lock(w, "get_lock", "get_check") \/ GetWake(w)
    BY <1>4, <2>1 DEF GetWake
  <2>2. CASE GetWait(w)
    <3>1. pc' = [pc EXCEPT ![w] = "waiting"] /\ pc[w] = "get_check" /\ owner' = Nil
          /\ waiting' = waiting \union {w}
      BY <2>2 DEF GetWait, Step, At
    <3>2. owner = w /\ \A t \in Threads : t # w => pc[t] \notin Inside
      BY <1>0, <3>1 DEF Inside
    <3>3. "waiting" \notin Inside
      BY DEF Inside, Unlinking
    <3> QED
      BY <1>0, <3>1, <3>2, <3>3 DEF Exclusive
  <2>3. CASE GetCheck(w) \/ GetLength(w) \/ GetMq(w)
    BY <1>2, <1>3, <2>3 DEF GetCheck, GetLength, GetMq, Inside, Unlinking
  <2>4. CASE GetCompare(w)
    <3>1. PICK from \in {"get_compare", "get_last_one"},
               to \in {"get_last_one", "get_deref", "get_next"} : Step(w, from, to)
      BY <2>4 DEF GetCompare, Load
    <3>2. UNCHANGED <<owner, waiting>>
      BY <2>4 DEF GetCompare, Load
    <3> QED
      BY <1>2, <3>1, <3>2 DEF Inside, Unlinking
  <2>5. CASE GetDeref(w)
    BY <1>1, <1>2, <2>5 DEF GetDeref, Inside, Unlinking
  <2>6. CASE GetLast(w) \/ GetFirst(w)
    BY <1>2, <2>6 DEF GetLast, GetFirst, Inside, Unlinking
  <2>7. CASE GetNext(w)
    BY <1>1, <1>2, <1>3, <2>7 DEF GetNext, Inside, Unlinking
  <2>8. CASE Unlock(w, "get_unlock", "get_free")
    BY <1>5, <2>8 DEF Inside, Unlinking
  <2>9. CASE GetFree(w) \/ DoCall(w)
    BY <1>1, <1>2, <2>9 DEF GetFree, DoCall, Inside, Unlinking
  <2> QED
    BY <1>8, <2>1, <2>2, <2>3, <2>4, <2>5, <2>6, <2>7, <2>8, <2>9 DEF QueueGet
<1>9. ASSUME NEW w \in Workers, SpuriousWakeup(w) PROVE Exclusive'
  <2>1. pc' = [pc EXCEPT ![w] = "get_wake"] /\ owner' = owner /\ waiting' = waiting \ {w}
    BY <1>9 DEF SpuriousWakeup, Step
  <2>2. "get_wake" \notin Inside
    BY DEF Inside, Unlinking
  <2> QED
    BY <1>0, <2>1, <2>2 DEF Exclusive
<1>10. ASSUME UNCHANGED <<pc, owner, waiting>> PROVE Exclusive'
  BY <1>0, <1>10 DEF Exclusive
<1>11. CASE ExitHandler
  BY <1>10, <1>11 DEF ExitHandler, QueueDestroy, DestroyMutex, DestroyCond, DestroyLast,
                      DestroyFirst, DestroyLength, Destroy
<1>12. ASSUME NEW t \in Threads, SigintHandler(t) PROVE Exclusive'
  BY <1>10, <1>12 DEF SigintHandler
<1>13. CASE UNCHANGED vars
  BY <1>10, <1>13 DEF vars
<1> QED
  BY <1>6, <1>7, <1>8, <1>9, <1>11, <1>12, <1>13 DEF Next

-----------------------------------------------------------------------------
\* The thread inside is alone there.
LEMMA Alone ==
  ASSUME Exclusive, ~ mutexGone, NEW t \in Threads, pc[t] \in Inside
  PROVE  \A u \in Threads : u # t => pc[u] \notin Inside
BY DEF Exclusive

\* Who is not inside knows nothing of the list.
LEMMA KnowsNothing ==
  ASSUME NEW t \in Threads, pc'[t] \notin Unlinking, pc'[t] # "put_last"
  PROVE  Known(t)'
BY DEF Known, Unlinking

LEMMA OthersKnowNothing ==
  ASSUME NEW t \in Threads, \A u \in Threads : u # t => pc[u] \notin Inside /\ pc'[u] = pc[u]
  PROVE  \A u \in Threads : u # t => Known(u)'
<1> TAKE u \in Threads
<1> HAVE u # t
<1>1. pc'[u] \notin Unlinking /\ pc'[u] # "put_last"
  BY DEF Inside
<1> QED
  BY <1>1, KnowsNothing

LEMMA LiveKept ==
  ASSUME UNCHANGED <<accepted, freed>>,
         \A t \in Threads : pc[t] \in OutOfList <=> pc'[t] \in OutOfList,
         \A t \in Threads : pc[t] \in OutOfList => mq'[t] = mq[t]
  PROVE  Live' = Live
BY DEF Live

\* queue_put links its message.
LEMMA LinkIn ==
  ASSUME Types, Hands, pc[Acceptor] \in {"put_first", "put_next"},
         pc' = [pc EXCEPT ![Acceptor] = "put_last"], UNCHANGED <<accepted, freed, mq>>
  PROVE  /\ Live' = Live \union {mq[Acceptor]} /\ mq[Acceptor] \notin Live
         /\ mq[Acceptor] \in accepted /\ mq[Acceptor] \in Socks /\ mq[Acceptor] # Nil
         /\ Hands'
<1> USE Distinct
<1>1. "put_first" \in OutOfList /\ "put_next" \in OutOfList /\ "put_last" \notin OutOfList
  BY DEF OutOfList
<1>2. pc'[Acceptor] = "put_last" /\ \A t \in Threads : t # Acceptor => pc'[t] = pc[t]
  BY DEF Types
<1>3. mq[Acceptor] \in accepted \ freed /\ accepted \subseteq Socks
  BY <1>1 DEF Hands, Types, TypeOK
<1>4. mq[Acceptor] \notin Live
  BY <1>1 DEF Live
<1>5. Live' = Live \union {mq[Acceptor]}
  <2>1. ASSUME NEW s \in Live' PROVE s \in Live \union {mq[Acceptor]}
    BY <1>1, <1>2, <2>1 DEF Live
  <2>2. ASSUME NEW s \in Live PROVE s \in Live'
    BY <1>1, <1>2, <2>2 DEF Live
  <2>3. mq[Acceptor] \in Live'
    BY <1>1, <1>2, <1>3 DEF Live, Hands
  <2> QED
    BY <2>1, <2>2, <2>3
<1>6. Hands'
  BY <1>1, <1>2 DEF Hands
<1> QED
  BY <1>3, <1>4, <1>5, <1>6

\* queue_get unlinks its message.
LEMMA LinkOut ==
  ASSUME Types, Hands, NEW w \in Workers, pc[w] \notin OutOfList, mq[w] \in Live,
         pc' = [pc EXCEPT ![w] = "get_unlock"], UNCHANGED <<accepted, freed, mq>>
  PROVE  Live' = Live \ {mq[w]} /\ Hands'
<1> USE Distinct
<1>1. "get_unlock" \in OutOfList
  BY DEF OutOfList
<1>2. pc'[w] = "get_unlock" /\ \A t \in Threads : t # w => pc'[t] = pc[t]
  BY DEF Types
<1>3. Live' = Live \ {mq[w]}
  <2>1. ASSUME NEW s \in Live' PROVE s \in Live /\ s # mq[w]
    BY <1>1, <1>2, <2>1 DEF Live
  <2>2. ASSUME NEW s \in Live, s # mq[w] PROVE s \in Live'
    BY <1>1, <1>2, <2>2 DEF Live
  <2> QED
    BY <2>1, <2>2
<1>4. Hands'
  BY <1>1, <1>2 DEF Hands, Live
<1> QED
  BY <1>3, <1>4

\* Steps that leave the list alone, and what each thread owns.
LEMMA LocalSound ==
  ASSUME Types, Sound, NEW t \in Threads, NEW from, NEW to, Step(t, from, to),
         UNCHANGED <<first, last, next, accepted, freed>>,
         \A u \in Threads : u # t => mq'[u] = mq[u] /\ reg'[u] = reg[u],
         from \in OutOfList => mq'[t] = mq[t], from \in OutOfList <=> to \in OutOfList,
         from # "put_last", to # "put_last", Known(t)'
  PROVE  Sound'
<1> USE Distinct
<1>1. pc[t] = from /\ pc'[t] = to /\ \A u \in Threads : u # t => pc'[u] = pc[u]
  BY DEF Step, At, Types
<1>2. Live' = Live
  BY <1>1, LiveKept
<1>3. Hands'
  BY <1>1 DEF Sound, Hands
<1>4. /\ pc'[Acceptor] = "put_last" <=> pc[Acceptor] = "put_last"
      /\ pc'[Acceptor] \in OutOfList => pc[Acceptor] \in OutOfList /\ mq'[Acceptor] = mq[Acceptor]
  BY <1>1
<1>5. Links'
  BY <1>2, <1>4 DEF Sound, Links
<1>6. ASSUME NEW u \in Threads, u # t PROVE Known(u)'
  <2>1. Known(u) /\ pc'[u] = pc[u] /\ mq'[u] = mq[u] /\ reg'[u] = reg[u]
    BY <1>1, <1>6 DEF Sound
  <2> QED
    BY <1>2, <2>1 DEF Known
<1> QED
  BY <1>3, <1>5, <1>6 DEF Sound

-----------------------------------------------------------------------------
\* The steps that link or unlink a message, or pass one on.
LEMMA AllocSound ==
  ASSUME Types, Sound, NEW s \in Socks, PutAlloc(s)
  PROVE  Sound' /\ Live' = Live
<1> USE Distinct
<1>1. /\ pc[Acceptor] = "accept" /\ pc'[Acceptor] = "put_lock" /\ s \notin accepted
      /\ \A t \in Threads : t # Acceptor => pc'[t] = pc[t] /\ mq'[t] = mq[t]
      /\ mq'[Acceptor] = s /\ accepted' = accepted \union {s}
      /\ UNCHANGED <<first, last, next, freed, reg>>
  BY DEF PutAlloc, Step, At, Types, TypeOK, listVars
<1>2. "accept" \notin OutOfList /\ "put_lock" \in OutOfList
  BY DEF OutOfList
<1>3. s \notin freed /\ next[s] = Nil
  BY <1>1 DEF Sound, Links, Types, TypeOK
<1>4. Live' = Live
  <2>1. ASSUME NEW r \in Live' PROVE r \in Live
    BY <1>1, <1>2, <2>1 DEF Live
  <2>2. ASSUME NEW r \in Live PROVE r \in Live'
    BY <1>1, <1>2, <2>2 DEF Live
  <2> QED
    BY <2>1, <2>2
<1>5. Hands'
  <2>1. \A t \in Threads : t # Acceptor /\ pc[t] \in OutOfList => mq[t] # s
    BY <1>1 DEF Sound, Hands
  <2> QED
    BY <1>1, <1>2, <1>3, <2>1 DEF Sound, Hands
<1>6. Links'
  BY <1>1, <1>2, <1>3, <1>4 DEF Sound, Links
<1>7. ASSUME NEW t \in Threads PROVE Known(t)'
  <2>1. CASE t = Acceptor
    BY <1>1, <2>1, KnowsNothing DEF Unlinking
  <2>2. CASE t # Acceptor
    <3>1. Known(t) /\ pc'[t] = pc[t] /\ mq'[t] = mq[t] /\ reg'[t] = reg[t]
      BY <1>1, <2>2 DEF Sound
    <3> QED
      BY <1>1, <1>4, <3>1 DEF Known
  <2> QED
    BY <2>1, <2>2
<1> QED
  BY <1>4, <1>5, <1>6, <1>7 DEF Sound

LEMMA PutFirstSound ==
  ASSUME Types, Exclusive, ~ mutexGone, Sound, PutFirst
  PROVE  Sound'
<1> USE Distinct
<1>1. /\ pc[Acceptor] = "put_first" /\ pc' = [pc EXCEPT ![Acceptor] = "put_last"]
      /\ first' = mq[Acceptor]
      /\ UNCHANGED <<last, length, next, accepted, freed, mq, reg>>
  BY DEF PutFirst, Step, At
<1>2. pc'[Acceptor] = "put_last"
      /\ \A t \in Threads : t # Acceptor => pc[t] \notin Inside /\ pc'[t] = pc[t]
  BY <1>1, Alone DEF Types, Inside
<1>3. PICK m \in Socks : m = mq[Acceptor]
  BY <1>1, LinkIn DEF Sound
<1>4. Live' = Live \union {m} /\ m \notin Live /\ m # Nil /\ Hands'
  BY <1>1, <1>3, LinkIn DEF Sound
<1>5. next[m] = Nil
  BY <1>1, <1>3 DEF Sound, Links, OutOfList
<1>6. Links'
  <2>1. pc'[Acceptor] \notin OutOfList
    BY <1>2 DEF OutOfList
  <2>2. Links
    BY DEF Sound
  <2> QED
    BY <1>1, <1>2, <1>3, <1>4, <1>5, <2>1, <2>2 DEF Links
<1>7. Known(Acceptor)'
  BY <1>1, <1>2, <1>3, <1>4, <1>5 DEF Known, Unlinking
<1> QED
  BY <1>2, <1>4, <1>6, <1>7, OthersKnowNothing DEF Sound

LEMMA PutNextSound ==
  ASSUME Types, Exclusive, ~ mutexGone, Sound, PutNext, fault' = "none"
  PROVE  /\ Sound' /\ last \in Live
         /\ next' = [next EXCEPT ![last] = mq[Acceptor]]
<1> USE Distinct
<1>1. /\ pc[Acceptor] = "put_next" /\ pc' = [pc EXCEPT ![Acceptor] = "put_last"]
      /\ next' = [next EXCEPT ![last] = mq[Acceptor]] /\ last # Nil
      /\ UNCHANGED <<first, last, length, accepted, freed, mq, reg>>
  BY DEF PutNext, Step, At, Faults
<1>2. pc'[Acceptor] = "put_last"
      /\ \A t \in Threads : t # Acceptor => pc[t] \notin Inside /\ pc'[t] = pc[t]
  BY <1>1, Alone DEF Types, Inside
<1>3. PICK m \in Socks : m = mq[Acceptor]
  BY <1>1, LinkIn DEF Sound
<1>4. Live' = Live \union {m} /\ m \notin Live /\ m # Nil /\ Hands'
  BY <1>1, <1>3, LinkIn DEF Sound
<1>5. next[m] = Nil /\ last \in Live /\ Links
  BY <1>1, <1>3 DEF Sound, Links, OutOfList
<1>6. Live \subseteq Socks /\ Live \subseteq accepted
  BY DEF Live, Types, TypeOK
<1>7. next'[last] = m /\ \A s \in Socks : s # last => next'[s] = next[s]
  BY <1>1, <1>3, <1>5, <1>6 DEF Types, TypeOK
<1>8. Links'
  <2>1. pc'[Acceptor] \notin OutOfList
    BY <1>2 DEF OutOfList
  <2>2. \A s \in Live' : next'[s] \in Live' \union {Nil} /\ (next'[s] # Nil => next'[s] # first')
    BY <1>1, <1>3, <1>4, <1>5, <1>6, <1>7 DEF Links
  <2>3. \A r, s \in Live' : next'[r] = next'[s] /\ next'[r] # Nil => r = s
    <3>1. \A s \in Live : s # last => next'[s] # m
      BY <1>4, <1>5, <1>6, <1>7 DEF Links
    <3>2. next'[m] = Nil
      BY <1>4, <1>5, <1>7
    <3> QED
      BY <1>4, <1>5, <1>6, <1>7, <3>1, <3>2 DEF Links
  <2>4. \A s \in Socks \ accepted' : next'[s] = Nil
    BY <1>1, <1>5, <1>6, <1>7 DEF Links
  <2> QED
    BY <1>1, <1>2, <1>4, <1>5, <2>1, <2>2, <2>3, <2>4 DEF Links
<1>9. Known(Acceptor)'
  BY <1>1, <1>2, <1>3, <1>4, <1>5, <1>7 DEF Known, Unlinking
<1> QED
  BY <1>1, <1>2, <1>4, <1>5, <1>8, <1>9, OthersKnowNothing DEF Sound

LEMMA PutLastSound ==
  ASSUME Types, Exclusive, ~ mutexGone, Sound, PutLast
  PROVE  Sound' /\ Live' = Live
<1> USE Distinct
<1>1. /\ pc[Acceptor] = "put_last" /\ pc' = [pc EXCEPT ![Acceptor] = "put_length"]
      /\ last' = mq[Acceptor]
      /\ UNCHANGED <<first, length, next, accepted, freed, mq, reg>>
  BY DEF PutLast, Step, At
<1>2. pc'[Acceptor] = "put_length"
      /\ \A t \in Threads : t # Acceptor => pc[t] \notin Inside /\ pc'[t] = pc[t]
  BY <1>1, Alone DEF Types, Inside
<1>3. pc[Acceptor] \notin OutOfList /\ pc'[Acceptor] \notin OutOfList
  BY <1>1, <1>2 DEF OutOfList
<1>4. Live' = Live
  BY <1>1, <1>2, <1>3, LiveKept
<1>5. Hands'
  BY <1>1, <1>2, <1>3 DEF Sound, Hands
<1>6. mq[Acceptor] \in Live /\ next[mq[Acceptor]] = Nil
  BY <1>1 DEF Sound, Known
<1>7. Links'
  BY <1>1, <1>2, <1>3, <1>4, <1>6 DEF Sound, Links
<1>8. Known(Acceptor)'
  BY <1>2, KnowsNothing DEF Unlinking
<1> QED
  BY <1>2, <1>4, <1>5, <1>7, <1>8, OthersKnowNothing DEF Sound

LEMMA GetLastSound ==
  ASSUME Types, Exclusive, ~ mutexGone, Sound, NEW w \in Workers, GetLast(w)
  PROVE  Sound' /\ Live' = Live
<1> USE Distinct
<1>1. /\ pc[w] = "get_last" /\ pc' = [pc EXCEPT ![w] = "get_first"] /\ last' = Nil
      /\ UNCHANGED <<first, length, next, accepted, freed, mq, reg>>
  BY DEF GetLast, Step, At
<1>2. pc'[w] = "get_first"
      /\ \A t \in Threads : t # w => pc[t] \notin Inside /\ pc'[t] = pc[t]
  BY <1>1, Alone DEF Types, Inside, Unlinking
<1>3. pc[w] \notin OutOfList /\ pc'[w] \notin OutOfList /\ pc[w] \in Unlinking
  BY <1>1, <1>2 DEF OutOfList, Unlinking
<1>4. Live' = Live
  BY <1>1, <1>2, <1>3, LiveKept
<1>5. Hands'
  BY <1>1, <1>2, <1>3 DEF Sound, Hands
<1>6. Links'
  BY <1>1, <1>2, <1>4 DEF Sound, Links
<1>7. Known(w)'
  BY <1>1, <1>2, <1>3, <1>4 DEF Sound, Known
<1> QED
  BY <1>2, <1>4, <1>5, <1>6, <1>7, OthersKnowNothing DEF Sound

LEMMA GetFirstSound ==
  ASSUME Types, Exclusive, ~ mutexGone, Sound, NEW w \in Workers, GetFirst(w)
  PROVE  Sound' /\ Live' = Live \ {mq[w]}
<1> USE Distinct
<1>1. /\ pc[w] = "get_first" /\ pc' = [pc EXCEPT ![w] = "get_unlock"] /\ first' = Nil
      /\ UNCHANGED <<last, length, next, accepted, freed, mq, reg>>
  BY DEF GetFirst, Step, At
<1>2. pc'[w] = "get_unlock"
      /\ \A t \in Threads : t # w => pc[t] \notin Inside /\ pc'[t] = pc[t]
  BY <1>1, Alone DEF Types, Inside, Unlinking
<1>3. pc[w] \notin OutOfList /\ pc[w] \in Unlinking
  BY <1>1 DEF OutOfList, Unlinking
<1>4. mq[w] \in Live /\ last = Nil /\ \A s \in Live : next[s] # mq[w]
  BY <1>1, <1>3 DEF Sound, Known
<1>5. Live' = Live \ {mq[w]} /\ Hands'
  BY <1>1, <1>3, <1>4, LinkOut DEF Sound
<1>6. pc'[Acceptor] = pc[Acceptor]
  BY <1>2
<1>7. Links'
  BY <1>1, <1>4, <1>5, <1>6 DEF Sound, Links
<1>8. Known(w)'
  BY <1>2, KnowsNothing DEF Unlinking
<1> QED
  BY <1>2, <1>5, <1>7, <1>8, OthersKnowNothing DEF Sound

GetLink(w) == /\ Step(w, "get_link", "get_unlock")
              /\ first' = reg[w]
              /\ reg' = [reg EXCEPT ![w] = Nil]
              /\ UNCHANGED <<owner, waiting, last, length, next, accepted, freed, mq>>

LEMMA GetLinkSound ==
  ASSUME Types, Exclusive, ~ mutexGone, Sound, NEW w \in Workers, GetLink(w)
  PROVE  Sound' /\ Live' = Live \ {mq[w]}
<1> USE Distinct
<1>1. /\ pc[w] = "get_link" /\ pc' = [pc EXCEPT ![w] = "get_unlock"] /\ first' = reg[w]
      /\ UNCHANGED <<last, length, next, accepted, freed, mq>>
  BY DEF GetLink, Step, At
<1>2. pc'[w] = "get_unlock"
      /\ \A t \in Threads : t # w => pc[t] \notin Inside /\ pc'[t] = pc[t]
  BY <1>1, Alone DEF Types, Inside, Unlinking
<1>3. pc[w] \notin OutOfList /\ pc[w] \in Unlinking
  BY <1>1 DEF OutOfList, Unlinking
<1>4. /\ mq[w] \in Live /\ last # mq[w] /\ reg[w] = next[mq[w]]
      /\ \A s \in Live : next[s] # mq[w]
  BY <1>1, <1>3 DEF Sound, Known
<1>5. Live' = Live \ {mq[w]} /\ Hands'
  BY <1>1, <1>3, <1>4, LinkOut DEF Sound
<1>6. pc'[Acceptor] = pc[Acceptor]
  BY <1>2
<1>7. Links'
  <2>1. first' \in Live' \union {Nil} /\ last' \in Live' \union {Nil}
    BY <1>1, <1>4, <1>5 DEF Sound, Links
  <2>2. \A s \in Live' : next[s] \in Live' \union {Nil} /\ (next[s] # Nil => next[s] # first')
    BY <1>1, <1>4, <1>5 DEF Sound, Links
  <2> QED
    BY <1>1, <1>5, <1>6, <2>1, <2>2 DEF Sound, Links
<1>8. Known(w)'
  BY <1>2, KnowsNothing DEF Unlinking
<1> QED
  BY <1>2, <1>5, <1>7, <1>8, OthersKnowNothing DEF Sound

LEMMA GetFreeSound ==
  ASSUME Types, Sound, NEW w \in Workers, GetFree(w)
  PROVE  /\ fault' = "none" /\ Sound' /\ Live' = Live
<1> USE Distinct
<1>1. pc[w] = "get_free" /\ fault = "none"
  BY DEF GetFree, Step, At, Faults
<1>2. "get_free" \in OutOfList /\ "serve" \notin OutOfList
  BY DEF OutOfList
<1>3. mq[w] \in accepted \ freed /\ mq[w] # Nil
  BY <1>1, <1>2 DEF Sound, Hands, Types, TypeOK
<1>4. /\ pc' = [pc EXCEPT ![w] = "serve"] /\ mq' = [mq EXCEPT ![w] = Nil]
      /\ freed' = freed \union {mq[w]} /\ fault' = fault
      /\ UNCHANGED <<first, last, next, accepted, reg>>
  BY <1>3 DEF GetFree, Step, listVars
<1>5. pc'[w] = "serve" /\ mq'[w] = Nil
      /\ \A t \in Threads : t # w => pc'[t] = pc[t] /\ mq'[t] = mq[t]
  BY <1>4 DEF Types, TypeOK
<1>6. \A t \in Threads : t # w /\ pc[t] \in OutOfList => mq[t] # mq[w]
  BY <1>1, <1>2 DEF Sound, Hands
<1>7. Live' = Live
  <2>1. ASSUME NEW s \in Live' PROVE s \in Live
    BY <1>4, <1>5, <2>1 DEF Live
  <2>2. ASSUME NEW s \in Live PROVE s \in Live'
    BY <1>1, <1>2, <1>4, <1>5, <2>2 DEF Live
  <2> QED
    BY <2>1, <2>2
<1>8. Hands'
  BY <1>2, <1>4, <1>5, <1>6 DEF Sound, Hands
<1>9. Links'
  BY <1>4, <1>5, <1>7 DEF Sound, Links
<1>10. ASSUME NEW t \in Threads PROVE Known(t)'
  <2>1. CASE t = w
    BY <1>5, <2>1, KnowsNothing DEF Unlinking
  <2>2. CASE t # w
    <3>1. Known(t) /\ pc'[t] = pc[t] /\ mq'[t] = mq[t] /\ reg'[t] = reg[t]
      BY <1>4, <1>5, <2>2 DEF Sound
    <3> QED
      BY <1>4, <1>7, <3>1 DEF Known
  <2> QED
    BY <2>1, <2>2
<1> QED
  BY <1>1, <1>4, <1>7, <1>8, <1>9, <1>10 DEF Sound

-----------------------------------------------------------------------------
\* The steps that only read the list.
LEMMA GetMqSound ==
  ASSUME Types, Sound, NEW w \in Workers, GetMq(w)
  PROVE  Sound'
<1> USE Distinct
<1>1. /\ Step(w, "get_mq", "get_compare") /\ pc[w] = "get_mq" /\ pc'[w] = "get_compare"
      /\ \A t \in Threads : t # w => pc'[t] = pc[t] /\ mq'[t] = mq[t]
      /\ mq'[w] = first /\ UNCHANGED <<first, last, next, accepted, freed, reg>>
  BY DEF GetMq, Step, At, Types, TypeOK, dataVars, listVars
<1>2. "get_mq" \notin OutOfList /\ "get_compare" \notin OutOfList
  BY DEF OutOfList
<1>3. Live' = Live
  BY <1>1, <1>2, LiveKept
<1>4. Known(w)'
  BY <1>1, <1>3 DEF Sound, Links, Known
<1> QED
  BY <1>1, <1>2, <1>4, LocalSound

LEMMA GetCompareSound ==
  ASSUME Types, Exclusive, ~ mutexGone, Sound, NEW w \in Workers, GetCompare(w)
  PROVE  Sound'
<1> USE Distinct
<1>1. CASE Load(w, "get_compare", "get_last_one", first)
  <2>1. /\ Step(w, "get_compare", "get_last_one")
        /\ pc[w] = "get_compare" /\ pc'[w] = "get_last_one"
        /\ \A t \in Threads : t # w => pc'[t] = pc[t] /\ reg'[t] = reg[t]
        /\ reg'[w] = first /\ UNCHANGED <<first, last, next, accepted, freed, mq>>
    BY <1>1 DEF Load, Step, At, Types, TypeOK, dataVars, listVars
  <2>2. "get_compare" \notin OutOfList /\ "get_last_one" \notin OutOfList
        /\ pc[w] \in Unlinking
    BY <2>1 DEF OutOfList, Unlinking
  <2>3. Live' = Live
    BY <2>1, <2>2, LiveKept
  <2>4. Known(w)'
    BY <2>1, <2>2, <2>3 DEF Sound, Known
  <2> QED
    BY <2>1, <2>2, <2>4, LocalSound
<1>2. ASSUME NEW to, Step(w, "get_last_one", to),
             to = IF reg[w] = last THEN "get_deref" ELSE "get_next",
             reg' = [reg EXCEPT ![w] = Nil],
             UNCHANGED <<owner, waiting, dataVars, mq>>
      PROVE  Sound'
  <2>1. /\ pc[w] = "get_last_one" /\ pc'[w] = to /\ to \in {"get_deref", "get_next"}
        /\ \A t \in Threads : t # w => pc'[t] = pc[t] /\ reg'[t] = reg[t]
        /\ UNCHANGED <<first, last, next, accepted, freed, mq>>
    BY <1>2 DEF Step, At, Types, TypeOK, dataVars, listVars
  <2>2. "get_last_one" \notin OutOfList /\ to \notin OutOfList /\ to # "put_last"
        /\ pc[w] \in Unlinking /\ pc[w] \in Inside
    BY <2>1 DEF OutOfList, Unlinking, Inside
  <2>3. Live' = Live
    BY <2>1, <2>2, LiveKept
  <2>4. pc[Acceptor] # "put_last"
    BY <2>2, Alone DEF Inside
  <2>5. /\ mq[w] \in Live \union {Nil} /\ first \in {Nil, mq[w]}
        /\ mq[w] # Nil => \A s \in Live : next[s] # mq[w]
        /\ reg[w] \in {Nil, mq[w]} /\ (reg[w] = Nil => first = Nil)
    BY <2>1, <2>2 DEF Sound, Known
  <2>6. last # Nil => next[last] = Nil
    BY <2>4 DEF Sound, Links
  <2>7. Known(w)'
    <3>1. CASE reg[w] = last
      BY <1>2, <2>1, <2>3, <2>5, <2>6, <3>1 DEF Known
    <3>2. CASE reg[w] # last
      BY <1>2, <2>1, <2>3, <2>5, <3>2 DEF Known
    <3> QED
      BY <3>1, <3>2
  <2> QED
    BY <1>2, <2>1, <2>2, <2>7, LocalSound
<1> QED
  BY <1>1, <1>2 DEF GetCompare

LEMMA GetDerefSound ==
  ASSUME Types, Sound, NEW w \in Workers, GetDeref(w), fault' = "none"
  PROVE  Sound' /\ first \in Live /\ pc' = [pc EXCEPT ![w] = "get_last"]
<1> USE Distinct
<1>1. pc[w] = "get_deref" /\ first # Nil
  BY DEF GetDeref, Step, At, Faults
<1>2. next[first] = Nil /\ first \in Live /\ first = mq[w]
  BY <1>1 DEF Sound, Known, Links, Unlinking
<1>3. /\ Step(w, "get_deref", "get_last") /\ pc'[w] = "get_last"
      /\ \A t \in Threads : t # w => pc'[t] = pc[t]
      /\ UNCHANGED <<first, last, next, accepted, freed, mq, reg>>
      /\ pc' = [pc EXCEPT ![w] = "get_last"]
  BY <1>1, <1>2 DEF GetDeref, Faults, Step, At, Types, TypeOK, dataVars, listVars
<1>4. "get_deref" \notin OutOfList /\ "get_last" \notin OutOfList /\ pc[w] \in Unlinking
  BY <1>1 DEF OutOfList, Unlinking
<1>5. Live' = Live
  BY <1>1, <1>3, <1>4, LiveKept
<1>6. Known(w)'
  BY <1>1, <1>2, <1>3, <1>4, <1>5 DEF Sound, Known
<1> QED
  BY <1>2, <1>3, <1>4, <1>6, LocalSound

GetNextLoad(w) == /\ first \notin freed \union {Nil}
                  /\ Load(w, "get_next", "get_link", next[first])

LEMMA GetNextSound ==
  ASSUME Types, Sound, NEW w \in Workers, GetNextLoad(w)
  PROVE  Sound'
<1> USE Distinct
<1>1. /\ Step(w, "get_next", "get_link") /\ pc[w] = "get_next" /\ pc'[w] = "get_link"
      /\ \A t \in Threads : t # w => pc'[t] = pc[t] /\ reg'[t] = reg[t]
      /\ reg'[w] = next[first] /\ first # Nil
      /\ UNCHANGED <<first, last, next, accepted, freed, mq>>
  BY DEF GetNextLoad, Load, Step, At, Types, TypeOK, dataVars, listVars
<1>2. "get_next" \notin OutOfList /\ "get_link" \notin OutOfList /\ pc[w] \in Unlinking
  BY <1>1 DEF OutOfList, Unlinking
<1>3. Live' = Live
  BY <1>1, <1>2, LiveKept
<1>4. Known(w)'
  BY <1>1, <1>2, <1>3 DEF Sound, Known
<1> QED
  BY <1>1, <1>2, <1>4, LocalSound

\* The steps that touch no more than the mutex, who waits, length or a register.
LEMMA ControlSound ==
  ASSUME Types, Sound, NEW t \in Threads, NEW from, NEW to, Step(t, from, to),
         UNCHANGED <<first, last, next, accepted, freed, mq>>,
         \A u \in Threads : u # t => reg'[u] = reg[u],
         from \in OutOfList <=> to \in OutOfList,
         from # "put_last", to # "put_last", to \notin Unlinking
  PROVE  Sound'
<1>1. pc'[t] = to
  BY DEF Step, Types
<1>2. Known(t)'
  BY <1>1, KnowsNothing
<1> QED
  BY <1>2, LocalSound

LEMMA SignalSound ==
  ASSUME Types, Exclusive, ~ mutexGone, Sound, PutSignal
  PROVE  Sound' /\ Live' = Live
<1> USE Distinct
<1>1. PICK woken \in SUBSET waiting :
        pc' = [t \in Threads |-> IF t \in woken \ {taker} THEN "get_wake"
                                 ELSE IF t = Acceptor THEN "accept" ELSE pc[t]]
  BY DEF PutSignal
<1>2. /\ pc[Acceptor] = "put_signal" /\ mq' = [mq EXCEPT ![Acceptor] = Nil]
      /\ UNCHANGED <<first, last, next, accepted, freed, reg>>
  BY DEF PutSignal, At, dataVars, listVars
<1>3. pc'[Acceptor] = "accept" /\ \A t \in Threads : t # Acceptor => mq'[t] = mq[t]
  BY <1>1, <1>2 DEF Types, TypeOK
<1>4. \A t \in Threads : pc'[t] = pc[t] \/ (pc[t] = "waiting" /\ pc'[t] = "get_wake")
                                        \/ t = Acceptor
  BY <1>1 DEF Exclusive, Types, TypeOK
<1>5. {"waiting", "get_wake", "accept", "put_signal"} \intersect OutOfList = {}
      /\ {"waiting", "get_wake", "accept", "put_signal"} \intersect Unlinking = {}
  BY DEF OutOfList, Unlinking
<1>6. Live' = Live
  BY <1>2, <1>3, <1>4, <1>5, LiveKept
<1>7. Hands'
  BY <1>2, <1>3, <1>4, <1>5 DEF Sound, Hands
<1>8. Links'
  BY <1>2, <1>3, <1>5, <1>6 DEF Sound, Links
<1>9. ASSUME NEW t \in Threads PROVE Known(t)'
  <2>1. CASE pc'[t] \in {"get_wake", "accept"}
    BY <1>5, <2>1, KnowsNothing
  <2>2. CASE pc'[t] \notin {"get_wake", "accept"}
    <3>1. Known(t) /\ pc'[t] = pc[t] /\ mq'[t] = mq[t] /\ reg'[t] = reg[t]
      BY <1>2, <1>3, <1>4, <2>2 DEF Sound
    <3> QED
      BY <1>2, <1>6, <3>1 DEF Known
  <2> QED
    BY <2>1, <2>2
<1> QED
  BY <1>6, <1>7, <1>8, <1>9 DEF Sound

\* SIGINT and exit_handler leave the messages alone, and first and last as they are
\* or null.
LEMMA ExitSound ==
  ASSUME Types, Sound, first' \in {first, Nil}, last' \in {last, Nil},
         UNCHANGED <<next, accepted, freed, pc, mq, reg>>
  PROVE  Sound' /\ Live' = Live
<1>1. Live' = Live
  BY LiveKept
<1>2. Hands'
  BY DEF Sound, Hands
<1>3. Links'
  BY <1>1 DEF Sound, Links
<1>4. ASSUME NEW t \in Threads PROVE Known(t)'
  <2>1. Known(t)
    BY DEF Sound
  <2>2. CASE last' = last
    BY <1>1, <2>1, <2>2, Distinct DEF Known
  <2>3. CASE last' = Nil
    <3>1. mq[t] \in Live /\ pc[t] = "get_link" => last' # mq[t]
      BY <2>1, <2>3 DEF Known
    <3> QED
      BY <1>1, <2>1, <2>3 DEF Known
  <2> QED
    BY <2>2, <2>3
<1> QED
  BY <1>1, <1>2, <1>3, <1>4 DEF Sound

LEMMA ExitSteps ==
  /\ ExitHandler => /\ first' \in {first, Nil} /\ last' \in {last, Nil}
                    /\ UNCHANGED <<next, accepted, freed, pc, mq, reg, fault, quiet, taker>>
                    /\ length' \in {length, 0} /\ up /\ fault = "none"
  /\ \A t \in Threads : SigintHandler(t) =>
       UNCHANGED <<first, last, length, next, accepted, freed, pc, mq, reg, fault, owner>>
<1>1. ExitHandler => /\ first' \in {first, Nil} /\ last' \in {last, Nil}
                     /\ length' \in {length, 0}
  BY DEF ExitHandler, QueueDestroy, DestroyMutex, DestroyCond, DestroyLast, DestroyFirst,
         DestroyLength
<1>2. ExitHandler => UNCHANGED <<next, accepted, freed, pc, mq, reg, fault, quiet, taker>>
                     /\ up /\ fault = "none"
  BY DEF ExitHandler, QueueDestroy, DestroyMutex, DestroyCond, DestroyLast, DestroyFirst,
         DestroyLength, Destroy
<1> QED
  BY <1>1, <1>2 DEF SigintHandler, dataVars, listVars

\* An access to a null or freed message changes nothing else.
LEMMA FaultSound ==
  ASSUME Types, Sound, NEW t, NEW from, NEW m, Faults(t, from, m)
  PROVE  Sound'
<1>1. UNCHANGED <<first, last, next, accepted, freed, pc, mq, reg>>
  BY DEF Faults, dataVars, listVars
<1> QED
  BY <1>1, ExitSound

LEMMA StepSound ==
  Types /\ Places /\ Exclusive /\ ~ mutexGone /\ Sound /\ [Next]_vars => Sound'
<1> SUFFICES ASSUME Types, Places, Exclusive, ~ mutexGone, Sound, [Next]_vars PROVE Sound'
  OBVIOUS
<1> USE Distinct
<1>1. ASSUME NEW t \in Threads, NEW from, NEW to, Step(t, from, to), reg' = reg \/
               (\E value : reg' = [reg EXCEPT ![t] = value]),
             UNCHANGED <<first, last, next, accepted, freed, mq>>,
             from \in OutOfList <=> to \in OutOfList,
             from # "put_last", to # "put_last", to \notin Unlinking
      PROVE  Sound'
  <2>1. \A u \in Threads : u # t => reg'[u] = reg[u]
    BY <1>1 DEF Types, TypeOK
  <2> QED
    BY <1>1, <2>1, ControlSound
<1>2. ASSUME NEW t \in Threads, NEW from, NEW to, Lock(t, from, to) \/ Unlock(t, from, to),
             from \in OutOfList <=> to \in OutOfList,
             from # "put_last", to # "put_last", to \notin Unlinking
      PROVE  Sound'
  BY <1>1, <1>2 DEF Lock, Unlock, dataVars, listVars
<1>3. CASE QueuePut
  <2>1. CASE Lock(Acceptor, "put_lock", "put_check")
    BY <1>2, <2>1 DEF OutOfList, Unlinking
  <2>2. CASE PutCheck
    <3>1. UNCHANGED <<first, last, next, accepted, freed, mq, reg>>
      BY <2>2 DEF PutCheck, dataVars, listVars
    <3>2. PICK to \in {"put_first", "put_next"} : Step(Acceptor, "put_check", to)
      BY <2>2 DEF PutCheck
    <3> QED
      BY <1>1, <3>1, <3>2 DEF OutOfList, Unlinking
  <2>3. CASE PutNext
    <3>1. CASE fault' = "none"
      BY <2>3, <3>1, PutNextSound
    <3>2. CASE fault' # "none"
      BY <2>3, <3>2, FaultSound DEF PutNext, Step, At
    <3> QED
      BY <3>1, <3>2
  <2>4. CASE PutLength
    <3>1. CASE Load(Acceptor, "put_length", "put_store", length)
      BY <1>1, <3>1 DEF Load, OutOfList, Unlinking, dataVars, listVars
    <3>2. CASE ~ Load(Acceptor, "put_length", "put_store", length)
      BY <1>1, <2>4, <3>2 DEF PutLength, OutOfList, Unlinking
    <3> QED
      BY <3>1, <3>2
  <2>5. CASE Unlock(Acceptor, "put_unlock", "put_signal")
    BY <1>2, <2>5 DEF OutOfList, Unlinking
  <2> QED
    BY <1>3, <2>1, <2>2, <2>3, <2>4, <2>5, PutFirstSound, PutLastSound, SignalSound
       DEF QueuePut
<1>4. ASSUME NEW w \in Workers, QueueGet(w) PROVE Sound'
  <2>1. CASE Lock(w, "get_lock", "get_check") \/ GetWake(w)
    BY <1>2, <2>1 DEF GetWake, OutOfList, Unlinking
  <2>2. CASE GetWait(w)
    BY <1>1, <2>2 DEF GetWait, OutOfList, Unlinking, dataVars, listVars
  <2>3. CASE GetCheck(w)
    BY <1>1, <2>3 DEF GetCheck, OutOfList, Unlinking, dataVars, listVars
  <2>4. CASE GetLength(w)
    <3>1. CASE Load(w, "get_length", "get_store", length)
      BY <1>1, <3>1 DEF Load, OutOfList, Unlinking, dataVars, listVars
    <3>2. CASE ~ Load(w, "get_length", "get_store", length)
      BY <1>1, <2>4, <3>2 DEF GetLength, OutOfList, Unlinking
    <3> QED
      BY <3>1, <3>2
  <2>5. CASE GetDeref(w)
    <3>1. CASE fault' = "none"
      BY <2>5, <3>1, GetDerefSound
    <3>2. CASE fault' # "none"
      BY <2>5, <3>2, FaultSound DEF GetDeref, Step, At
    <3> QED
      BY <3>1, <3>2
  <2>6. CASE GetNext(w)
    BY <2>6, FaultSound, GetNextSound, GetLinkSound DEF GetNext, GetNextLoad, GetLink
  <2>7. CASE Unlock(w, "get_unlock", "get_free")
    BY <1>2, <2>7 DEF OutOfList, Unlinking
  <2>8. CASE DoCall(w)
    BY <1>1, <2>8 DEF DoCall, OutOfList, Unlinking, dataVars, listVars
  <2> QED
    BY <1>4, <2>1, <2>2, <2>3, <2>4, <2>5, <2>6, <2>7, <2>8, GetMqSound, GetCompareSound,
       GetLastSound, GetFirstSound, GetFreeSound DEF QueueGet
<1>5. ASSUME NEW w \in Workers, SpuriousWakeup(w) PROVE Sound'
  BY <1>1, <1>5 DEF SpuriousWakeup, OutOfList, Unlinking, dataVars, listVars
<1>6. CASE ExitHandler
  BY <1>6, ExitSteps, ExitSound
<1>7. ASSUME NEW t \in Threads, SigintHandler(t) PROVE Sound'
  BY <1>7, ExitSteps, ExitSound
<1>8. CASE UNCHANGED vars
  BY <1>8, ExitSound DEF vars, dataVars, listVars
<1> QED
  BY <1>3, <1>4, <1>5, <1>6, <1>7, <1>8, AllocSound DEF Next

-----------------------------------------------------------------------------
\* A list of different messages is shorter than what unsigned int counts up to.
LEMMA ShortList ==
  ASSUME NEW n \in Nat, NEW q \in [1..n -> Socks],
         \A i, j \in 1..n : q[i] = q[j] => i = j
  PROVE  n < Modulus
<1>1. q \in Injection(1..n, Socks)
  BY DEF Injection, IsInjective
<1>2. Cardinality(1..n) <= Cardinality(Socks)
  BY <1>1, FS_Injection, ShutdownAssumption
<1>3. Cardinality(1..n) = n
  BY FS_Interval
<1> QED
  BY <1>2, <1>3, FS_CardinalityType, ShutdownAssumption

LEMMA Longer ==
  ASSUME NEW n \in Nat, NEW q \in [1..n -> Socks], NEW s \in Socks
  PROVE  [i \in 1..n + 1 |-> IF i <= n THEN q[i] ELSE s] \in [1..n + 1 -> Socks]
<1>1. \A i \in 1..n + 1 : i <= n => i \in 1..n
  OBVIOUS
<1> QED
  BY <1>1

LEMMA EmptyList == [i \in 1..0 |-> Nil] \in [1..0 -> Socks]
<1>1. \A i \in 1..0 : FALSE
  OBVIOUS
<1> QED
  BY <1>1

LEMMA IdleElsewhere ==
  /\ Idle \intersect Lag = {} /\ Idle \intersect Unlinking = {} /\ Lag \subseteq Inside
  /\ Idle \intersect {"put_first", "put_next", "put_last", "put_store", "get_length",
                      "get_store"} = {}
BY DEF Idle, Lag, Unlinking, Inside

\* A thread that is idle, before a step and after it, asks nothing of the list.
LEMMA IntactKept ==
  ASSUME NEW n \in Nat, NEW q \in [1..n -> Socks], Intact(n, q),
         UNCHANGED <<first, last, length, next>>, Live' = Live,
         \A t \in Threads : \/ pc[t] \in Idle /\ pc'[t] \in Idle
                            \/ pc'[t] = pc[t] /\ mq'[t] = mq[t] /\ reg'[t] = reg[t]
  PROVE  Intact(n, q)'
<1>1. IsList(n, q)'
  BY DEF Intact, IsList
<1>2. \A t \in Threads : /\ pc'[t] \in Lag <=> pc[t] \in Lag
                         /\ pc'[t] \in {"put_last", "get_first"}
                              <=> pc[t] \in {"put_last", "get_first"}
  BY IdleElsewhere DEF Unlinking
<1>3. ASSUME NEW t \in Threads PROVE Progress(n, q, t)'
  <2>1. CASE pc'[t] \in Idle
    BY <2>1, IdleElsewhere DEF Progress, Unlinking
  <2>2. CASE pc'[t] \notin Idle
    <3>1. Progress(n, q, t) /\ pc'[t] = pc[t] /\ mq'[t] = mq[t] /\ reg'[t] = reg[t]
      BY <2>2 DEF Intact
    <3> QED
      BY <3>1 DEF Progress
  <2> QED
    BY <2>1, <2>2
<1> QED
  BY <1>1, <1>2, <1>3 DEF Intact

\* While one thread is inside, the list is as that thread has left it.
Fit(n, q, t) ==
  /\ IsList(n, q)
  /\ pc[t] \notin {"put_last", "get_first"} => last = IF n = 0 THEN Nil ELSE q[n]
  /\ length = IF pc[t] \in Lag THEN n - 1 ELSE n
  /\ Progress(n, q, t)

LEMMA IntactFits ==
  ASSUME NEW n \in Nat, NEW q \in [1..n -> Socks], Intact(n, q), NEW t \in Threads,
         \A u \in Threads : u # t => pc[u] \notin Inside
  PROVE  Fit(n, q, t)
<1>1. \A u \in Threads : u # t => pc[u] \notin Lag /\ pc[u] \notin {"put_last", "get_first"}
  BY IdleElsewhere DEF Inside, Unlinking
<1> QED
  BY <1>1 DEF Intact, Fit

LEMMA FitsIntact ==
  ASSUME NEW n \in Nat, NEW q \in [1..n -> Socks], NEW t \in Threads, Fit(n, q, t)',
         \A u \in Threads : u # t => pc'[u] \notin Inside
  PROVE  Intact(n, q)'
<1>1. \A u \in Threads : u # t => pc'[u] \notin Lag /\ pc'[u] \notin {"put_last", "get_first"}
  BY IdleElsewhere DEF Inside, Unlinking
<1>2. ASSUME NEW u \in Threads PROVE Progress(n, q, u)'
  <2>1. CASE u = t
    BY <2>1 DEF Fit
  <2>2. CASE u # t
    BY <2>2 DEF Progress, Inside, Unlinking
  <2> QED
    BY <2>1, <2>2
<1> QED
  BY <1>1, <1>2 DEF Intact, Fit

\* A step of the thread inside that leaves first, last and next alone.
LEMMA ReadsFit ==
  ASSUME Types, Exclusive, ~ mutexGone, NEW n \in Nat, NEW q \in [1..n -> Socks],
         Intact(n, q), NEW t \in Threads, NEW from, NEW to, from \in Inside,
         Step(t, from, to), UNCHANGED <<first, last, next>>, Live' = Live,
         from \notin {"put_last", "get_first"},
         length' = (IF to \in Lag THEN n - 1 ELSE n), Progress(n, q, t)'
  PROVE  Intact(n, q)'
<1>1. pc[t] = from /\ pc'[t] = to /\ \A u \in Threads : u # t => pc'[u] = pc[u]
  BY DEF Step, At, Types
<1>2. \A u \in Threads : u # t => pc[u] \notin Inside
  BY <1>1, Alone
<1>3. Fit(n, q, t)
  BY <1>2, IntactFits
<1>4. IsList(n, q)'
  BY <1>3 DEF Fit, IsList
<1>5. Fit(n, q, t)'
  BY <1>1, <1>3, <1>4 DEF Fit
<1> QED
  BY <1>1, <1>2, <1>5, FitsIntact

-----------------------------------------------------------------------------
\* The steps inside, one by one.
LEMMA PutCheckWhole ==
  ASSUME Types, Exclusive, ~ mutexGone, NEW n \in Nat, NEW q \in [1..n -> Socks],
         Intact(n, q), PutCheck
  PROVE  Intact(n, q)'
<1> USE Distinct
<1>1. PICK to \in {"put_first", "put_next"} :
        Step(Acceptor, "put_check", to) /\ (to = "put_first" <=> first = Nil)
  BY DEF PutCheck
<1>2. /\ pc[Acceptor] = "put_check" /\ pc'[Acceptor] = to
      /\ \A t \in Threads : t # Acceptor => pc'[t] = pc[t]
      /\ UNCHANGED <<first, last, length, next, accepted, freed, mq, reg>>
  BY <1>1 DEF PutCheck, Step, At, Types, dataVars, listVars
<1>3. Live' = Live
  BY <1>1, <1>2, LiveKept DEF OutOfList
<1>4. Fit(n, q, Acceptor)
  BY <1>2, Alone, IntactFits DEF Inside
<1>5. length = n /\ (first = Nil <=> n = 0)
  <2>1. "put_check" \notin Lag
    BY DEF Lag, Unlinking
  <2>2. n # 0 => q[1] \in Socks
    OBVIOUS
  <2> QED
    BY <1>2, <1>4, <2>1, <2>2 DEF Fit, IsList
<1>6. Progress(n, q, Acceptor)'
  BY <1>1, <1>2, <1>5 DEF Progress, Unlinking
<1>7. to \notin Lag /\ "put_check" \in Inside
  BY <1>1 DEF Lag, Unlinking, Inside
<1> QED
  BY <1>1, <1>2, <1>3, <1>5, <1>6, <1>7, ReadsFit

LEMMA PutFirstWhole ==
  ASSUME Types, Exclusive, ~ mutexGone, Sound, NEW n \in Nat, NEW q \in [1..n -> Socks],
         Intact(n, q), PutFirst
  PROVE  \E m \in Nat : \E r \in [1..m -> Socks] : Intact(m, r)'
<1> USE Distinct
<1>1. /\ pc[Acceptor] = "put_first" /\ pc' = [pc EXCEPT ![Acceptor] = "put_last"]
      /\ first' = mq[Acceptor]
      /\ UNCHANGED <<last, length, next, accepted, freed, mq, reg>>
  BY DEF PutFirst, Step, At
<1>2. pc'[Acceptor] = "put_last"
      /\ \A t \in Threads : t # Acceptor => pc[t] \notin Inside /\ pc'[t] = pc[t]
  BY <1>1, Alone DEF Types, Inside
<1>3. PICK s \in Socks : s = mq[Acceptor]
  BY <1>1, LinkIn DEF Sound
<1>4. s \in Live'
  BY <1>1, <1>3, LinkIn DEF Sound
<1>5. n = 0 /\ length = 0
  <2>1. Fit(n, q, Acceptor)
    BY <1>2, IntactFits
  <2>2. "put_first" \notin Lag
    BY DEF Lag, Unlinking
  <2> QED
    BY <1>1, <2>1, <2>2 DEF Fit, Progress
<1>6. PICK r \in [1..1 -> Socks] : r = [i \in 1..1 |-> s]
  OBVIOUS
<1>7. IsList(1, r)'
  BY <1>1, <1>3, <1>4, <1>6 DEF IsList
<1>8. Fit(1, r, Acceptor)'
  <2>1. "put_last" \in Lag /\ "put_last" \notin Unlinking
    BY DEF Lag, Unlinking
  <2> QED
    BY <1>1, <1>2, <1>3, <1>5, <1>6, <1>7, <2>1 DEF Fit, Progress
<1>9. Intact(1, r)'
  BY <1>2, <1>8, FitsIntact
<1> QED
  BY <1>9

LEMMA PutNextWhole ==
  ASSUME Types, Exclusive, ~ mutexGone, Sound, NEW n \in Nat, NEW q \in [1..n -> Socks],
         Intact(n, q), PutNext
  PROVE  fault' = "none" /\ \E m \in Nat : \E r \in [1..m -> Socks] : Intact(m, r)'
<1> USE Distinct
<1>1. pc[Acceptor] = "put_next" /\ fault = "none"
  BY DEF PutNext, Step, At, Faults
<1>2. \A t \in Threads : t # Acceptor => pc[t] \notin Inside
  BY <1>1, Alone DEF Inside
<1>3. n # 0 /\ length = n /\ last = q[n] /\ IsList(n, q)
  <2>1. Fit(n, q, Acceptor)
    BY <1>2, IntactFits
  <2>2. "put_next" \notin Lag
    BY DEF Lag, Unlinking
  <2> QED
    BY <1>1, <2>1, <2>2 DEF Fit, Progress
<1>4. last \in Live /\ last \notin freed \union {Nil}
  BY <1>3 DEF Sound, Links, IsList, Live
<1>5. /\ pc' = [pc EXCEPT ![Acceptor] = "put_last"] /\ fault' = "none"
      /\ next' = [next EXCEPT ![last] = mq[Acceptor]]
      /\ UNCHANGED <<first, last, length, accepted, freed, mq, reg>>
  BY <1>1, <1>4 DEF PutNext, Step, Faults
<1>6. pc'[Acceptor] = "put_last" /\ \A t \in Threads : t # Acceptor => pc'[t] = pc[t]
  BY <1>5 DEF Types
<1>7. PICK s \in Socks : s = mq[Acceptor]
  BY <1>1, <1>5, LinkIn DEF Sound
<1>8. s \notin Live /\ Live' = Live \union {s}
  BY <1>1, <1>5, <1>7, LinkIn DEF Sound
<1>9. PICK r \in [1..n + 1 -> Socks] : r = [i \in 1..n + 1 |-> IF i <= n THEN q[i] ELSE s]
  BY Longer
<1>10. /\ r[n + 1] = s /\ \A i \in 1..n : r[i] = q[i] /\ q[i] \in Live /\ q[i] # s
  BY <1>3, <1>8, <1>9 DEF IsList
<1>11. IsList(n + 1, r)'
  <2>1. \A i \in 1..n + 1 : r[i] \in Live'
    BY <1>8, <1>10
  <2>2. \A i, j \in 1..n + 1 : r[i] = r[j] => i = j
    BY <1>3, <1>10 DEF IsList
  <2>3. ASSUME NEW i \in 1..n PROVE next'[r[i]] = r[i + 1]
    <3>0. next'[last] = s /\ \A x \in Socks : x # last => next'[x] = next[x]
      BY <1>3, <1>5, <1>7 DEF Types, TypeOK
    <3>1. CASE i = n
      BY <1>3, <1>10, <3>0, <3>1
    <3>2. CASE i # n
      <4>1. i \in 1..n - 1 /\ i + 1 \in 1..n
        BY <3>2
      <4>2. q[i] # last /\ q[i] \in Socks /\ next[q[i]] = q[i + 1]
        BY <1>3, <3>2, <4>1 DEF IsList
      <4> QED
        BY <1>10, <3>0, <4>1, <4>2
    <3> QED
      BY <3>1, <3>2
  <2>4. first' = r[1]
    BY <1>3, <1>5, <1>10 DEF IsList
  <2> QED
    BY <2>1, <2>2, <2>3, <2>4 DEF IsList
<1>12. Fit(n + 1, r, Acceptor)'
  <2>1. "put_last" \in Lag /\ "put_last" \notin Unlinking
    BY DEF Lag, Unlinking
  <2> QED
    BY <1>3, <1>5, <1>6, <1>7, <1>10, <1>11, <2>1 DEF Fit, Progress
<1>13. Intact(n + 1, r)' /\ n + 1 \in Nat
  BY <1>2, <1>6, <1>12, FitsIntact
<1> QED
  BY <1>5, <1>13

LEMMA PutLastWhole ==
  ASSUME Types, Exclusive, ~ mutexGone, Sound, NEW n \in Nat, NEW q \in [1..n -> Socks],
         Intact(n, q), PutLast
  PROVE  Intact(n, q)'
<1> USE Distinct
<1>1. /\ pc[Acceptor] = "put_last" /\ pc' = [pc EXCEPT ![Acceptor] = "put_length"]
      /\ last' = mq[Acceptor] /\ UNCHANGED <<first, length, next>>
  BY DEF PutLast, Step, At
<1>2. pc'[Acceptor] = "put_length"
      /\ \A t \in Threads : t # Acceptor => pc[t] \notin Inside /\ pc'[t] = pc[t]
  BY <1>1, Alone DEF Types, Inside
<1>3. Fit(n, q, Acceptor)
  BY <1>2, IntactFits
<1>4. Live' = Live
  BY PutLastSound
<1>5. IsList(n, q)'
  BY <1>1, <1>3, <1>4 DEF Fit, IsList
<1>6. {"put_last", "put_length"} \subseteq Lag /\ "put_length" \notin Unlinking
  BY DEF Lag, Unlinking
<1>7. Fit(n, q, Acceptor)'
  BY <1>1, <1>2, <1>3, <1>5, <1>6 DEF Fit, Progress
<1> QED
  BY <1>2, <1>7, FitsIntact

LEMMA PutLengthWhole ==
  ASSUME Types, Exclusive, ~ mutexGone, Sound, NEW n \in Nat, NEW q \in [1..n -> Socks],
         Intact(n, q), PutLength
  PROVE  Intact(n, q)'
<1> USE Distinct
<1>1. {"put_length", "put_store"} \subseteq Lag \intersect Inside /\ "put_unlock" \notin Lag
      /\ {"put_length", "put_store", "put_unlock"} \intersect (OutOfList \union Unlinking) = {}
  BY DEF Lag, Inside, OutOfList, Unlinking
<1>2. CASE Load(Acceptor, "put_length", "put_store", length)
  <2>1. /\ pc[Acceptor] = "put_length" /\ pc'[Acceptor] = "put_store"
        /\ \A t \in Threads : t # Acceptor => pc'[t] = pc[t]
        /\ reg'[Acceptor] = length /\ Step(Acceptor, "put_length", "put_store")
        /\ UNCHANGED <<first, last, length, next, accepted, freed, mq>>
    BY <1>2 DEF Load, Step, At, Types, TypeOK, dataVars, listVars
  <2>2. Live' = Live
    BY <1>1, <2>1, LiveKept
  <2>3. Fit(n, q, Acceptor)
    BY <1>1, <2>1, Alone, IntactFits
  <2>4. Progress(n, q, Acceptor)' /\ length = n - 1
    BY <1>1, <2>1, <2>3 DEF Fit, Progress
  <2> QED
    BY <1>1, <2>1, <2>2, <2>4, ReadsFit
<1>3. CASE ~ Load(Acceptor, "put_length", "put_store", length)
  <2>1. /\ pc[Acceptor] = "put_store" /\ pc'[Acceptor] = "put_unlock"
        /\ \A t \in Threads : t # Acceptor => pc'[t] = pc[t]
        /\ length' = (reg[Acceptor] + 1) % Modulus
        /\ Step(Acceptor, "put_store", "put_unlock")
        /\ UNCHANGED <<first, last, next, accepted, freed, mq>>
    BY <1>3 DEF PutLength, Step, At, Types
  <2>2. Live' = Live
    BY <1>1, <2>1, LiveKept
  <2>3. Fit(n, q, Acceptor)
    BY <1>1, <2>1, Alone, IntactFits
  <2>4. reg[Acceptor] = n - 1 /\ n < Modulus /\ n - 1 \in Nat
    <3>1. reg[Acceptor] = length /\ length = n - 1 /\ reg[Acceptor] \in Nat
      BY <1>1, <2>1, <2>3 DEF Fit, Progress, Types
    <3> QED
      BY <2>3, <3>1, ShortList DEF Fit, IsList
  <2>5. length' = n
    BY <2>1, <2>4, NoWrap
  <2>6. Progress(n, q, Acceptor)'
    BY <1>1, <2>1 DEF Progress
  <2> QED
    BY <1>1, <2>1, <2>2, <2>5, <2>6, ReadsFit
<1> QED
  BY <1>2, <1>3

LEMMA GetCheckWhole ==
  ASSUME Types, Exclusive, ~ mutexGone, NEW n \in Nat, NEW q \in [1..n -> Socks],
         Intact(n, q), NEW w \in Workers, GetCheck(w)
  PROVE  Intact(n, q)'
<1> USE Distinct
<1>1. /\ pc[w] = "get_check" /\ pc'[w] = "get_length" /\ Step(w, "get_check", "get_length")
      /\ \A t \in Threads : t # w => pc'[t] = pc[t]
      /\ length # 0 /\ UNCHANGED <<first, last, length, next, accepted, freed, mq, reg>>
  BY DEF GetCheck, Step, At, Types, dataVars, listVars
<1>2. {"get_check", "get_length"} \intersect (OutOfList \union Unlinking \union Lag) = {}
      /\ "get_check" \in Inside
  BY DEF OutOfList, Unlinking, Lag, Inside
<1>3. Live' = Live
  BY <1>1, <1>2, LiveKept
<1>4. Fit(n, q, w)
  BY <1>1, <1>2, Alone, IntactFits
<1>5. Progress(n, q, w)' /\ length' = n
  BY <1>1, <1>2, <1>4 DEF Fit, Progress
<1> QED
  BY <1>1, <1>2, <1>3, <1>5, ReadsFit

LEMMA GetLengthWhole ==
  ASSUME Types, Exclusive, ~ mutexGone, NEW n \in Nat, NEW q \in [1..n -> Socks],
         Intact(n, q), NEW w \in Workers, GetLength(w)
  PROVE  Intact(n, q)'
<1> USE Distinct
<1>1. {"get_length", "get_store"} \subseteq Inside \ Lag /\ "get_mq" \in Lag
      /\ {"get_length", "get_store", "get_mq"} \intersect (OutOfList \union Unlinking) = {}
  BY DEF Lag, Inside, OutOfList, Unlinking
<1>2. CASE Load(w, "get_length", "get_store", length)
  <2>1. /\ pc[w] = "get_length" /\ pc'[w] = "get_store"
        /\ \A t \in Threads : t # w => pc'[t] = pc[t]
        /\ reg'[w] = length /\ Step(w, "get_length", "get_store")
        /\ UNCHANGED <<first, last, length, next, accepted, freed, mq>>
    BY <1>2 DEF Load, Step, At, Types, TypeOK, dataVars, listVars
  <2>2. Live' = Live
    BY <1>1, <2>1, LiveKept
  <2>3. Fit(n, q, w)
    BY <1>1, <2>1, Alone, IntactFits
  <2>4. Progress(n, q, w)' /\ length = n
    BY <1>1, <2>1, <2>3 DEF Fit, Progress
  <2> QED
    BY <1>1, <2>1, <2>2, <2>4, ReadsFit
<1>3. CASE ~ Load(w, "get_length", "get_store", length)
  <2>1. /\ pc[w] = "get_store" /\ pc'[w] = "get_mq"
        /\ \A t \in Threads : t # w => pc'[t] = pc[t]
        /\ length' = (reg[w] + Modulus - 1) % Modulus
        /\ Step(w, "get_store", "get_mq")
        /\ UNCHANGED <<first, last, next, accepted, freed, mq>>
    BY <1>3 DEF GetLength, Step, At, Types
  <2>2. Live' = Live
    BY <1>1, <2>1, LiveKept
  <2>3. Fit(n, q, w)
    BY <1>1, <2>1, Alone, IntactFits
  <2>4. reg[w] = n /\ n < Modulus /\ n # 0
    <3>1. reg[w] = length /\ length = n /\ length # 0
      BY <1>1, <2>1, <2>3 DEF Fit, Progress
    <3> QED
      BY <2>3, <3>1, ShortList DEF Fit, IsList
  <2>5. length' = n - 1
    BY <2>1, <2>4, NoWrap
  <2>6. Progress(n, q, w)'
    BY <1>1, <2>1 DEF Progress
  <2> QED
    BY <1>1, <2>1, <2>2, <2>5, <2>6, ReadsFit
<1> QED
  BY <1>2, <1>3

LEMMA GetMqWhole ==
  ASSUME Types, Exclusive, ~ mutexGone, NEW n \in Nat, NEW q \in [1..n -> Socks],
         Intact(n, q), NEW w \in Workers, GetMq(w)
  PROVE  Intact(n, q)'
<1> USE Distinct
<1>1. /\ Step(w, "get_mq", "get_compare") /\ pc[w] = "get_mq" /\ pc'[w] = "get_compare"
      /\ \A t \in Threads : t # w => pc'[t] = pc[t]
      /\ mq'[w] = first
      /\ UNCHANGED <<first, last, length, next, accepted, freed, reg>>
      /\ \A t \in Threads : t # w => mq'[t] = mq[t]
  BY DEF GetMq, Step, At, Types, TypeOK, dataVars, listVars
<1>2. {"get_mq", "get_compare"} \subseteq Lag \intersect Inside
      /\ {"get_mq", "get_compare"} \intersect OutOfList = {}
  BY DEF OutOfList, Unlinking, Lag, Inside
<1>3. Live' = Live
  BY <1>1, <1>2, LiveKept
<1>4. Fit(n, q, w)
  BY <1>1, <1>2, Alone, IntactFits
<1>5. length = n - 1 /\ n # 0
  BY <1>1, <1>2, <1>4 DEF Fit, Types, TypeOK
<1>6. Progress(n, q, w)'
  BY <1>1, <1>5 DEF Progress
<1> QED
  BY <1>1, <1>2, <1>3, <1>5, <1>6, ReadsFit

LEMMA GetCompareWhole ==
  ASSUME Types, Exclusive, ~ mutexGone, NEW n \in Nat, NEW q \in [1..n -> Socks],
         Intact(n, q), NEW w \in Workers, GetCompare(w)
  PROVE  Intact(n, q)'
<1> USE Distinct
<1>1. Unlinking \subseteq Lag \intersect Inside /\ Unlinking \intersect OutOfList = {}
      /\ {"get_compare", "get_last_one", "get_deref", "get_next"} \subseteq Unlinking
  BY DEF OutOfList, Unlinking, Lag, Inside
<1>2. CASE Load(w, "get_compare", "get_last_one", first)
  <2>1. /\ Step(w, "get_compare", "get_last_one")
        /\ pc[w] = "get_compare" /\ pc'[w] = "get_last_one"
        /\ \A t \in Threads : t # w => pc'[t] = pc[t]
        /\ reg'[w] = first
        /\ UNCHANGED <<first, last, length, next, accepted, freed, mq>>
    BY <1>2 DEF Load, Step, At, Types, TypeOK, dataVars, listVars
  <2>2. Live' = Live
    BY <1>1, <2>1, LiveKept
  <2>3. Fit(n, q, w)
    BY <1>1, <2>1, Alone, IntactFits
  <2>4. Progress(n, q, w)' /\ length = n - 1
    BY <1>1, <2>1, <2>3 DEF Fit, Progress
  <2> QED
    BY <1>1, <2>1, <2>2, <2>4, ReadsFit
<1>3. ASSUME NEW to, Step(w, "get_last_one", to),
             to = IF reg[w] = last THEN "get_deref" ELSE "get_next",
             UNCHANGED <<dataVars, mq>>
      PROVE  Intact(n, q)'
  <2>1. /\ pc[w] = "get_last_one" /\ pc'[w] = to /\ to \in {"get_deref", "get_next"}
        /\ \A t \in Threads : t # w => pc'[t] = pc[t]
        /\ UNCHANGED <<first, last, length, next, accepted, freed, mq>>
    BY <1>3 DEF Step, At, Types, dataVars, listVars
  <2>2. Live' = Live
    BY <1>1, <2>1, LiveKept
  <2>3. Fit(n, q, w)
    BY <1>1, <2>1, Alone, IntactFits
  <2>4. n # 0 /\ mq[w] = first /\ reg[w] = first /\ length = n - 1
    BY <1>1, <2>1, <2>3 DEF Fit, Progress
  <2>5. first = q[1] /\ last = q[n] /\ \A i, j \in 1..n : q[i] = q[j] => i = j
    BY <2>1, <2>3, <2>4 DEF Fit, IsList
  <2>6. to = IF n = 1 THEN "get_deref" ELSE "get_next"
    BY <1>3, <2>4, <2>5
  <2>7. Progress(n, q, w)'
    BY <2>1, <2>4, <2>6 DEF Progress
  <2> QED
    BY <1>1, <1>3, <2>1, <2>2, <2>4, <2>7, ReadsFit
<1> QED
  BY <1>2, <1>3 DEF GetCompare

LEMMA GetDerefWhole ==
  ASSUME Types, Exclusive, ~ mutexGone, Sound, NEW n \in Nat, NEW q \in [1..n -> Socks],
         Intact(n, q), NEW w \in Workers, GetDeref(w)
  PROVE  fault' = "none" /\ Intact(n, q)'
<1> USE Distinct
<1>1. Unlinking \subseteq Lag \intersect Inside /\ Unlinking \intersect OutOfList = {}
      /\ {"get_deref", "get_last"} \subseteq Unlinking
  BY DEF OutOfList, Unlinking, Lag, Inside
<1>2. pc[w] = "get_deref" /\ fault = "none"
  BY DEF GetDeref, Step, At, Faults
<1>3. Fit(n, q, w)
  BY <1>1, <1>2, Alone, IntactFits
<1>4. n = 1 /\ length = n - 1 /\ mq[w] = first /\ first \in Live /\ first # Nil
  BY <1>1, <1>2, <1>3 DEF Fit, Progress, IsList
<1>5. first \notin freed \union {Nil} /\ next[first] = Nil
  BY <1>2, <1>4 DEF Live, Sound, Known
<1>6. /\ Step(w, "get_deref", "get_last") /\ pc'[w] = "get_last"
      /\ \A t \in Threads : t # w => pc'[t] = pc[t]
      /\ UNCHANGED <<first, last, length, next, accepted, freed, mq, reg>>
  BY <1>5 DEF GetDeref, Faults, Step, At, Types, dataVars, listVars
<1>7. Live' = Live
  BY <1>1, <1>2, <1>6, LiveKept
<1>8. Progress(n, q, w)'
  BY <1>4, <1>6 DEF Progress
<1>9. fault' = "none"
  BY <1>2, <1>6 DEF Step
<1> QED
  BY <1>1, <1>2, <1>4, <1>6, <1>7, <1>8, <1>9, ReadsFit

LEMMA GetLastWhole ==
  ASSUME Types, Exclusive, ~ mutexGone, Sound, NEW n \in Nat, NEW q \in [1..n -> Socks],
         Intact(n, q), NEW w \in Workers, GetLast(w)
  PROVE  Intact(n, q)'
<1> USE Distinct
<1>1. /\ pc[w] = "get_last" /\ pc' = [pc EXCEPT ![w] = "get_first"]
      /\ UNCHANGED <<first, length, next, mq>>
  BY DEF GetLast, Step, At
<1>2. Unlinking \subseteq Lag /\ {"get_last", "get_first"} \subseteq Unlinking
  BY DEF Unlinking, Lag
<1>3. pc'[w] = "get_first"
      /\ \A t \in Threads : t # w => pc[t] \notin Inside /\ pc'[t] = pc[t]
  BY <1>1, <1>2, Alone DEF Types, Inside
<1>4. Fit(n, q, w)
  BY <1>3, IntactFits
<1>5. Live' = Live
  BY GetLastSound
<1>6. IsList(n, q)'
  BY <1>1, <1>4, <1>5 DEF Fit, IsList
<1>7. n = 1 /\ length = n - 1 /\ mq[w] = first
  BY <1>1, <1>2, <1>4 DEF Fit, Progress
<1>8. Fit(n, q, w)'
  BY <1>1, <1>2, <1>3, <1>6, <1>7 DEF Fit, Progress
<1> QED
  BY <1>3, <1>8, FitsIntact

LEMMA GetFirstWhole ==
  ASSUME Types, Exclusive, ~ mutexGone, Sound, NEW n \in Nat, NEW q \in [1..n -> Socks],
         Intact(n, q), NEW w \in Workers, GetFirst(w)
  PROVE  \E m \in Nat : \E r \in [1..m -> Socks] : Intact(m, r)'
<1> USE Distinct
<1>1. /\ pc[w] = "get_first" /\ pc' = [pc EXCEPT ![w] = "get_unlock"]
      /\ first' = Nil /\ UNCHANGED <<last, length>>
  BY DEF GetFirst, Step, At
<1>2. "get_first" \in Unlinking /\ "get_first" \in Lag /\ "get_unlock" \notin Lag
      /\ "get_unlock" \notin Unlinking /\ "get_first" \in Inside
  BY DEF Unlinking, Lag, Inside
<1>3. pc'[w] = "get_unlock"
      /\ \A t \in Threads : t # w => pc[t] \notin Inside /\ pc'[t] = pc[t]
  BY <1>1, <1>2, Alone DEF Types
<1>4. length' = 0
  BY <1>1, <1>2, <1>3, IntactFits DEF Fit, Progress
<1>5. last' = Nil
  BY <1>1 DEF Sound, Known
<1>6. PICK r \in [1..0 -> Socks] : r = [i \in 1..0 |-> Nil]
  BY EmptyList
<1>7. IsList(0, r)'
  BY <1>1 DEF IsList
<1>8. Fit(0, r, w)'
  BY <1>2, <1>3, <1>4, <1>5, <1>7 DEF Fit, Progress
<1>9. Intact(0, r)'
  BY <1>3, <1>8, FitsIntact
<1> QED
  BY <1>9

LEMMA GetNextWhole ==
  ASSUME Types, Exclusive, ~ mutexGone, NEW n \in Nat, NEW q \in [1..n -> Socks],
         Intact(n, q), NEW w \in Workers, GetNextLoad(w)
  PROVE  Intact(n, q)'
<1> USE Distinct
<1>1. /\ Step(w, "get_next", "get_link") /\ pc[w] = "get_next" /\ pc'[w] = "get_link"
      /\ \A t \in Threads : t # w => pc'[t] = pc[t]
      /\ UNCHANGED <<first, last, length, next, accepted, freed, mq>>
  BY DEF GetNextLoad, Load, Step, At, Types, dataVars, listVars
<1>2. Unlinking \subseteq Lag \intersect Inside /\ Unlinking \intersect OutOfList = {}
      /\ {"get_next", "get_link"} \subseteq Unlinking
  BY DEF OutOfList, Unlinking, Lag, Inside
<1>3. Live' = Live
  BY <1>1, <1>2, LiveKept
<1>4. Fit(n, q, w)
  BY <1>1, <1>2, Alone, IntactFits
<1>5. Progress(n, q, w)' /\ length = n - 1
  BY <1>1, <1>2, <1>4 DEF Fit, Progress
<1> QED
  BY <1>1, <1>2, <1>3, <1>5, ReadsFit

LEMMA GetLinkWhole ==
  ASSUME Types, Exclusive, ~ mutexGone, Sound, NEW n \in Nat, NEW q \in [1..n -> Socks],
         Intact(n, q), NEW w \in Workers, GetLink(w)
  PROVE  \E m \in Nat : \E r \in [1..m -> Socks] : Intact(m, r)'
<1> USE Distinct
<1>1. /\ pc[w] = "get_link" /\ pc' = [pc EXCEPT ![w] = "get_unlock"]
      /\ first' = reg[w] /\ UNCHANGED <<last, length, next>>
  BY DEF GetLink, Step, At
<1>2. "get_link" \in Unlinking /\ "get_link" \in Lag /\ "get_unlock" \notin Lag
      /\ "get_unlock" \notin Unlinking /\ "get_link" \in Inside
  BY DEF Unlinking, Lag, Inside
<1>3. pc'[w] = "get_unlock"
      /\ \A t \in Threads : t # w => pc[t] \notin Inside /\ pc'[t] = pc[t]
  BY <1>1, <1>2, Alone DEF Types
<1>4. n > 1 /\ mq[w] = first /\ length = n - 1 /\ IsList(n, q) /\ last = q[n]
  BY <1>1, <1>2, <1>3, IntactFits DEF Fit, Progress
<1>5. reg[w] = next[mq[w]] /\ first = q[1] /\ next[q[1]] = q[2]
  BY <1>1, <1>4 DEF Sound, Known, IsList
<1>6. Live' = Live \ {q[1]}
  BY <1>4, <1>5, GetLinkSound
<1>7. PICK m \in Nat : m = n - 1
  BY <1>4
<1>8. PICK r \in [1..m -> Socks] : r = [i \in 1..m |-> q[i + 1]]
  <2>1. \A i \in 1..m : i + 1 \in 1..n
    BY <1>7
  <2> QED
    BY <2>1
<1>9. \A i \in 1..m : i + 1 \in 1..n /\ i + 1 # 1 /\ r[i] = q[i + 1]
  BY <1>7, <1>8
<1>10. IsList(m, r)'
  <2>1. \A i \in 1..m : r[i] \in Live'
    BY <1>4, <1>6, <1>9 DEF IsList
  <2>2. \A i, j \in 1..m : r[i] = r[j] => i = j
    BY <1>4, <1>9 DEF IsList
  <2>3. \A i \in 1..m - 1 : next'[r[i]] = r[i + 1]
    <3>1. \A i \in 1..m - 1 : i \in 1..m /\ i + 1 \in 1..m /\ i + 1 \in 1..n - 1
      BY <1>7
    <3> QED
      BY <1>1, <1>4, <1>9, <3>1 DEF IsList
  <2>4. m # 0 /\ first' = r[1]
    BY <1>1, <1>4, <1>5, <1>7, <1>9
  <2> QED
    BY <2>1, <2>2, <2>3, <2>4 DEF IsList
<1>11. last' = r[m] /\ m # 0 /\ length' = m
  BY <1>1, <1>4, <1>7, <1>9
<1>12. Fit(m, r, w)'
  BY <1>2, <1>3, <1>10, <1>11 DEF Fit, Progress
<1>13. Intact(m, r)'
  BY <1>3, <1>12, FitsIntact
<1> QED
  BY <1>13

-----------------------------------------------------------------------------
LEMMA UntouchedBefore == Types /\ Places /\ [Next]_vars /\ Untouched' => Untouched
<1> SUFFICES ASSUME Types, Places, [Next]_vars, Untouched' PROVE Untouched
  OBVIOUS
<1>1. ~ mutexGone
  BY GoneForGood DEF Untouched
<1>2. CASE UNCHANGED <<up, exitVars>>
  BY <1>2 DEF Untouched, exitVars
<1>3. CASE ExitHandler
  BY <1>1, <1>3 DEF Untouched, ExitHandler, QueueDestroy, DestroyMutex, DestroyCond,
                    DestroyLast, DestroyFirst, DestroyLength, Destroy
<1>4. ASSUME NEW t \in Threads, SigintHandler(t) PROVE Untouched
  BY <1>1, <1>4 DEF Untouched, SigintHandler, Places
<1> QED
  BY <1>2, <1>3, <1>4, ExitVarsKept

\* queue_destroy has not reset first or last if it leaves the list untouched.
LEMMA ExitUntouched ==
  ASSUME ExitHandler, Untouched'
  PROVE  UNCHANGED <<first, last, length, next, accepted, freed, pc, mq, reg>>
BY DEF ExitHandler, QueueDestroy, DestroyMutex, DestroyCond, DestroyLast, DestroyFirst,
       DestroyLength, Destroy, Untouched

LEMMA StepWhole ==
  Types /\ Places /\ Exclusive /\ Safe /\ Whole /\ [Next]_vars => Whole'
<1> SUFFICES ASSUME Types, Places, Exclusive, Safe, Whole, [Next]_vars, Untouched'
             PROVE  \E n \in Nat : \E q \in [1..n -> Socks] : Intact(n, q)'
  BY DEF Whole
<1> USE Distinct
<1>1. ~ mutexGone /\ Sound
  BY UntouchedBefore DEF Untouched, Safe
<1>2. PICK n \in Nat : \E q \in [1..n -> Socks] : Intact(n, q)
  BY UntouchedBefore DEF Whole
<1>3. PICK q \in [1..n -> Socks] : Intact(n, q)
  BY <1>2
<1> DEFINE Found == \E m \in Nat : \E r \in [1..m -> Socks] : Intact(m, r)'
<1>4. Intact(n, q)' => Found
  OBVIOUS
<1> HIDE DEF Found
<1> SUFFICES Found
  BY DEF Found
<1>5. ASSUME NEW t \in Threads, NEW from \in Idle, NEW to \in Idle, Step(t, from, to),
             UNCHANGED <<first, last, length, next, reg>>, Live' = Live,
             \A u \in Threads : u # t => mq'[u] = mq[u]
      PROVE  Found
  <2>1. pc[t] = from /\ pc'[t] = to /\ \A u \in Threads : u # t => pc'[u] = pc[u]
    BY <1>5 DEF Step, At, Types
  <2> QED
    BY <1>3, <1>4, <1>5, <2>1, IntactKept
<1>6. ASSUME NEW t \in Threads, NEW from \in Idle, NEW to \in Idle, Step(t, from, to),
             UNCHANGED <<dataVars, mq, reg>>, from \in OutOfList <=> to \in OutOfList
      PROVE  Found
  <2>1. pc[t] = from /\ pc'[t] = to /\ \A u \in Threads : u # t => pc'[u] = pc[u]
    BY <1>6 DEF Step, At, Types
  <2>2. UNCHANGED <<first, last, length, next, accepted, freed, mq, reg>>
    BY <1>6 DEF dataVars, listVars
  <2>3. Live' = Live
    BY <1>6, <2>1, <2>2, LiveKept
  <2> QED
    BY <1>5, <1>6, <2>2, <2>3
<1>7. ASSUME NEW t \in Threads, NEW from \in Idle, NEW to \in Idle,
             Lock(t, from, to) \/ Unlock(t, from, to),
             from \in OutOfList <=> to \in OutOfList
      PROVE  Found
  BY <1>6, <1>7 DEF Lock, Unlock
<1>8. ASSUME NEW s \in Socks, PutAlloc(s) PROVE Found
  <2>1. Live' = Live
    BY <1>1, <1>8, AllocSound
  <2>2. /\ Step(Acceptor, "accept", "put_lock") /\ UNCHANGED <<first, last, length, next, reg>>
        /\ \A u \in Threads : u # Acceptor => mq'[u] = mq[u]
    BY <1>8 DEF PutAlloc, listVars, Types, TypeOK
  <2> QED
    BY <1>5, <2>1, <2>2 DEF Idle
<1>9. CASE QueuePut
  <2>1. CASE Lock(Acceptor, "put_lock", "put_check")
    BY <1>7, <2>1 DEF Idle, OutOfList
  <2>2. CASE PutCheck \/ PutLast \/ PutLength
    BY <1>1, <1>3, <1>4, <2>2, PutCheckWhole, PutLastWhole, PutLengthWhole
  <2>3. CASE PutFirst \/ PutNext
    BY <1>1, <1>3, <2>3, PutFirstWhole, PutNextWhole DEF Found
  <2>4. CASE Unlock(Acceptor, "put_unlock", "put_signal")
    BY <1>7, <2>4 DEF Idle, OutOfList
  <2>5. CASE PutSignal
    <3>1. PICK woken \in SUBSET waiting :
            pc' = [t \in Threads |-> IF t \in woken \ {taker} THEN "get_wake"
                                     ELSE IF t = Acceptor THEN "accept" ELSE pc[t]]
      BY <2>5 DEF PutSignal
    <3>2. /\ pc[Acceptor] = "put_signal" /\ mq' = [mq EXCEPT ![Acceptor] = Nil]
          /\ UNCHANGED <<first, last, length, next, reg>>
      BY <2>5 DEF PutSignal, At, dataVars, listVars
    <3>3. Live' = Live
      BY <1>1, <2>5, SignalSound
    <3>4. \A t \in Threads : \/ pc[t] \in Idle /\ pc'[t] \in Idle
                             \/ pc'[t] = pc[t] /\ mq'[t] = mq[t] /\ reg'[t] = reg[t]
      <4> TAKE t \in Threads
      <4>1. CASE t = Acceptor
        <5>1. pc'[t] \in {"get_wake", "accept"}
          BY <3>1, <4>1
        <5> QED
          BY <3>2, <4>1, <5>1 DEF Idle
      <4>2. CASE t # Acceptor /\ t \in woken \ {taker}
        <5>1. pc'[t] = "get_wake" /\ pc[t] = "waiting"
          BY <1>1, <3>1, <4>2 DEF Exclusive
        <5> QED
          BY <5>1 DEF Idle
      <4>3. CASE t # Acceptor /\ t \notin woken \ {taker}
        BY <3>1, <3>2, <4>3 DEF Types, TypeOK
      <4> QED
        BY <4>1, <4>2, <4>3
    <3> QED
      BY <1>3, <1>4, <3>2, <3>3, <3>4, IntactKept
  <2> QED
    BY <1>9, <2>1, <2>2, <2>3, <2>4, <2>5 DEF QueuePut
<1>10. ASSUME NEW w \in Workers, QueueGet(w) PROVE Found
  <2>1. CASE Lock(w, "get_lock", "get_check") \/ GetWake(w)
    BY <1>7, <2>1 DEF GetWake, Idle, OutOfList
  <2>2. CASE GetWait(w)
    BY <1>6, <2>2 DEF GetWait, Idle, OutOfList
  <2>3. CASE GetCheck(w) \/ GetLength(w) \/ GetMq(w) \/ GetCompare(w) \/ GetDeref(w) \/ GetLast(w)
    BY <1>1, <1>3, <1>4, <2>3, GetCheckWhole, GetLengthWhole, GetMqWhole, GetCompareWhole,
       GetDerefWhole, GetLastWhole
  <2>4. CASE GetFirst(w)
    BY <1>1, <1>3, <2>4, GetFirstWhole DEF Found
  <2>5. CASE GetNextLoad(w)
    BY <1>1, <1>3, <1>4, <2>5, GetNextWhole
  <2>6. CASE GetLink(w)
    BY <1>1, <1>3, <2>6, GetLinkWhole DEF Found
  <2>7. ASSUME NEW t, NEW from, NEW m, Faults(t, from, m) PROVE Found
    <3>1. UNCHANGED <<first, last, length, next, accepted, freed, pc, mq, reg>>
      BY <2>7 DEF Faults, dataVars, listVars
    <3> QED
      BY <1>3, <1>4, <3>1, LiveKept, IntactKept
  <2>8. CASE Unlock(w, "get_unlock", "get_free")
    BY <1>7, <2>8 DEF Idle, OutOfList
  <2>9. CASE GetFree(w)
    <3>1. Live' = Live /\ fault' = "none"
      BY <1>1, <2>9, GetFreeSound
    <3>2. CASE Faults(w, "get_free", mq[w])
      BY <2>7, <3>2
    <3>3. CASE ~ Faults(w, "get_free", mq[w])
      <4>1. /\ Step(w, "get_free", "serve") /\ UNCHANGED <<first, last, length, next, reg>>
            /\ \A u \in Threads : u # w => mq'[u] = mq[u]
        BY <2>9, <3>3 DEF GetFree, listVars, Types, TypeOK
      <4> QED
        BY <1>5, <3>1, <4>1 DEF Idle
    <3> QED
      BY <3>2, <3>3
  <2>10. CASE DoCall(w)
    BY <1>6, <2>10 DEF DoCall, Idle, OutOfList
  <2>11. GetNext(w) => GetNextLoad(w) \/ GetLink(w) \/ Faults(w, "get_next", first)
    BY DEF GetNext, GetNextLoad, GetLink
  <2> QED
    BY <1>10, <2>1, <2>2, <2>3, <2>4, <2>5, <2>6, <2>7, <2>8, <2>9, <2>10, <2>11
       DEF QueueGet
<1>11. ASSUME NEW w \in Workers, SpuriousWakeup(w) PROVE Found
  BY <1>6, <1>11 DEF SpuriousWakeup, Idle, OutOfList
<1>12. ASSUME UNCHANGED <<first, last, length, next, accepted, freed, pc, mq, reg>>
       PROVE  Found
  BY <1>3, <1>4, <1>12, LiveKept, IntactKept
<1>13. CASE ExitHandler
  BY <1>12, <1>13, ExitUntouched
<1>14. ASSUME NEW t \in Threads, SigintHandler(t) PROVE Found
  BY <1>12, <1>14, ExitSteps
<1>15. CASE UNCHANGED vars
  BY <1>12, <1>15 DEF vars, dataVars, listVars
<1> QED
  BY <1>8, <1>9, <1>10, <1>11, <1>13, <1>14, <1>15 DEF Next

-----------------------------------------------------------------------------
\* The four accesses that can go wrong.
Wrong ==
  \/ last \in freed \union {Nil} /\ Faults(Acceptor, "put_next", last)
  \/ \E w \in Workers :
       \/ first \in freed \union {Nil} /\ Faults(w, "get_deref", first)
       \/ first \in freed \union {Nil} /\ Faults(w, "get_next", first)
       \/ mq[w] \in freed \union {Nil} /\ Faults(w, "get_free", mq[w])

LEMMA OnlyWrongFaults == [Next]_vars => fault' = fault \/ Wrong
<1> SUFFICES ASSUME [Next]_vars, ~ Wrong PROVE fault' = fault
  OBVIOUS
<1>1. CASE UNCHANGED vars
  BY <1>1 DEF vars
<1>2. ASSUME NEW t, NEW from, NEW to, Step(t, from, to) PROVE fault' = fault
  BY <1>2 DEF Step
<1>3. ASSUME NEW s \in Socks, PutAlloc(s) PROVE fault' = fault
  BY <1>2, <1>3 DEF PutAlloc
<1>4. QueuePut => fault' = fault
  BY <1>2 DEF Wrong, QueuePut, Lock, PutCheck, PutFirst, PutNext, PutLast, PutLength, Load,
              Unlock, PutSignal
<1>5. ASSUME NEW w \in Workers, QueueGet(w) \/ SpuriousWakeup(w) PROVE fault' = fault
  BY <1>2, <1>5 DEF Wrong, QueueGet, Lock, GetWait, GetWake, GetCheck, GetLength, GetMq,
       GetCompare, GetDeref, GetLast, GetFirst, GetNext, Load, Unlock, GetFree, DoCall,
       SpuriousWakeup
<1> QED
  BY <1>1, <1>3, <1>4, <1>5, ExitSteps DEF Next

\* Before queue_destroy resets the fields, none of them does.
LEMMA NothingWrong ==
  ASSUME Types, Exclusive, ~ mutexGone, Sound, NEW n \in Nat, NEW q \in [1..n -> Socks],
         Intact(n, q)
  PROVE  ~ Wrong
<1> USE Distinct
<1>1. ~ (last \in freed \union {Nil} /\ Faults(Acceptor, "put_next", last))
  BY PutNextWhole DEF PutNext, Faults
<1>2. ASSUME NEW w \in Workers, first \in freed \union {Nil}
      PROVE  ~ Faults(w, "get_deref", first)
  BY <1>2, GetDerefWhole DEF GetDeref, Faults
<1>3. ASSUME NEW w \in Workers, first \in freed \union {Nil}
      PROVE  ~ Faults(w, "get_next", first)
  <2> SUFFICES ASSUME Faults(w, "get_next", first) PROVE FALSE
    OBVIOUS
  <2>1. pc[w] = "get_next"
    BY DEF Faults, At
  <2>2. Fit(n, q, w)
    BY <2>1, Alone, IntactFits DEF Inside, Unlinking
  <2>3. first \in Live
    BY <2>1, <2>2 DEF Fit, Progress, IsList
  <2> QED
    BY <1>3, <2>3 DEF Live, Types, TypeOK
<1>4. ASSUME NEW w \in Workers, mq[w] \in freed \union {Nil}
      PROVE  ~ Faults(w, "get_free", mq[w])
  BY <1>4, GetFreeSound DEF GetFree, Faults
<1> QED
  BY <1>1, <1>2, <1>3, <1>4 DEF Wrong

LEMMA StepFaults ==
  /\ Types /\ Places /\ Exclusive /\ Safe /\ Whole /\ FaultsExplained /\ [Next]_vars
  => FaultsExplained'
<1> SUFFICES ASSUME Types, Places, Exclusive, Safe, Whole, FaultsExplained, [Next]_vars
             PROVE  FaultsExplained'
  OBVIOUS
<1> USE Distinct
<1>1. CASE fault' = fault
  <2>1. CASE fault = "none"
    BY <1>1, <2>1 DEF FaultsExplained
  <2>2. CASE fault # "none"
    <3>1. UNCHANGED <<up, exitVars>>
      BY <2>2, ExitVarsKept, ExitSteps DEF SigintHandler
    <3> QED
      BY <1>1, <3>1 DEF FaultsExplained, exitVars
  <2> QED
    BY <2>1, <2>2
<1>2. CASE Wrong
  <2>1. up /\ UNCHANGED <<mutexGone, dpc>>
    BY <1>2 DEF Wrong, Faults, At, exitVars
  <2> SUFFICES ASSUME ~ mutexGone
               PROVE  fault' # "freed" /\ dpc \in {"first", "length", "exit"}
    BY <2>1 DEF FaultsExplained
  <2>2. Sound
    BY DEF Safe
  <2>3. fault' # "freed"
    <3>1. first \notin freed /\ last \notin freed
      BY <2>2 DEF Sound, Links, Live, Types, TypeOK
    <3>2. ASSUME NEW w \in Workers, Faults(w, "get_free", mq[w]) PROVE mq[w] \notin freed
      BY <2>2, <3>2 DEF Faults, At, Sound, Hands, OutOfList
    <3> QED
      BY <1>2, <3>1, <3>2 DEF Wrong, Faults
  <2>4. dpc \in {"first", "length", "exit"}
    <3>1. ~ Untouched
      <4> SUFFICES ASSUME Untouched PROVE FALSE
        OBVIOUS
      <4>1. PICK n \in Nat : \E q \in [1..n -> Socks] : Intact(n, q)
        BY DEF Whole
      <4>2. PICK q \in [1..n -> Socks] : Intact(n, q)
        BY <4>1
      <4> QED
        BY <1>2, <2>2, <4>2, NothingWrong
    <3>2. dpc # "done"
      BY <2>1 DEF Places
    <3> QED
      BY <3>1, <3>2 DEF Untouched, Types, TypeOK
  <2> QED
    BY <2>3, <2>4
<1> QED
  BY <1>1, <1>2, OnlyWrongFaults

-----------------------------------------------------------------------------
\* SIGINT in a quiet moment: nobody is inside, and whoever has a message owns it alone.
LEMMA QuietBegins ==
  ASSUME Types, Places, Exclusive, Safe, NEW t \in Threads, SigintHandler(t)
  PROVE  QuietInv'
<1> SUFFICES ASSUME quiet' PROVE QuietInv'
  BY DEF QuietInv
<1> USE Distinct
<1>1. t = Acceptor /\ length = 0 /\ owner = Nil /\ fault = "none" /\ taker' = t
      /\ taker = Nil
  BY DEF SigintHandler
<1>2. UNCHANGED <<length, accepted, freed, pc, mq, fault>>
  BY DEF SigintHandler, dataVars, listVars
<1>3. ~ mutexGone
  BY <1>1 DEF Places
<1>4. \A w \in Workers : pc[w] \notin Inside
  BY <1>1, <1>3 DEF Exclusive
<1>5. GetPc \subseteq Inside \union {"get_lock", "waiting", "get_wake", "get_free", "serve"}
  BY DEF GetPc, Inside, Unlinking
<1>6. \A w \in Workers : pc[w] \in {"get_lock", "waiting", "get_wake", "get_free", "serve"}
  BY <1>4, <1>5 DEF Types
<1>7. /\ \A w \in Workers : pc[w] = "get_free" => mq[w] \in accepted \ freed
      /\ \A v, w \in Workers : pc[v] = "get_free" /\ pc[w] = "get_free" /\ mq[v] = mq[w]
           => v = w
  BY <1>3 DEF Safe, Sound, Hands, OutOfList
<1> QED
  BY <1>1, <1>2, <1>6, <1>7 DEF QuietInv

\* Steps after it that keep a worker away from the list.
LEMMA QuietMoves ==
  ASSUME Types, QuietInv, quiet, NEW w \in Workers, NEW to, pc' = [pc EXCEPT ![w] = to],
         to \in {"get_lock", "waiting", "get_wake", "get_check", "serve"},
         \A v \in Workers : v # w => mq'[v] = mq[v],
         \A v \in Workers : v # w /\ pc[v] = "get_free" => mq[v] \notin freed',
         UNCHANGED <<length, accepted, fault, taker, quiet>>
  PROVE  QuietInv'
<1> USE Distinct
<1>1. pc'[w] = to /\ \A v \in Workers : v # w => pc'[v] = pc[v]
  BY DEF Types
<1> QED
  BY <1>1 DEF QuietInv

LEMMA StepQuiet ==
  Types /\ Places /\ Exclusive /\ Safe /\ QuietInv /\ [Next]_vars => QuietInv'
<1> SUFFICES ASSUME Types, Places, Exclusive, Safe, QuietInv, [Next]_vars, quiet'
             PROVE  QuietInv'
  BY DEF QuietInv
<1> USE Distinct
<1>1. ASSUME NEW t \in Threads, SigintHandler(t) PROVE QuietInv'
  BY <1>1, QuietBegins
<1>2. CASE ~ \E t \in Threads : SigintHandler(t)
  <2>1. quiet
    BY <1>2, ExitVarsKept, ExitSteps DEF exitVars
  <2>2. /\ taker = Acceptor /\ length = 0 /\ fault = "none"
        /\ \A w \in Workers :
             /\ pc[w] \in {"get_lock", "waiting", "get_wake", "get_check", "get_free", "serve"}
             /\ pc[w] = "get_free" => mq[w] \in accepted \ freed
        /\ \A v, w \in Workers : pc[v] = "get_free" /\ pc[w] = "get_free" /\ mq[v] = mq[w]
             => v = w
    BY <2>1 DEF QuietInv
  <2>3. \A from : ~ At(Acceptor, from)
    BY <2>2 DEF At
  <2>4. ~ QueuePut /\ \A s \in Socks : ~ PutAlloc(s)
    BY <2>3 DEF QueuePut, PutAlloc, Lock, PutCheck, PutFirst, PutNext, PutLast, PutLength,
       Load, Unlock, PutSignal, Step, Faults
  <2>5. ASSUME NEW w \in Workers, NEW from,
               from \notin {"get_lock", "waiting", "get_wake", "get_check", "get_free", "serve"}
        PROVE  ~ At(w, from)
    BY <2>2, <2>5 DEF At
  <2>6. ASSUME NEW w \in Workers, NEW from, NEW to, Step(w, from, to),
               to \in {"get_lock", "waiting", "get_wake", "get_check"},
               UNCHANGED <<dataVars, mq>>
        PROVE  QuietInv'
    <3>1. pc' = [pc EXCEPT ![w] = to]
          /\ UNCHANGED <<length, accepted, freed, mq, fault, taker, quiet>>
      BY <2>6 DEF Step, dataVars, listVars, exitVars
    <3> QED
      BY <2>1, <2>2, <2>6, <3>1, QuietMoves
  <2>7. ASSUME NEW w \in Workers, QueueGet(w) PROVE QuietInv'
    <3>1. CASE Lock(w, "get_lock", "get_check") \/ GetWait(w) \/ GetWake(w) \/ DoCall(w)
      BY <2>6, <3>1 DEF Lock, GetWait, GetWake, DoCall
    <3>2. ~ GetCheck(w)
      BY <2>2 DEF GetCheck
    <3>3. CASE GetFree(w)
      <4>1. pc[w] = "get_free"
        BY <3>3 DEF GetFree, Step, At, Faults
      <4>2. mq[w] \notin freed \union {Nil}
        BY <2>2, <4>1 DEF Types, TypeOK
      <4>3. /\ pc' = [pc EXCEPT ![w] = "serve"] /\ mq' = [mq EXCEPT ![w] = Nil]
            /\ freed' = freed \union {mq[w]}
            /\ UNCHANGED <<length, accepted, fault, taker, quiet>>
        BY <3>3, <4>2 DEF GetFree, Step, listVars, exitVars
      <4>4. /\ \A v \in Workers : v # w => mq'[v] = mq[v]
            /\ \A v \in Workers : v # w /\ pc[v] = "get_free" => mq[v] \notin freed'
        BY <2>2, <4>1, <4>3 DEF Types, TypeOK
      <4> QED
        BY <2>1, <4>3, <4>4, QuietMoves
    <3>4. /\ ~ GetLength(w) /\ ~ GetMq(w) /\ ~ GetCompare(w) /\ ~ GetDeref(w) /\ ~ GetLast(w)
          /\ ~ GetFirst(w) /\ ~ GetNext(w) /\ ~ Unlock(w, "get_unlock", "get_free")
      BY <2>5 DEF GetLength, GetMq, GetCompare, GetDeref, GetLast, GetFirst, GetNext, Load,
                  Unlock, Step, Faults
    <3> QED
      BY <2>7, <3>1, <3>2, <3>3, <3>4 DEF QueueGet
  <2>8. ASSUME NEW w \in Workers, SpuriousWakeup(w) PROVE QuietInv'
    BY <2>6, <2>8 DEF SpuriousWakeup
  <2>9. CASE ExitHandler
    BY <2>2, <2>9, ExitSteps DEF QuietInv
  <2>10. CASE UNCHANGED vars
    BY <2>2, <2>10 DEF vars, dataVars, listVars, exitVars, QuietInv
  <2> QED
    BY <1>2, <2>4, <2>7, <2>8, <2>9, <2>10 DEF Next
<1> QED
  BY <1>1, <1>2

-----------------------------------------------------------------------------
LEMMA InitIInv == Init => IInv
<1> SUFFICES ASSUME Init PROVE IInv
  OBVIOUS
<1> USE Distinct
<1>1. /\ first = Nil /\ last = Nil /\ length = 0 /\ accepted = {} /\ waiting = {}
      /\ fault = "none" /\ taker = Nil /\ dpc = "none" /\ ~ mutexGone /\ ~ quiet
      /\ \A s \in Socks : next[s] = Nil
      /\ \A t \in Threads : pc[t] \in {"accept", "get_lock"}
  BY DEF Init
<1>2. {"accept", "get_lock"} \intersect (Inside \union OutOfList \union Unlinking) = {}
      /\ {"accept", "get_lock"} \subseteq Idle
  BY DEF Inside, OutOfList, Unlinking, Idle
<1>3. Places /\ FaultsExplained /\ QuietInv
  BY <1>1 DEF Places, FaultsExplained, QuietInv
<1>4. Exclusive
  BY <1>1, <1>2 DEF Exclusive
<1>5. Live = {}
  BY <1>1 DEF Live
<1>6. Safe
  <2>1. Hands /\ Links
    BY <1>1, <1>2, <1>5 DEF Hands, Links
  <2>2. \A t \in Threads : Known(t)
    BY <1>1, <1>2 DEF Known, Unlinking
  <2> QED
    BY <2>1, <2>2 DEF Safe, Sound
<1>7. Whole
  <2>1. PICK q \in [1..0 -> Socks] : q = [i \in 1..0 |-> Nil]
    BY EmptyList
  <2>2. IsList(0, q)
    BY <1>1 DEF IsList
  <2>3. ASSUME NEW t \in Threads PROVE Progress(0, q, t) /\ pc[t] \notin Lag
    BY <1>1, <1>2, IdleElsewhere DEF Progress, Unlinking
  <2>4. Intact(0, q)
    BY <1>1, <2>2, <2>3 DEF Intact
  <2> QED
    BY <2>4 DEF Whole
<1> QED
  BY <1>3, <1>4, <1>6, <1>7, InitTypes DEF IInv

\* The invariant that every step preserves.
THEOREM InductiveInvariant == Spec => []IInv
<1>1. IInv /\ [Next]_vars => IInv'
  <2> SUFFICES ASSUME IInv, [Next]_vars PROVE IInv'
    OBVIOUS
  <2>1. Types /\ Places /\ Exclusive /\ Safe /\ Whole /\ QuietInv /\ FaultsExplained
    BY DEF IInv
  <2>2. Safe'
    <3> SUFFICES ASSUME ~ mutexGone' PROVE Sound'
      BY DEF Safe
    <3>1. ~ mutexGone /\ Sound
      BY <2>1, GoneForGood DEF Safe
    <3> QED
      BY <2>1, <3>1, StepSound
  <2> QED
    BY <2>1, <2>2, StepTypes, StepPlaces, StepExclusive, StepWhole, StepQuiet, StepFaults
       DEF IInv
<1> QED
  BY <1>1, InitIInv, PTL DEF Spec

\* Every variable keeps its type.
THEOREM TypeCorrect == Spec => []TypeOK
<1>1. IInv => TypeOK
  BY DEF IInv, Types
<1> QED
  BY <1>1, InductiveInvariant, PTL

\* queue_destroy and its missing lock: a message is used after it was freed only where
\* the mutex was destroyed, and a null pointer followed only there or once the fields
\* are being reset.
THEOREM FaultsAlwaysExplained == Spec => []FaultsExplained
<1>1. IInv => FaultsExplained
  BY DEF IInv
<1> QED
  BY <1>1, InductiveInvariant, PTL

\* A SIGINT that finds the accepting thread in accept and the queue empty and unlocked
\* ends the process without an access to a message that is not there.
THEOREM QuietAlwaysEndsCleanly == Spec => []QuietEndsCleanly
<1>1. IInv => QuietEndsCleanly
  BY DEF IInv, QuietInv, QuietEndsCleanly
<1> QED
  BY <1>1, InductiveInvariant, PTL

\* Until the mutex is destroyed, each message that is in neither the list nor free has
\* one owner: no two threads of the pool are given the same connection, even while the
\* fields are reset under them.
MessagesOwned == ~ mutexGone => Hands

THEOREM MessagesAlwaysOwned == Spec => []MessagesOwned
<1>1. IInv => MessagesOwned
  BY DEF IInv, Safe, Sound, MessagesOwned
<1> QED
  BY <1>1, InductiveInvariant, PTL

-----------------------------------------------------------------------------
\* What the accesses of queue_put and queue_get amount to, as long as queue_destroy lets
\* the list alone: the queue of FifoQueue.  Its content are the messages one finds from
\* first on; a socket was put once it is linked, and is with a worker from its unlinking
\* until mq->sock is read and the message freed.
IsChain(f, links, s) ==
  /\ \A k \in 1..Len(s) - 1 : links[s[k]] = s[k + 1]
  /\ IF s = <<>> THEN f = Nil ELSE f = s[1] /\ links[s[Len(s)]] = Nil

ChainFrom(f, links) == CHOOSE s \in Seq(Socks) : IsChain(f, links, s)

Unlinked == {"put_lock", "put_check", "put_first", "put_next"}
Linked == {s \in accepted : ~ (pc[Acceptor] \in Unlinked /\ mq[Acceptor] = s)}

Holding == {"get_unlock", "get_free"}
Held == [w \in Workers |-> IF pc[w] \in Holding THEN mq[w] ELSE Nil]

Fifo == INSTANCE FifoQueue WITH items <- ChainFrom(first, next), put <- Linked, connfd <- Held

\* A set of numbers that is not empty has a least one.
LEMMA LeastOf ==
  ASSUME NEW T, T \subseteq Nat, T # {}
  PROVE  \E x \in T : \A y \in T : x <= y
<1> DEFINE R == OpToRel(<, Nat)
<1>1. PICK x \in T : \A y \in T : ~ (<<y, x>> \in R)
  <2>1. IsWellFoundedOn(R, Nat)
    BY NatLessThanWellFounded
  <2> HIDE DEF R
  <2> QED
    BY <2>1, WFMin
<1>2. ASSUME NEW y \in T PROVE x <= y
  <2>1. ~ (<<y, x>> \in R)
    BY <1>1
  <2>2. y \in Nat /\ x \in Nat
    BY <1>1
  <2>3. ~ (y < x)
    BY <2>1, <2>2 DEF OpToRel
  <2> QED
    BY <2>2, <2>3
<1> QED
  BY <1>2

\* Two chains cannot differ: at the first place where they do, one link would lead to two
\* messages.
LEMMA OneChain ==
  ASSUME NEW f, NEW links, NEW s \in Seq(Socks), NEW t \in Seq(Socks), IsChain(f, links, s), IsChain(f, links, t)
  PROVE  s = t
<1> USE Distinct
<1>1. PICK l \in Nat : l = Len(s)
  OBVIOUS
<1>2. PICK m \in Nat : m = Len(t)
  OBVIOUS
<1>3. /\ \A k \in 1..l : s[k] \in Socks
      /\ \A k \in 1..m : t[k] \in Socks
  BY <1>1, <1>2
<1>4. /\ \A k \in 1..l - 1 : links[s[k]] = s[k + 1]
      /\ IF l = 0 THEN f = Nil ELSE f = s[1] /\ links[s[l]] = Nil
  BY <1>1 DEF IsChain
<1>5. /\ \A k \in 1..m - 1 : links[t[k]] = t[k + 1]
      /\ IF m = 0 THEN f = Nil ELSE f = t[1] /\ links[t[m]] = Nil
  BY <1>2 DEF IsChain
<1>6. ASSUME NEW k \in 1..l, k <= m, \A j \in 1..k - 1 : s[j] = t[j] PROVE s[k] = t[k]
  <2>1. CASE k = 1
    BY <1>4, <1>5, <1>6, <2>1
  <2>2. CASE k # 1
    <3>1. k - 1 \in 1..k - 1 /\ k - 1 \in 1..l - 1 /\ k - 1 \in 1..m - 1 /\ (k - 1) + 1 = k
      BY <1>6, <2>2
    <3> QED
      BY <1>4, <1>5, <1>6, <3>1
  <2> QED
    BY <2>1, <2>2
<1>7. \A k \in 1..l : k <= m => s[k] = t[k]
  <2> DEFINE Different == {k \in 1..l : k <= m /\ s[k] # t[k]}
  <2> SUFFICES ASSUME Different # {} PROVE FALSE
    OBVIOUS
  <2>1. Different \subseteq Nat
    OBVIOUS
  <2>2. PICK k \in Different : \A j \in Different : k <= j
    <3> HIDE DEF Different
    <3> QED
      BY <2>1, LeastOf
  <2>3. k \in 1..l /\ k <= m
    BY <2>2
  <2>4. \A j \in 1..k - 1 : s[j] = t[j]
    <3> TAKE j \in 1..k - 1
    <3>1. j \in 1..l /\ j <= m /\ ~ (k <= j)
      BY <2>3
    <3> QED
      BY <2>2, <3>1
  <2> QED
    BY <1>6, <2>2, <2>3, <2>4
<1>8. l = m
  <2>1. CASE l < m
    <3>1. CASE l = 0
      <4>1. 1 \in 1..m
        BY <2>1
      <4> QED
        BY <1>3, <1>4, <1>5, <2>1, <3>1, <4>1
    <3>2. CASE l # 0
      <4>1. l \in 1..l /\ l <= m /\ l \in 1..m - 1 /\ l + 1 \in 1..m
        BY <2>1, <3>2
      <4> QED
        BY <1>3, <1>4, <1>5, <1>7, <3>2, <4>1
    <3> QED
      BY <3>1, <3>2
  <2>2. CASE m < l
    <3>1. CASE m = 0
      <4>1. 1 \in 1..l
        BY <2>2
      <4> QED
        BY <1>3, <1>4, <1>5, <2>2, <3>1, <4>1
    <3>2. CASE m # 0
      <4>1. m \in 1..l /\ m <= m /\ m \in 1..l - 1 /\ m + 1 \in 1..l
        BY <2>2, <3>2
      <4> QED
        BY <1>3, <1>4, <1>5, <1>7, <3>2, <4>1
    <3> QED
      BY <3>1, <3>2
  <2> QED
    BY <2>1, <2>2
<1>9. \A k \in 1..Len(s) : s[k] = t[k]
  BY <1>1, <1>2, <1>7, <1>8
<1> QED
  BY <1>1, <1>2, <1>8, <1>9, SeqEqual

LEMMA ChainIs ==
  ASSUME NEW f, NEW links, NEW s \in Seq(Socks), IsChain(f, links, s)
  PROVE  ChainFrom(f, links) = s
<1>1. ChainFrom(f, links) \in Seq(Socks) /\ IsChain(f, links, ChainFrom(f, links))
  BY DEF ChainFrom
<1> HIDE DEF ChainFrom
<1> QED
  BY <1>1, OneChain

\* The list of Whole is the chain: no link leaves its last message.
LEMMA ListIsChain ==
  ASSUME Types, Sound, NEW n \in Nat, NEW q \in [1..n -> Socks], Intact(n, q)
  PROVE  q \in Seq(Socks) /\ Len(q) = n /\ IsChain(first, next, q)
         /\ ChainFrom(first, next) = q
<1> USE Distinct
<1>0. PICK f, links : f = first /\ links = next
  OBVIOUS
<1>1. q \in Seq(Socks) /\ Len(q) = n
  OBVIOUS
<1>2. IsList(n, q)
  BY DEF Intact
<1>3. CASE n = 0
  <2>1. q = <<>>
    BY <1>1, <1>3
  <2>2. IsChain(f, links, q)
    BY <1>0, <1>1, <1>2, <1>3, <2>1 DEF IsList, IsChain
  <2> QED
    BY <1>0, <1>1, <2>2, ChainIs
<1>4. CASE n # 0
  <2>1. n \in 1..n /\ q[n] \in Socks /\ q # <<>>
    BY <1>1, <1>4
  <2>2. next[q[n]] = Nil
    <3>1. CASE \A t \in Threads : pc[t] \notin {"put_last", "get_first"}
      <4>1. last = q[n] /\ last # Nil
        BY <1>4, <2>1, <3>1 DEF Intact
      <4> QED
        BY <3>1, <4>1 DEF Sound, Links
    <3>2. ASSUME NEW t \in Threads, pc[t] = "put_last" PROVE next[q[n]] = Nil
      BY <3>2 DEF Sound, Known, Intact, Progress
    <3>3. ASSUME NEW t \in Threads, pc[t] = "get_first" PROVE next[q[n]] = Nil
      <4>1. "get_first" \in Unlinking
        BY DEF Unlinking
      <4>2. n = 1 /\ mq[t] = first /\ next[mq[t]] = Nil
        BY <3>3, <4>1 DEF Sound, Known, Intact, Progress
      <4> QED
        BY <1>2, <1>4, <4>2 DEF IsList
    <3> QED
      BY <3>1, <3>2, <3>3
  <2>3. IsChain(first, next, q)
    BY <1>1, <1>2, <1>4, <2>1, <2>2 DEF IsList, IsChain
  <2> QED
    BY <1>0, <1>1, <2>3, ChainIs
<1> QED
  BY <1>3, <1>4

-----------------------------------------------------------------------------
\* A step that moves no message into the list or out of it, and none to a worker.
LEMMA Stutters ==
  ASSUME UNCHANGED <<first, next, accepted>>,
         pc'[Acceptor] \in Unlinked <=> pc[Acceptor] \in Unlinked,
         pc[Acceptor] \in Unlinked => mq'[Acceptor] = mq[Acceptor],
         \A w \in Workers : /\ pc'[w] \in Holding <=> pc[w] \in Holding
                            /\ pc[w] \in Holding => mq'[w] = mq[w]
  PROVE  UNCHANGED Fifo!fifoVars
<1>1. ChainFrom(first', next') = ChainFrom(first, next)
  OBVIOUS
<1>2. Linked' = Linked
  BY DEF Linked
<1>3. Held' = Held
  BY DEF Held
<1> QED
  BY <1>1, <1>2, <1>3 DEF Fifo!fifoVars

LEMMA Passes ==
  ASSUME Types, NEW t \in Threads, NEW from, NEW to, Step(t, from, to),
         UNCHANGED <<first, next, accepted>>, \A u \in Threads : u # t => mq'[u] = mq[u],
         from \in Unlinked <=> to \in Unlinked, from \in Holding <=> to \in Holding,
         from \in Unlinked \union Holding => mq'[t] = mq[t]
  PROVE  UNCHANGED Fifo!fifoVars
<1> USE Distinct
<1>1. pc[t] = from /\ pc'[t] = to /\ \A u \in Threads : u # t => pc'[u] = pc[u]
  BY DEF Step, At, Types
<1>2. /\ pc'[Acceptor] \in Unlinked <=> pc[Acceptor] \in Unlinked
      /\ pc[Acceptor] \in Unlinked => mq'[Acceptor] = mq[Acceptor]
  BY <1>1
<1>3. ASSUME NEW w \in Workers
      PROVE  /\ pc'[w] \in Holding <=> pc[w] \in Holding
             /\ pc[w] \in Holding => mq'[w] = mq[w]
  BY <1>1
<1> QED
  BY <1>2, <1>3, Stutters

\* A step of queue_put or queue_get that only looks, or writes what is its own.
LEMMA Looks ==
  ASSUME Types, NEW t \in Threads, NEW from, NEW to, Step(t, from, to),
         UNCHANGED <<first, next, accepted, mq>>,
         from \in Unlinked <=> to \in Unlinked, from \in Holding <=> to \in Holding
  PROVE  UNCHANGED Fifo!fifoVars
BY Passes

\* The places of the acceptor and of the workers.
LEMMA PlacesApart ==
  /\ Unlinked \subseteq OutOfList /\ Holding \subseteq OutOfList
  /\ Unlinked \intersect Holding = {}
BY DEF Unlinked, Holding, OutOfList

LEMMA Faulted ==
  ASSUME NEW t, NEW from, NEW m, Faults(t, from, m)
  PROVE  UNCHANGED Fifo!fifoVars
BY Stutters DEF Faults, dataVars, listVars

\* The message of queue_put becomes the last one.
LEMMA PutsLast ==
  ASSUME Types, Sound, NEW q \in Seq(Socks), ChainFrom(first, next) = q,
         pc[Acceptor] \in {"put_first", "put_next"},
         pc' = [pc EXCEPT ![Acceptor] = "put_last"], UNCHANGED <<accepted, mq>>,
         IsChain(first', next', Append(q, mq[Acceptor]))
  PROVE  \E s \in Socks : Fifo!FifoPut(s)
<1> USE Distinct
<1>1. PICK s : s = mq[Acceptor]
  OBVIOUS
<1>2. s \in accepted /\ s \in Socks
  BY <1>1, PlacesApart DEF Unlinked, Sound, Hands, Types, TypeOK
<1>3. pc'[Acceptor] = "put_last" /\ \A w \in Workers : pc'[w] = pc[w]
  BY DEF Types
<1>4. Linked = accepted \ {s} /\ Linked' = accepted
  BY <1>1, <1>3 DEF Linked, Unlinked
<1>5. Held' = Held
  BY <1>3 DEF Held
<1>6. Append(q, s) \in Seq(Socks)
  BY <1>2
<1>7. PICK f, links : f = first' /\ links = next'
  OBVIOUS
<1>8. ChainFrom(first', next') = Append(q, s)
  BY <1>1, <1>6, <1>7, ChainIs
<1> QED
  BY <1>2, <1>4, <1>5, <1>8 DEF Fifo!FifoPut

\* The first message becomes a worker's.
LEMMA TakesFirst ==
  ASSUME Types, NEW w \in Workers, NEW q \in Seq(Socks), q # <<>>,
         ChainFrom(first, next) = q, pc[w] \notin Holding,
         pc' = [pc EXCEPT ![w] = "get_unlock"], UNCHANGED <<accepted, mq>>, mq[w] = q[1],
         IsChain(first', next', Tail(q))
  PROVE  Fifo!FifoGet(w)
<1> USE Distinct
<1>1. pc'[w] = "get_unlock" /\ \A t \in Threads : t # w => pc'[t] = pc[t]
  BY DEF Types
<1>2. Linked' = Linked
  BY <1>1 DEF Linked
<1>3. Held[w] = Nil /\ Held' = [Held EXCEPT ![w] = Head(q)]
  <2>1. Head(q) = q[1]
    OBVIOUS
  <2>2. \A v \in Workers : Held'[v] = IF v = w THEN Head(q) ELSE Held[v]
    BY <1>1, <2>1 DEF Held, Holding
  <2> QED
    BY <2>2 DEF Held
<1>4. Tail(q) \in Seq(Socks)
  OBVIOUS
<1>5. PICK f, links : f = first' /\ links = next'
  OBVIOUS
<1>6. ChainFrom(first', next') = Tail(q)
  BY <1>4, <1>5, ChainIs
<1> QED
  BY <1>2, <1>3, <1>6 DEF Fifo!FifoGet

LEMMA PutFirstPuts ==
  ASSUME Types, Exclusive, ~ mutexGone, Sound, NEW n \in Nat, NEW q \in [1..n -> Socks],
         Intact(n, q), PutFirst
  PROVE  \E s \in Socks : Fifo!FifoPut(s)
<1>1. /\ pc[Acceptor] = "put_first" /\ pc' = [pc EXCEPT ![Acceptor] = "put_last"]
      /\ first' = mq[Acceptor] /\ UNCHANGED <<next, accepted, mq>>
  BY DEF PutFirst, Step, At
<1>2. q \in Seq(Socks) /\ Len(q) = n /\ ChainFrom(first, next) = q
  BY ListIsChain
<1>3. n = 0 /\ q = <<>>
  BY <1>1, <1>2, Distinct DEF Intact, Progress
<1>4. PICK s : s = mq[Acceptor]
  OBVIOUS
<1>5. next[s] = Nil
  BY <1>1, <1>4 DEF Sound, Links, OutOfList
<1>6. IsChain(first', next', Append(q, s))
  <2>1. Append(q, s) = <<s>>
    BY <1>3
  <2> QED
    BY <1>1, <1>4, <1>5, <2>1 DEF IsChain
<1> QED
  BY <1>1, <1>2, <1>4, <1>6, PutsLast

LEMMA PutNextPuts ==
  ASSUME Types, Exclusive, ~ mutexGone, Sound, NEW n \in Nat, NEW q \in [1..n -> Socks],
         Intact(n, q), PutNext
  PROVE  \E s \in Socks : Fifo!FifoPut(s)
<1> USE Distinct
<1>1. pc[Acceptor] = "put_next" /\ fault = "none"
  BY DEF PutNext, Step, At, Faults
<1>2. n # 0 /\ last = q[n] /\ IsList(n, q)
  <2>1. \A t \in Threads : pc[t] \notin {"put_last", "get_first"}
    <3> TAKE t \in Threads
    <3>1. t # Acceptor => pc[t] \notin Inside
      BY <1>1, Alone DEF Inside
    <3> QED
      BY <1>1, <3>1 DEF Inside, Unlinking
  <2> QED
    BY <1>1, <2>1 DEF Intact, Progress
<1>3. last \in Live /\ last \notin freed \union {Nil}
  BY <1>2 DEF Sound, Links, IsList, Live
<1>4. /\ pc' = [pc EXCEPT ![Acceptor] = "put_last"]
      /\ next' = [next EXCEPT ![last] = mq[Acceptor]] /\ UNCHANGED <<first, accepted, mq>>
  BY <1>1, <1>3 DEF PutNext, Step, Faults
<1>5. q \in Seq(Socks) /\ Len(q) = n /\ ChainFrom(first, next) = q
  BY ListIsChain
<1>6. PICK s : s = mq[Acceptor]
  OBVIOUS
<1>7. next[s] = Nil /\ s \in Socks /\ s \notin Live
  BY <1>1, <1>6 DEF Sound, Links, Hands, Live, OutOfList, Types, TypeOK
<1>8. /\ last \in Socks /\ next'[last] = s
      /\ \A x \in Socks : x # last => next'[x] = next[x]
  BY <1>2, <1>4, <1>6 DEF Types, TypeOK
<1>9. PICK r : r = Append(q, s)
  OBVIOUS
<1>10. r \in Seq(Socks) /\ Len(r) = n + 1 /\ r[n + 1] = s /\ \A k \in 1..n : r[k] = q[k]
  BY <1>5, <1>7, <1>9
<1>11. ASSUME NEW k \in 1..n PROVE next'[r[k]] = r[k + 1]
  <2>1. CASE k = n
    BY <1>2, <1>8, <1>10, <2>1
  <2>2. CASE k # n
    <3>1. k \in 1..n - 1 /\ k + 1 \in 1..n /\ n \in 1..n
      BY <2>2
    <3>2. q[k] \in Socks /\ q[k] # last /\ next[q[k]] = q[k + 1]
      BY <1>2, <2>2, <3>1 DEF IsList
    <3> QED
      BY <1>8, <1>10, <3>1, <3>2
  <2> QED
    BY <2>1, <2>2
<1>12. next'[s] = Nil
  BY <1>3, <1>7, <1>8
<1>13. first' = r[1] /\ r # <<>>
  BY <1>2, <1>4, <1>10 DEF IsList
<1>14. IsChain(first', next', r)
  BY <1>10, <1>11, <1>12, <1>13 DEF IsChain
<1> QED
  BY <1>1, <1>4, <1>5, <1>6, <1>9, <1>14, PutsLast

LEMMA GetFirstGets ==
  ASSUME Types, Exclusive, ~ mutexGone, Sound, NEW n \in Nat, NEW q \in [1..n -> Socks],
         Intact(n, q), NEW w \in Workers, GetFirst(w)
  PROVE  Fifo!FifoGet(w)
<1> USE Distinct
<1>1. /\ pc[w] = "get_first" /\ pc' = [pc EXCEPT ![w] = "get_unlock"]
      /\ first' = Nil /\ UNCHANGED <<next, accepted, mq>>
  BY DEF GetFirst, Step, At
<1>2. q \in Seq(Socks) /\ Len(q) = n /\ ChainFrom(first, next) = q
  BY ListIsChain
<1>3. n = 1 /\ mq[w] = q[1]
  BY <1>1 DEF Intact, Progress, Unlinking, IsList
<1>4. q # <<>> /\ Tail(q) = <<>>
  <2>1. q # <<>>
    BY <1>2, <1>3
  <2>2. Tail(q) \in Seq(Socks) /\ Len(Tail(q)) = 0
    BY <1>2, <1>3, <2>1
  <2> QED
    BY <2>1, <2>2, EmptySeq
<1>5. IsChain(first', next', <<>>)
  <2>1. \A k \in 1..0 - 1 : FALSE
    OBVIOUS
  <2> QED
    BY <1>1, <2>1 DEF IsChain
<1>6. pc[w] \notin Holding
  BY <1>1 DEF Holding
<1> QED
  BY <1>1, <1>2, <1>3, <1>4, <1>5, <1>6, TakesFirst

LEMMA GetLinkGets ==
  ASSUME Types, Exclusive, ~ mutexGone, Sound, NEW n \in Nat, NEW q \in [1..n -> Socks],
         Intact(n, q), NEW w \in Workers, GetLink(w)
  PROVE  Fifo!FifoGet(w)
<1> USE Distinct
<1>1. /\ pc[w] = "get_link" /\ pc' = [pc EXCEPT ![w] = "get_unlock"]
      /\ first' = reg[w] /\ UNCHANGED <<next, accepted, mq>>
  BY DEF GetLink, Step, At
<1>2. /\ q \in Seq(Socks) /\ Len(q) = n /\ ChainFrom(first, next) = q
      /\ IsChain(first, next, q)
  BY ListIsChain
<1>3. n > 1 /\ mq[w] = q[1]
  BY <1>1 DEF Intact, Progress, Unlinking, IsList
<1>4. reg[w] = next[mq[w]]
  BY <1>1 DEF Sound, Known
<1>5. /\ \A k \in 1..n - 1 : next[q[k]] = q[k + 1]
      /\ next[q[n]] = Nil /\ q # <<>>
  BY <1>2, <1>3 DEF IsChain
<1>6. PICK r : r = Tail(q)
  OBVIOUS
<1>7. r \in Seq(Socks) /\ Len(r) = n - 1 /\ \A k \in 1..n - 1 : r[k] = q[k + 1]
  BY <1>2, <1>5, <1>6
<1>8. first' = r[1] /\ r # <<>>
  <2>1. 1 \in 1..n - 1
    BY <1>3
  <2> QED
    BY <1>1, <1>3, <1>4, <1>5, <1>7, <2>1
<1>9. ASSUME NEW k \in 1..n - 2 PROVE next[r[k]] = r[k + 1]
  <2>1. k \in 1..n - 1 /\ k + 1 \in 1..n - 1
    OBVIOUS
  <2> QED
    BY <1>5, <1>7, <2>1
<1>10. next[r[n - 1]] = Nil
  <2>1. n - 1 \in 1..n - 1 /\ (n - 1) + 1 = n
    BY <1>3
  <2> QED
    BY <1>5, <1>7, <2>1
<1>11. IsChain(first', next', r)
  <2>1. Len(r) - 1 = n - 2
    BY <1>7
  <2> QED
    BY <1>1, <1>7, <1>8, <1>9, <1>10, <2>1 DEF IsChain
<1>12. pc[w] \notin Holding
  BY <1>1 DEF Holding
<1> QED
  BY <1>1, <1>2, <1>3, <1>5, <1>6, <1>11, <1>12, TakesFirst

\* The worker reads mq->sock and frees the message.
LEMMA FreeAsks ==
  ASSUME Types, Sound, NEW w \in Workers, GetFree(w)
  PROVE  Fifo!FifoAsk(w)
<1> USE Distinct
<1>1. pc[w] = "get_free"
  BY DEF GetFree, Step, At, Faults
<1>2. mq[w] \in accepted \ freed /\ mq[w] # Nil
  BY <1>1 DEF Sound, Hands, OutOfList, Types, TypeOK
<1>3. /\ pc' = [pc EXCEPT ![w] = "serve"] /\ mq' = [mq EXCEPT ![w] = Nil]
      /\ UNCHANGED <<first, next, accepted>>
  BY <1>2 DEF GetFree, Step, listVars
<1>4. pc'[w] = "serve" /\ \A t \in Threads : t # w => pc'[t] = pc[t] /\ mq'[t] = mq[t]
  BY <1>3 DEF Types, TypeOK
<1>5. Linked' = Linked
  BY <1>3, <1>4 DEF Linked
<1>6. Held[w] # Nil /\ Held' = [Held EXCEPT ![w] = Nil]
  <2>1. \A v \in Workers : Held'[v] = IF v = w THEN Nil ELSE Held[v]
    BY <1>4 DEF Held, Holding
  <2> QED
    BY <1>1, <1>2, <2>1 DEF Held, Holding
<1> QED
  BY <1>3, <1>5, <1>6 DEF Fifo!FifoAsk

\* A new message is the acceptor's own.
LEMMA AllocKeeps ==
  ASSUME Types, NEW s \in Socks, PutAlloc(s)
  PROVE  UNCHANGED Fifo!fifoVars
<1> USE Distinct
<1>1. /\ pc[Acceptor] = "accept" /\ s \notin accepted /\ accepted' = accepted \union {s}
      /\ pc' = [pc EXCEPT ![Acceptor] = "put_lock"] /\ mq' = [mq EXCEPT ![Acceptor] = s]
      /\ UNCHANGED <<first, next>>
  BY DEF PutAlloc, Step, At, listVars
<1>2. /\ pc'[Acceptor] = "put_lock" /\ mq'[Acceptor] = s
      /\ \A w \in Workers : pc'[w] = pc[w] /\ mq'[w] = mq[w]
  BY <1>1 DEF Types, TypeOK
<1>3. Linked = accepted /\ Linked' = accepted
  BY <1>1, <1>2 DEF Linked, Unlinked
<1>4. Held' = Held
  BY <1>2 DEF Held
<1> QED
  BY <1>1, <1>3, <1>4 DEF Fifo!fifoVars

LEMMA SignalKeeps ==
  ASSUME Types, Exclusive, ~ mutexGone, PutSignal
  PROVE  UNCHANGED Fifo!fifoVars
<1> USE Distinct
<1>1. PICK woken \in SUBSET waiting :
        pc' = [t \in Threads |-> IF t \in woken \ {taker} THEN "get_wake"
                                 ELSE IF t = Acceptor THEN "accept" ELSE pc[t]]
  BY DEF PutSignal
<1>2. /\ pc[Acceptor] = "put_signal" /\ mq' = [mq EXCEPT ![Acceptor] = Nil]
      /\ UNCHANGED <<first, next, accepted>>
  BY DEF PutSignal, At, dataVars, listVars
<1>3. pc'[Acceptor] \notin Unlinked /\ pc[Acceptor] \notin Unlinked
  BY <1>1, <1>2 DEF Unlinked
<1>4. ASSUME NEW w \in Workers
      PROVE  /\ pc'[w] \in Holding <=> pc[w] \in Holding
             /\ pc[w] \in Holding => mq'[w] = mq[w]
  <2>1. mq'[w] = mq[w]
    BY <1>2 DEF Types, TypeOK
  <2>2. CASE w \in woken \ {taker}
    <3>1. pc'[w] = "get_wake" /\ pc[w] = "waiting"
      BY <1>1, <2>2 DEF Exclusive
    <3> QED
      BY <3>1 DEF Holding
  <2>3. CASE w \notin woken \ {taker}
    BY <1>1, <2>1, <2>3
  <2> QED
    BY <2>1, <2>2, <2>3
<1> QED
  BY <1>2, <1>3, <1>4, Stutters

\* Every step that leaves the list to queue_put and queue_get is one of FifoQueue, or none.
LEMMA FifoStep ==
  ASSUME IInv, Untouched, Untouched', [Next]_vars
  PROVE  [Fifo!FifoNext]_Fifo!fifoVars
<1> USE Distinct
<1>1. Types /\ Exclusive /\ ~ mutexGone /\ Sound
  BY DEF IInv, Untouched, Safe
<1>2. PICK n \in Nat : \E q \in [1..n -> Socks] : Intact(n, q)
  BY DEF IInv, Whole
<1>3. PICK q \in [1..n -> Socks] : Intact(n, q)
  BY <1>2
<1> DEFINE Goal == [Fifo!FifoNext]_Fifo!fifoVars
<1>4. /\ UNCHANGED Fifo!fifoVars => Goal
      /\ (\E s \in Socks : Fifo!FifoPut(s)) => Goal
      /\ \A w \in Workers : Fifo!FifoGet(w) \/ Fifo!FifoAsk(w) => Goal
  BY DEF Fifo!FifoNext
<1> HIDE DEF Goal
<1> SUFFICES Goal
  BY DEF Goal
<1>5. ASSUME NEW t \in Threads, NEW from, NEW to,
             Step(t, from, to), UNCHANGED <<first, next, accepted, mq>>,
             from \in Unlinked <=> to \in Unlinked, from \in Holding <=> to \in Holding
      PROVE  Goal
  BY <1>1, <1>4, <1>5, Looks
<1>6. CASE QueuePut
  <2>1. CASE Lock(Acceptor, "put_lock", "put_check") \/ Unlock(Acceptor, "put_unlock", "put_signal")
    BY <1>5, <2>1 DEF Lock, Unlock, dataVars, listVars, Unlinked, Holding
  <2>2. CASE PutCheck
    BY <1>5, <2>2 DEF PutCheck, dataVars, listVars, Unlinked, Holding
  <2>3. CASE PutFirst
    BY <1>1, <1>3, <1>4, <2>3, PutFirstPuts
  <2>4. CASE PutNext
    BY <1>1, <1>3, <1>4, <2>4, PutNextPuts
  <2>5. CASE PutLast
    BY <1>5, <2>5 DEF PutLast, Unlinked, Holding
  <2>6. CASE PutLength
    BY <1>5, <2>6 DEF PutLength, Load, dataVars, listVars, Unlinked, Holding
  <2>7. CASE PutSignal
    BY <1>1, <1>4, <2>7, SignalKeeps
  <2> QED
    BY <1>6, <2>1, <2>2, <2>3, <2>4, <2>5, <2>6, <2>7 DEF QueuePut
<1>7. ASSUME NEW w \in Workers, QueueGet(w) PROVE Goal
  <2>1. CASE \/ Lock(w, "get_lock", "get_check") \/ GetWake(w)
             \/ Unlock(w, "get_unlock", "get_free")
    BY <1>5, <2>1 DEF GetWake, Lock, Unlock, dataVars, listVars, Unlinked, Holding
  <2>2. CASE GetWait(w) \/ GetCheck(w) \/ DoCall(w)
    BY <1>5, <2>2 DEF GetWait, GetCheck, DoCall, dataVars, listVars, Unlinked, Holding
  <2>3. CASE GetLength(w) \/ GetCompare(w)
    BY <1>5, <2>3 DEF GetLength, GetCompare, Load, dataVars, listVars, Unlinked, Holding
  <2>4. CASE GetMq(w)
    <3>1. /\ Step(w, "get_mq", "get_compare") /\ UNCHANGED <<first, next, accepted>>
          /\ \A t \in Threads : t # w => mq'[t] = mq[t]
      BY <1>1, <2>4 DEF GetMq, dataVars, listVars, Types, TypeOK
    <3>2. UNCHANGED Fifo!fifoVars
      BY <1>1, <3>1, Passes DEF Unlinked, Holding
    <3> QED
      BY <1>4, <3>2
  <2>5. CASE GetDeref(w)
    <3>1. CASE Faults(w, "get_deref", first)
      BY <1>4, <3>1, Faulted
    <3>2. CASE ~ Faults(w, "get_deref", first)
      BY <1>5, <2>5, <3>2 DEF GetDeref, dataVars, listVars, Unlinked, Holding
    <3> QED
      BY <3>1, <3>2
  <2>6. CASE GetLast(w)
    BY <1>5, <2>6 DEF GetLast, Unlinked, Holding
  <2>7. CASE GetFirst(w)
    BY <1>1, <1>3, <1>4, <2>7, GetFirstGets
  <2>8. CASE GetLink(w)
    BY <1>1, <1>3, <1>4, <2>8, GetLinkGets
  <2>9. CASE GetNextLoad(w)
    BY <1>5, <2>9 DEF GetNextLoad, Load, dataVars, listVars, Unlinked, Holding
  <2>10. CASE Faults(w, "get_next", first)
    BY <1>4, <2>10, Faulted
  <2>11. GetNext(w) => GetNextLoad(w) \/ GetLink(w) \/ Faults(w, "get_next", first)
    BY DEF GetNext, GetNextLoad, GetLink
  <2>12. CASE GetFree(w)
    BY <1>1, <1>4, <2>12, FreeAsks
  <2> QED
    BY <1>7, <2>1, <2>2, <2>3, <2>4, <2>5, <2>6, <2>7, <2>8, <2>9, <2>10, <2>11, <2>12
       DEF QueueGet
<1>8. ASSUME NEW s \in Socks, PutAlloc(s) PROVE Goal
  BY <1>1, <1>4, <1>8, AllocKeeps
<1>9. ASSUME NEW w \in Workers, SpuriousWakeup(w) PROVE Goal
  BY <1>5, <1>9 DEF SpuriousWakeup, dataVars, listVars, Unlinked, Holding
<1>10. ASSUME UNCHANGED <<first, next, accepted, pc, mq>> PROVE Goal
  BY <1>4, <1>10, Stutters
<1>11. CASE ExitHandler
  BY <1>10, <1>11, ExitUntouched
<1>12. ASSUME NEW t \in Threads, SigintHandler(t) PROVE Goal
  BY <1>10, <1>12, ExitSteps
<1>13. CASE UNCHANGED vars
  BY <1>10, <1>13 DEF vars, dataVars, listVars
<1> QED
  BY <1>6, <1>7, <1>8, <1>9, <1>11, <1>12, <1>13 DEF Next

LEMMA InitFifo == Init => Fifo!FifoInit
<1> SUFFICES ASSUME Init PROVE Fifo!FifoInit
  OBVIOUS
<1> USE Distinct
<1>1. /\ first = Nil /\ accepted = {}
      /\ pc = [t \in Threads |-> IF t = Acceptor THEN "accept" ELSE "get_lock"]
  BY DEF Init
<1>2. PICK f, links : f = first /\ links = next
  OBVIOUS
<1>3. IsChain(f, links, <<>>) /\ <<>> \in Seq(Socks)
  <2>1. \A k \in 1..0 - 1 : FALSE
    OBVIOUS
  <2> QED
    BY <1>1, <1>2, <2>1 DEF IsChain
<1>4. ChainFrom(first, next) = <<>>
  BY <1>2, <1>3, ChainIs
<1>5. Linked = {}
  BY <1>1 DEF Linked
<1>6. Held = [w \in Workers |-> Nil]
  BY <1>1 DEF Held, Holding
<1> QED
  BY <1>4, <1>5, <1>6 DEF Fifo!FifoInit

\* queue_put and queue_get, access by access and with any number of workers, are a queue that
\* hands out every connection once and in order, from the start until queue_destroy marks the
\* mutex or resets last: that a SIGINT stopped a thread somewhere in between, or that a
\* mutex in use was not destroyed, changes nothing.  This is why BlockingQueue may take what the mutex covers for one step.
THEOREM AccessesAreFifo == Spec /\ []Untouched => Fifo!FifoSpec
<1>1. IInv /\ Untouched /\ Untouched' /\ [Next]_vars => [Fifo!FifoNext]_Fifo!fifoVars
  BY FifoStep
<1> QED
  BY <1>1, InitFifo, InductiveInvariant, PTL DEF Spec, Fifo!FifoSpec
=============================================================================
