--------------------------- MODULE BlockingQueue ---------------------------
(***************************************************************************)
(* struct queue of multi_server_thread_blocking_queue.c: a linked list of  *)
(* messages, a mutex and a condition variable.  The thread that accepts    *)
(* connections calls queue_put, the threads of the pool call queue_get.    *)
(*                                                                         *)
(* One action per step that another thread can observe: everything done    *)
(* between pthread_mutex_lock and pthread_mutex_unlock touches fields that *)
(* only the owner of the mutex touches and is one step; the unlock, the    *)
(* signal after it, and the free after the unlock are steps of their own.  *)
(* queue_destroy is the subject of QueueShutdown.                          *)
(***************************************************************************)
EXTENDS Naturals, Sequences, FiniteSets

CONSTANTS Putters,  \* the threads that call queue_put (one in the program)
          Workers,  \* the threads of the pool, which call queue_get
          Msgs,     \* the addresses calloc can return for a struct message
          Socks,    \* the descriptors accept() can return
          Nil       \* the null pointer, no thread, no socket

ASSUME QueueAssumption ==
  /\ IsFiniteSet(Workers) /\ IsFiniteSet(Putters) /\ IsFiniteSet(Msgs)
  /\ Putters \intersect Workers = {}
  /\ Nil \notin Putters \union Workers \union Msgs \union Socks

VARIABLES owner,    \* the thread that holds q->mutex, or Nil
          waiting,  \* the threads blocked on q->cond
          first, last, length,  \* the fields of struct queue
          sock, next,  \* the fields of the struct message at each address
          alloc,    \* the addresses that calloc returned and free did not get
          pc,       \* where each thread is
          mq,       \* the local variable mq of queue_put and of queue_get
          connfd,   \* what queue_get last returned to each worker
          put,      \* the descriptors accepted so far; none is ever closed
          nodes     \* auxiliary: the messages of the list, in order of arrival

vars == <<owner, waiting, first, last, length, sock, next, alloc, pc, mq,
          connfd, put, nodes>>
fields == <<first, last, length, sock, next, alloc, nodes>>

Threads == Putters \union Workers

PutPC == {"accept", "put_lock", "put_link", "put_unlock", "put_signal"}
GetPC == {"get_lock", "get_check", "waiting", "get_unlock", "get_free", "serve"}

-----------------------------------------------------------------------------
\* queue_init, and the pool created by server(): every worker starts by
\* calling queue_get, no message has been allocated.
Init == /\ owner = Nil /\ waiting = {}
        /\ first = Nil /\ last = Nil /\ length = 0
        /\ sock = [m \in Msgs |-> Nil] /\ next = [m \in Msgs |-> Nil]
        /\ alloc = {}
        /\ pc = [t \in Threads |-> IF t \in Putters THEN "accept" ELSE "get_lock"]
        /\ mq = [t \in Threads |-> Nil]
        /\ connfd = [w \in Workers |-> Nil]
        /\ put = {}
        /\ nodes = <<>>

\* queue_put, before the lock: the message is allocated and filled in.  calloc
\* may return any address that is not in use, a freed one too.
PutAlloc(p, s) ==
  /\ pc[p] = "accept" /\ s \notin put
  /\ put' = put \union {s}
  /\ \E m \in Msgs \ alloc :
       /\ alloc' = alloc \union {m}
       /\ sock' = [sock EXCEPT ![m] = s]
       /\ next' = [next EXCEPT ![m] = Nil]
       /\ mq' = [mq EXCEPT ![p] = m]
  /\ pc' = [pc EXCEPT ![p] = "put_lock"]
  /\ UNCHANGED <<owner, waiting, first, last, length, connfd, nodes>>

\* pthread_mutex_lock, in queue_put and in queue_get; pthread_cond_wait takes
\* the mutex in the same way before it returns.
Lock(t, from, to) ==
  /\ pc[t] = from /\ owner = Nil
  /\ owner' = t
  /\ pc' = [pc EXCEPT ![t] = to]
  /\ UNCHANGED <<waiting, mq, connfd, put, fields>>

Unlock(t, from, to) ==
  /\ pc[t] = from
  /\ owner' = Nil
  /\ pc' = [pc EXCEPT ![t] = to]
  /\ UNCHANGED <<waiting, mq, connfd, put, fields>>

\* Mutant: the message goes to the front of the list.
PutLinkFront(p) ==
  /\ pc[p] = "put_link"
  /\ next' = [next EXCEPT ![mq[p]] = first]
  /\ first' = mq[p]
  /\ last' = IF first = Nil THEN mq[p] ELSE last
  /\ length' = length + 1
  /\ nodes' = <<mq[p]>> \o nodes
  /\ pc' = [pc EXCEPT ![p] = "put_unlock"]
  /\ UNCHANGED <<owner, waiting, sock, alloc, mq, connfd, put>>

\* queue_put, under the mutex: the message goes to the end of the list.
PutLink(p) ==
  /\ pc[p] = "put_link"
  /\ IF first = Nil
       THEN first' = mq[p] /\ UNCHANGED next
       ELSE next' = [next EXCEPT ![last] = mq[p]] /\ UNCHANGED first
  /\ last' = mq[p]
  /\ length' = length + 1
  /\ nodes' = Append(nodes, mq[p])
  /\ pc' = [pc EXCEPT ![p] = "put_unlock"]
  /\ UNCHANGED <<owner, waiting, sock, alloc, mq, connfd, put>>

\* Mutant: a worker is woken only if the list was empty before.
PutSignalIfWasEmpty(p) ==
  /\ pc[p] = "put_signal"
  /\ \E woken \in SUBSET waiting :
       /\ (waiting # {} /\ length = 1) <=> woken # {}
       /\ waiting' = waiting \ woken
       /\ pc' = [t \in Threads |-> IF t \in woken THEN "get_lock"
                                   ELSE IF t = p THEN "accept" ELSE pc[t]]
  /\ mq' = [mq EXCEPT ![p] = Nil]
  /\ UNCHANGED <<owner, connfd, put, fields>>

\* Mutant: queue_put does not signal.
PutNoSignal(p) ==
  /\ pc[p] = "put_signal"
  /\ pc' = [pc EXCEPT ![p] = "accept"]
  /\ mq' = [mq EXCEPT ![p] = Nil]
  /\ UNCHANGED <<owner, waiting, connfd, put, fields>>

\* pthread_cond_signal, after the unlock: wakes at least one of the threads
\* blocked on the condition variable, if there is any.
PutSignal(p) ==
  /\ pc[p] = "put_signal"
  /\ \E woken \in SUBSET waiting :
       /\ waiting # {} => woken # {}
       /\ waiting' = waiting \ woken
       /\ pc' = [t \in Threads |-> IF t \in woken THEN "get_lock"
                                   ELSE IF t = p THEN "accept" ELSE pc[t]]
  /\ mq' = [mq EXCEPT ![p] = Nil]
  /\ UNCHANGED <<owner, connfd, put, fields>>

\* queue_get finds nothing: pthread_cond_wait gives up the mutex and blocks,
\* in one step.
GetWait(w) ==
  /\ pc[w] = "get_check" /\ length = 0
  /\ owner' = Nil
  /\ waiting' = waiting \union {w}
  /\ pc' = [pc EXCEPT ![w] = "waiting"]
  /\ UNCHANGED <<mq, connfd, put, fields>>

\* pthread_cond_wait may return without a signal.
SpuriousWakeup(w) ==
  /\ w \in waiting
  /\ waiting' = waiting \ {w}
  /\ pc' = [pc EXCEPT ![w] = "get_lock"]
  /\ UNCHANGED <<owner, mq, connfd, put, fields>>

\* Mutant: `if' in place of `while': the length is not looked at again.
GetTakeNoRecheck(w) ==
  /\ pc[w] = "get_check"
  /\ length' = length - 1
  /\ mq' = [mq EXCEPT ![w] = first]
  /\ IF first = last /\ (first = Nil \/ next[first] = Nil)
       THEN first' = Nil /\ last' = Nil
       ELSE first' = next[first] /\ UNCHANGED last
  /\ nodes' = IF nodes = <<>> THEN nodes ELSE Tail(nodes)
  /\ pc' = [pc EXCEPT ![w] = "get_unlock"]
  /\ UNCHANGED <<owner, waiting, sock, next, alloc, connfd, put>>

\* Mutant: last keeps pointing to the message that leaves an empty list.
GetTakeKeepsLast(w) ==
  /\ pc[w] = "get_check" /\ length # 0
  /\ length' = length - 1
  /\ mq' = [mq EXCEPT ![w] = first]
  /\ first' = next[first]
  /\ nodes' = Tail(nodes)
  /\ pc' = [pc EXCEPT ![w] = "get_unlock"]
  /\ UNCHANGED <<owner, waiting, last, sock, next, alloc, connfd, put>>

\* queue_get, under the mutex: the first message leaves the list.
GetTake(w) ==
  /\ pc[w] = "get_check" /\ length # 0
  /\ length' = length - 1
  /\ mq' = [mq EXCEPT ![w] = first]
  /\ IF first = last /\ next[first] = Nil
       THEN first' = Nil /\ last' = Nil
       ELSE first' = next[first] /\ UNCHANGED last
  /\ nodes' = Tail(nodes)
  /\ pc' = [pc EXCEPT ![w] = "get_unlock"]
  /\ UNCHANGED <<owner, waiting, sock, next, alloc, connfd, put>>

\* Mutant: queue_get returns without freeing the message.
GetNoFree(w) ==
  /\ pc[w] = "get_free"
  /\ connfd' = [connfd EXCEPT ![w] = sock[mq[w]]]
  /\ mq' = [mq EXCEPT ![w] = Nil]
  /\ pc' = [pc EXCEPT ![w] = "serve"]
  /\ UNCHANGED <<owner, waiting, first, last, length, sock, next, alloc, put, nodes>>

\* queue_get, after the unlock: the socket is read, the message freed (what a
\* freed message holds is of no use to anyone: Nil), the socket returned.
GetFree(w) ==
  /\ pc[w] = "get_free"
  /\ connfd' = [connfd EXCEPT ![w] = sock[mq[w]]]
  /\ alloc' = alloc \ {mq[w]}
  /\ sock' = [sock EXCEPT ![mq[w]] = Nil]
  /\ next' = [next EXCEPT ![mq[w]] = Nil]
  /\ mq' = [mq EXCEPT ![w] = Nil]
  /\ pc' = [pc EXCEPT ![w] = "serve"]
  /\ UNCHANGED <<owner, waiting, first, last, length, put, nodes>>

\* do_call has served the connection, shuts it down and calls queue_get again.
GetCall(w) ==
  /\ pc[w] = "serve"
  /\ connfd' = [connfd EXCEPT ![w] = Nil]
  /\ pc' = [pc EXCEPT ![w] = "get_lock"]
  /\ UNCHANGED <<owner, waiting, mq, put, fields>>

\* queue_put and queue_get, as the steps of one thread.
QueuePut(p) == \/ Lock(p, "put_lock", "put_link")
               \/ PutLink(p)
               \/ Unlock(p, "put_unlock", "put_signal")
               \/ PutSignal(p)

QueueGet(w) == \/ Lock(w, "get_lock", "get_check")
               \/ GetWait(w)
               \/ GetTake(w)
               \/ Unlock(w, "get_unlock", "get_free")
               \/ GetFree(w)

Next == \/ \E p \in Putters : QueuePut(p) \/ \E s \in Socks : PutAlloc(p, s)
        \/ \E w \in Workers : QueueGet(w) \/ GetCall(w) \/ SpuriousWakeup(w)

Spec == Init /\ [][Next]_vars

\* A thread that can step inside queue_put or queue_get, or that has a
\* connection to serve, is eventually scheduled.  Nothing makes connections
\* arrive or wakeups happen without a signal.
Fairness == /\ \A p \in Putters : WF_vars(QueuePut(p))
            /\ \A w \in Workers : WF_vars(QueueGet(w)) /\ WF_vars(GetCall(w))

FairSpec == Spec /\ Fairness

-----------------------------------------------------------------------------
\* The type of every variable.
TypeOK ==
  /\ owner \in Threads \union {Nil}
  /\ waiting \in SUBSET Workers
  /\ first \in Msgs \union {Nil} /\ last \in Msgs \union {Nil}
  /\ length \in Nat
  /\ sock \in [Msgs -> Socks \union {Nil}]
  /\ next \in [Msgs -> Msgs \union {Nil}]
  /\ alloc \in SUBSET Msgs
  /\ pc \in [Threads -> PutPC \union GetPC]
  /\ \A p \in Putters : pc[p] \in PutPC
  /\ \A w \in Workers : pc[w] \in GetPC
  /\ mq \in [Threads -> Msgs \union {Nil}]
  /\ connfd \in [Workers -> Socks \union {Nil}]
  /\ put \in SUBSET Socks
  /\ nodes \in Seq(Msgs)

\* Where a thread holds the mutex.
Critical == {"put_link", "put_unlock", "get_check", "get_unlock"}

\* At most one thread is between pthread_mutex_lock and the matching unlock
\* (or pthread_cond_wait), and a thread is blocked on the condition variable
\* exactly if it has not been woken.
MutualExclusion ==
  /\ \A t \in Threads : pc[t] \in Critical <=> owner = t
  /\ \A t \in Threads : pc[t] = "waiting" <=> t \in waiting

\* The list: first, the next fields and last lead through exactly the messages
\* that were put and not taken, in order of arrival; length counts them.
\* Both branches of the if in queue_put and in queue_get must agree on what
\* an empty and what a one-element list is for this to hold.
ListShape ==
  /\ length = Len(nodes)
  /\ nodes = <<>> => first = Nil /\ last = Nil
  /\ nodes # <<>> => /\ first = Head(nodes) /\ last = nodes[Len(nodes)]
                    /\ next[last] = Nil
  /\ \A i \in 1..Len(nodes) - 1 : next[nodes[i]] = nodes[i + 1]

\* The messages a thread has in hand: allocated and not yet linked by
\* queue_put, or unlinked and not yet freed by queue_get.
InHand(t) == pc[t] \in {"put_lock", "put_link", "get_unlock", "get_free"}

\* Every allocated message has exactly one place, the list or one thread's
\* hand, so none is leaked, freed twice, or used after it was freed, although
\* freed addresses are allocated again and the free follows the unlock.
MessagesAccounted ==
  /\ alloc = {nodes[i] : i \in 1..Len(nodes)} \union {mq[t] : t \in {u \in Threads : InHand(u)}}
  /\ \A i, j \in 1..Len(nodes) : nodes[i] = nodes[j] => i = j
  /\ \A t \in Threads : InHand(t) => \A i \in 1..Len(nodes) : nodes[i] # mq[t]
  /\ \A t, u \in Threads : InHand(t) /\ InHand(u) /\ mq[t] = mq[u] => t = u

\* A message in hand is a real one; one that queue_put has not linked yet ends
\* the list it will be appended to, and carries a socket no other one carries.
HandInv ==
  /\ \A t \in Threads : InHand(t) => mq[t] \in Msgs
  /\ \A p \in Putters : pc[p] \in {"put_lock", "put_link"} => next[mq[p]] = Nil
  /\ \A m \in alloc : sock[m] \in put
  /\ \A m, n \in alloc : sock[m] = sock[n] => m = n

\* A worker holds a socket only while it serves a connection.
ConnfdInv == \A w \in Workers : pc[w] # "serve" => connfd[w] = Nil

\* Workers on their way to the list, and signals on their way to the workers.
Awake == {w \in Workers : pc[w] \in {"get_lock", "get_check"}}
Signalling == {p \in Putters : pc[p] \in {"put_unlock", "put_signal"}}

\* No wakeup is lost: while a worker sleeps, every message in the list has a
\* worker that is already coming for it or a queue_put that has yet to signal,
\* although the signal is sent after the mutex is released.
NoLostWakeup ==
  waiting # {} => length <= Cardinality(Awake) + Cardinality(Signalling)

\* Seen from outside, queue_put and queue_get are the two operations of
\* FifoQueue: a put takes effect when the message is linked, a get when it is
\* unlinked.  The mapping reads the sockets out of the messages themselves.
Fifo == INSTANCE FifoQueue WITH
  items <- [i \in 1..Len(nodes) |-> sock[nodes[i]]],
  put <- put \ {sock[mq[p]] : p \in {q \in Putters : pc[q] \in {"put_lock", "put_link"}}},
  connfd <- [w \in Workers |-> IF pc[w] \in {"get_unlock", "get_free"}
                                THEN sock[mq[w]] ELSE connfd[w]]

ImplementsFifo == Fifo!FifoSpec

\* Every socket that was put is handed to a worker, provided the workers come
\* back for more (the condition QueueServer shows the program to break).
Delivered ==
  \A s \in Socks : (\E i \in 1..Len(nodes) : sock[nodes[i]] = s)
                       ~> (\E w \in Workers : connfd[w] = s)
=============================================================================
