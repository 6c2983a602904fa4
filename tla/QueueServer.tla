----------------------------- MODULE QueueServer -----------------------------
(***************************************************************************)
(* multi_server_thread_blocking_queue.c: the main thread accepts           *)
(* connections and puts them into a queue, a pool of threads takes them    *)
(* out and answers them.  The queue is FifoQueue, which BlockingQueue      *)
(* implements; what happens to a connection is ThreadedAnswer.             *)
(***************************************************************************)
EXTENDS ThreadedAnswer, Sequences

VARIABLE items  \* the connections in the queue, oldest first

vars == <<answerVars, items>>

Queue == INSTANCE FifoQueue WITH Socks <- Conns, put <- accepted

-----------------------------------------------------------------------------
\* main and the first part of server: counters zeroed, semaphore and queue
\* initialised, the pool created.
Init == AnswerInit /\ items = <<>>

\* server: a connection is accepted and put into the queue.  (An accept that
\* fails ends the process: ExitHandler.)
Server(c) ==
  /\ up
  /\ Queue!FifoPut(c)
  /\ UNCHANGED <<up, shmVars, pc, localVars, counted, answered>>

\* do_call: the next connection is taken from the queue.
DoCallGet(w) == Queue!FifoGet(w) /\ Begin(w)

\* Mutant: a worker serves one connection and never comes back for another.
DoCallEndKeeps(w) ==
  /\ up /\ pc[w] = "end" /\ answered' = answered \union {connfd[w]}
  /\ pc' = [pc EXCEPT ![w] = "exited"]
  /\ UNCHANGED <<up, connVars, items, shmVars, localVars, counted>>

\* do_call: the connection is shut down for writing, never closed, and the next
\* one fetched.
DoCallEnd(w) == Queue!FifoAsk(w) /\ Finish(w)

DoCall(w) == \/ DoCallGet(w)
             \/ (Answer(w) /\ UNCHANGED items)
             \/ DoCallEnd(w)

Next == \/ (ExitHandler /\ UNCHANGED items)
        \/ \E c \in Conns : Server(c)
        \/ \E w \in Workers : DoCall(w) \/ (Sigpipe(w) /\ UNCHANGED items)

Spec == Init /\ [][Next]_vars

\* Every thread is scheduled, and every client sends its request line or
\* closes.  Nothing makes clients connect.
FairSpec == Spec /\ \A w \in Workers : WF_vars(DoCall(w))

-----------------------------------------------------------------------------
Queued(c) == \E i \in 1..Len(items) : items[i] = c
Taken(c) == \E w \in Workers : connfd[w] = c

\* The types: the queue holds connections.
TypeOK == AnswerTypeOK /\ items \in Seq(Conns)

\* Where the semaphore does nothing, a connection that is put into the queue is
\* eventually taken by a worker: no worker stops coming back for more.
TakenIfUnguarded == \A c \in Conns : Queued(c) /\ ~ semWorks ~> ~ up \/ Taken(c)

\* The same whether or not the semaphore works.
\* (multi_server_thread_blocking_queue.c:65: "put a message into the queue and
\* wake up workers if necessary".)
QueuedIsTaken == \A c \in Conns : Queued(c) ~> ~ up \/ Taken(c)
=============================================================================
