----------------------------- MODULE QueueShutdown -----------------------------
(***************************************************************************)
(* The end of multi_server_thread_blocking_queue.c (and of the server on   *)
(* several ports, which has copies of these functions).  SIGINT runs       *)
(* sigint_handler in whatever thread receives it, wherever that thread is; *)
(* exit calls exit_handler there, which calls queue_destroy, while all     *)
(* other threads run on.  The interrupted thread never goes on with what   *)
(* it did.  (An accept that fails ends the same way, in the accepting      *)
(* thread.)                                                                *)
(*                                                                         *)
(* queue_destroy takes no lock, and a destroyed mutex need not exclude     *)
(* anybody: queue_put and queue_get are modelled access by access here,    *)
(* where BlockingQueue needs one step for all that the mutex covers.  What *)
(* follows an access to a null or freed message is undefined: fault is set *)
(* and nothing more is said.                                               *)
(***************************************************************************)
EXTENDS Naturals, FiniteSets

CONSTANTS Acceptor,  \* the thread that calls queue_put
          Workers,   \* the threads of the pool
          Socks,     \* the connections; each stands for its message, too
          Modulus,   \* bound: what unsigned int counts up to, 2^32 in the program
          Nil

ASSUME ShutdownAssumption ==
  /\ IsFiniteSet(Workers) /\ IsFiniteSet(Socks) /\ Acceptor \notin Workers
  /\ Nil \notin Workers \union Socks \union {Acceptor}
  /\ Modulus \in Nat /\ Modulus > Cardinality(Socks)

VARIABLES owner, waiting,   \* of the mutex and the condition variable
          first, last, length, next,  \* the list
          accepted, freed,  \* the connections accepted, the messages freed
          pc, mq,           \* each thread: where it is, its local variable mq
          reg,              \* what it has loaded and not yet stored or compared
          up,               \* the process runs
          fault,            \* "none", or access to a "null" or "freed" message
          taker,            \* the thread that received SIGINT
          dpc,              \* where it is in exit_handler
          mutexGone,        \* the mutex is destroyed and lock and wait fail
          condBlocks,       \* whether pthread_cond_destroy waits for the waiting threads:
                            \* since glibc 2.25 it does, elsewhere it returns
          quiet             \* auxiliary: what SIGINT found, see QuietEndsCleanly

listVars == <<first, last, length, next>>
dataVars == <<listVars, accepted, freed>>
exitVars == <<taker, dpc, mutexGone, condBlocks, quiet>>
vars == <<owner, waiting, dataVars, pc, mq, reg, up, fault, exitVars>>

Threads == Workers \union {Acceptor}

\* queue_init, the pool created.
Init == /\ owner = Nil /\ waiting = {}
        /\ first = Nil /\ last = Nil /\ length = 0 /\ next = [s \in Socks |-> Nil]
        /\ accepted = {} /\ freed = {}
        /\ pc = [t \in Threads |-> IF t = Acceptor THEN "accept" ELSE "get_lock"]
        /\ mq = [t \in Threads |-> Nil] /\ reg = [t \in Threads |-> Nil]
        /\ up = TRUE /\ fault = "none"
        /\ taker = Nil /\ dpc = "none" /\ mutexGone = FALSE
        /\ condBlocks \in BOOLEAN /\ quiet = FALSE

\* Thread t is at `from', and goes on to `to' or makes an access that is undefined.
At(t, from) == up /\ fault = "none" /\ t # taker /\ pc[t] = from
Step(t, from, to) == /\ At(t, from)
                     /\ pc' = [pc EXCEPT ![t] = to]
                     /\ UNCHANGED <<up, fault, exitVars>>
Faults(t, from, m) == /\ At(t, from)
                      /\ fault' = IF m = Nil THEN "null" ELSE "freed"
                      /\ UNCHANGED <<owner, waiting, dataVars, pc, mq, reg, up, exitVars>>

\* pthread_mutex_lock and pthread_mutex_unlock; on a destroyed mutex they fail, and
\* nobody looks.
Lock(t, from, to) ==
  /\ Step(t, from, to)
  /\ \/ ~ mutexGone /\ owner = Nil /\ owner' = t
     \/ mutexGone /\ UNCHANGED owner
  /\ UNCHANGED <<waiting, dataVars, mq, reg>>

Unlock(t, from, to) ==
  /\ Step(t, from, to)
  /\ owner' = IF owner = t THEN Nil ELSE owner
  /\ UNCHANGED <<waiting, dataVars, mq, reg>>

\* A load that other threads may come in after.
Load(t, from, to, value) == /\ Step(t, from, to)
                            /\ reg' = [reg EXCEPT ![t] = value]
                            /\ UNCHANGED <<owner, waiting, dataVars, mq>>

-----------------------------------------------------------------------------
\* queue_put, called with each connection that accept returns.
PutAlloc(s) ==
  /\ Step(Acceptor, "accept", "put_lock") /\ s \notin accepted
  /\ accepted' = accepted \union {s}
  /\ mq' = [mq EXCEPT ![Acceptor] = s]
  /\ UNCHANGED <<owner, waiting, listVars, freed, reg>>

PutCheck ==
  /\ Step(Acceptor, "put_check", IF first = Nil THEN "put_first" ELSE "put_next")
  /\ UNCHANGED <<owner, waiting, dataVars, mq, reg>>

PutFirst ==
  /\ Step(Acceptor, "put_first", "put_last")
  /\ first' = mq[Acceptor]
  /\ UNCHANGED <<owner, waiting, last, length, next, accepted, freed, mq, reg>>

PutNext ==
  \/ last \in freed \union {Nil} /\ Faults(Acceptor, "put_next", last)
  \/ /\ last \notin freed \union {Nil} /\ Step(Acceptor, "put_next", "put_last")
     /\ next' = [next EXCEPT ![last] = mq[Acceptor]]
     /\ UNCHANGED <<owner, waiting, first, last, length, accepted, freed, mq, reg>>

PutLast ==
  /\ Step(Acceptor, "put_last", "put_length")
  /\ last' = mq[Acceptor]
  /\ UNCHANGED <<owner, waiting, first, length, next, accepted, freed, mq, reg>>

PutLength ==
  \/ Load(Acceptor, "put_length", "put_store", length)
  \/ /\ Step(Acceptor, "put_store", "put_unlock")
     /\ length' = (reg[Acceptor] + 1) % Modulus
     /\ reg' = [reg EXCEPT ![Acceptor] = Nil]
     /\ UNCHANGED <<owner, waiting, first, last, next, accepted, freed, mq>>

\* pthread_cond_signal wakes a waiting thread, if there is one; that may be the one
\* in exit_handler, which then counts as waiting still.
PutSignal ==
  /\ At(Acceptor, "put_signal")
  /\ \E woken \in SUBSET waiting :
       /\ waiting # {} => woken # {}
       /\ waiting' = waiting \ (woken \ {taker})
       /\ pc' = [t \in Threads |-> IF t \in woken \ {taker} THEN "get_wake"
                                   ELSE IF t = Acceptor THEN "accept" ELSE pc[t]]
  /\ mq' = [mq EXCEPT ![Acceptor] = Nil]
  /\ UNCHANGED <<owner, dataVars, reg, up, fault, exitVars>>

QueuePut == \/ Lock(Acceptor, "put_lock", "put_check")
            \/ PutCheck \/ PutFirst \/ PutNext \/ PutLast \/ PutLength
            \/ Unlock(Acceptor, "put_unlock", "put_signal")
            \/ PutSignal

-----------------------------------------------------------------------------
\* queue_get.  Where the mutex is gone, pthread_cond_wait fails, and the loop looks at
\* length again and again: no step of its own.
GetWait(w) ==
  /\ Step(w, "get_check", "waiting") /\ length = 0 /\ ~ mutexGone
  /\ owner' = Nil /\ waiting' = waiting \union {w}
  /\ UNCHANGED <<dataVars, mq, reg>>

\* A waiting thread may wake up without a signal.
SpuriousWakeup(w) ==
  /\ Step(w, "waiting", "get_wake")
  /\ waiting' = waiting \ {w}
  /\ UNCHANGED <<owner, dataVars, mq, reg>>

\* Mutant: `if' in place of `while': a woken thread does not look at length again.
GetWakeNoRecheck(w) == Lock(w, "get_wake", "get_length")

\* pthread_cond_wait takes the mutex before it returns.
GetWake(w) == Lock(w, "get_wake", "get_check")

GetCheck(w) ==
  /\ Step(w, "get_check", "get_length") /\ length # 0
  /\ UNCHANGED <<owner, waiting, dataVars, mq, reg>>

GetLength(w) ==
  \/ Load(w, "get_length", "get_store", length)
  \/ /\ Step(w, "get_store", "get_mq")
     /\ length' = (reg[w] + Modulus - 1) % Modulus
     /\ reg' = [reg EXCEPT ![w] = Nil]
     /\ UNCHANGED <<owner, waiting, first, last, next, accepted, freed, mq>>

\* Mutant: the mutex is given up before the message is unlinked.
GetMqUnlocks(w) ==
  /\ Step(w, "get_mq", "get_compare")
  /\ mq' = [mq EXCEPT ![w] = first]
  /\ owner' = IF owner = w THEN Nil ELSE owner
  /\ UNCHANGED <<waiting, dataVars, reg>>

GetMq(w) ==
  /\ Step(w, "get_mq", "get_compare")
  /\ mq' = [mq EXCEPT ![w] = first]
  /\ UNCHANGED <<owner, waiting, dataVars, reg>>

GetCompare(w) ==
  \/ Load(w, "get_compare", "get_last_one", first)
  \/ /\ Step(w, "get_last_one", IF reg[w] = last THEN "get_deref" ELSE "get_next")
     /\ reg' = [reg EXCEPT ![w] = Nil]
     /\ UNCHANGED <<owner, waiting, dataVars, mq>>

GetDeref(w) ==
  \/ first \in freed \union {Nil} /\ Faults(w, "get_deref", first)
  \/ /\ first \notin freed \union {Nil}
     /\ Step(w, "get_deref", IF next[first] = Nil THEN "get_last" ELSE "get_next")
     /\ UNCHANGED <<owner, waiting, dataVars, mq, reg>>

GetLast(w) ==
  /\ Step(w, "get_last", "get_first")
  /\ last' = Nil
  /\ UNCHANGED <<owner, waiting, first, length, next, accepted, freed, mq, reg>>

GetFirst(w) ==
  /\ Step(w, "get_first", "get_unlock")
  /\ first' = Nil
  /\ UNCHANGED <<owner, waiting, last, length, next, accepted, freed, mq, reg>>

GetNext(w) ==
  \/ first \in freed \union {Nil} /\ Faults(w, "get_next", first)
  \/ first \notin freed \union {Nil} /\ Load(w, "get_next", "get_link", next[first])
  \/ /\ Step(w, "get_link", "get_unlock")
     /\ first' = reg[w]
     /\ reg' = [reg EXCEPT ![w] = Nil]
     /\ UNCHANGED <<owner, waiting, last, length, next, accepted, freed, mq>>

\* socket = mq->sock and free(mq).
GetFree(w) ==
  \/ mq[w] \in freed \union {Nil} /\ Faults(w, "get_free", mq[w])
  \/ /\ mq[w] \notin freed \union {Nil} /\ Step(w, "get_free", "serve")
     /\ freed' = freed \union {mq[w]}
     /\ mq' = [mq EXCEPT ![w] = Nil]
     /\ UNCHANGED <<owner, waiting, listVars, accepted, reg>>

\* do_call serves the connection and comes back.
DoCall(w) == /\ Step(w, "serve", "get_lock")
             /\ UNCHANGED <<owner, waiting, dataVars, mq, reg>>

QueueGet(w) == \/ Lock(w, "get_lock", "get_check")
               \/ GetWait(w) \/ GetWake(w) \/ GetCheck(w) \/ GetLength(w) \/ GetMq(w)
               \/ GetCompare(w) \/ GetDeref(w) \/ GetLast(w) \/ GetFirst(w) \/ GetNext(w)
               \/ Unlock(w, "get_unlock", "get_free")
               \/ GetFree(w) \/ DoCall(w)

-----------------------------------------------------------------------------
\* SIGINT reaches thread t: sigint_handler calls exit, exit calls exit_handler.
SigintHandler(t) ==
  /\ up /\ fault = "none" /\ taker = Nil
  /\ taker' = t /\ dpc' = "mutex"
  /\ quiet' = (t = Acceptor /\ pc[t] = "accept" /\ length = 0 /\ owner = Nil)
  /\ UNCHANGED <<owner, waiting, dataVars, pc, mq, reg, up, fault, mutexGone, condBlocks>>

Destroy(from, to) == /\ up /\ fault = "none" /\ dpc = from /\ dpc' = to
                     /\ UNCHANGED <<owner, waiting, next, accepted, freed, pc, mq, reg, fault,
                                    taker, condBlocks, quiet>>

\* Mutant: queue_destroy takes the mutex first.
DestroyMutexLocks ==
  /\ Destroy("mutex", "cond") /\ owner = Nil
  /\ mutexGone' \in BOOLEAN /\ UNCHANGED <<first, last, length, up>>

\* pthread_mutex_destroy: refused while the mutex is locked, which nobody looks at.
\* Else the mutex is marked (glibc, macOS), or nothing happens (musl).
DestroyMutex ==
  /\ Destroy("mutex", "cond")
  /\ mutexGone' \in {FALSE, owner = Nil}
  /\ UNCHANGED <<first, last, length, up>>

DestroyCond == /\ Destroy("cond", "last")
               /\ condBlocks => waiting = {}
               /\ UNCHANGED <<first, last, length, up, mutexGone>>

\* q->first = q->last = 0; q->length = 0;
DestroyLast == /\ Destroy("last", "first")
               /\ last' = Nil
               /\ UNCHANGED <<first, length, up, mutexGone>>

DestroyFirst == /\ Destroy("first", "length")
                /\ first' = Nil
                /\ UNCHANGED <<last, length, up, mutexGone>>

DestroyLength == /\ Destroy("length", "exit")
                 /\ length' = 0
                 /\ UNCHANGED <<first, last, up, mutexGone>>

QueueDestroy == DestroyMutex \/ DestroyCond \/ DestroyLast \/ DestroyFirst \/ DestroyLength

\* The process ends with all its threads.
ExitHandler == \/ QueueDestroy
               \/ /\ Destroy("exit", "done") /\ up' = FALSE
                  /\ UNCHANGED <<first, last, length, mutexGone>>

Next == \/ QueuePut \/ ExitHandler
        \/ \E s \in Socks : PutAlloc(s)
        \/ \E w \in Workers : QueueGet(w) \/ SpuriousWakeup(w)
        \/ \E t \in Threads : SigintHandler(t)

Spec == Init /\ [][Next]_vars

\* Threads are scheduled; nobody has to connect or to send SIGINT.
FairSpec == Spec /\ WF_vars(QueuePut) /\ WF_vars(ExitHandler)
                 /\ \A w \in Workers : WF_vars(QueueGet(w))

-----------------------------------------------------------------------------
\* The type of every variable.
TypeOK ==
  /\ owner \in Threads \union {Nil} /\ waiting \in SUBSET Workers
  /\ first \in Socks \union {Nil} /\ last \in Socks \union {Nil}
  /\ length \in 0..Modulus - 1 /\ next \in [Socks -> Socks \union {Nil}]
  /\ accepted \in SUBSET Socks /\ freed \in SUBSET accepted
  /\ mq \in [Threads -> Socks \union {Nil}]
  /\ reg \in [Threads -> Socks \union {Nil} \union (0..Modulus - 1)]
  /\ up \in BOOLEAN /\ fault \in {"none", "null", "freed"}
  /\ taker \in Threads \union {Nil}
  /\ dpc \in {"none", "mutex", "cond", "last", "first", "length", "exit", "done"}
  /\ mutexGone \in BOOLEAN /\ condBlocks \in BOOLEAN /\ quiet \in BOOLEAN

\* SIGINT ends the process, wherever it finds the threads, one that holds the mutex
\* included, unless pthread_cond_destroy waits for a thread of the pool.
SigintEnds ==
  taker # Nil ~> ~ up \/ fault # "none" \/ (dpc = "cond" /\ condBlocks /\ waiting # {})

\* If SIGINT finds the accepting thread in accept and the queue empty and unlocked, no
\* thread touches a message that is not there while the queue is destroyed.
QuietEndsCleanly == quiet => fault = "none"

\* Until queue_destroy has begun, nothing is wrong.  A message is used after it was
\* freed only where the mutex is destroyed and marked; where it was refused because
\* somebody held it, two threads never get the same message, and a null pointer
\* is followed only once the fields are being reset.
FaultsExplained ==
  /\ fault = "freed" => mutexGone
  /\ fault = "null" => mutexGone \/ dpc \in {"first", "length", "exit"}
=============================================================================
