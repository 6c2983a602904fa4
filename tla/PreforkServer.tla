---------------------------- MODULE PreforkServer ----------------------------
(***************************************************************************)
(* multi_server_pre_forked_pool_of_processes.c: main forks a fixed number  *)
(* of processes; each has a listening socket of its own on the same port   *)
(* (SO_REUSEPORT), among which the kernel distributes the clients, and     *)
(* answers one connection after the other.  A process that dies is reaped  *)
(* and not replaced, and the clients in its backlog are lost.              *)
(*                                                                         *)
(* The statistics are in a segment that main has zeroed, under a named     *)
(* semaphore that the first process to open it creates (main unlinks the   *)
(* name first).  Unlike the threaded servers, write_code posts it.  One    *)
(* more process prints them on SIGUSR1.  Restarts, where processes of two  *)
(* runs share the segment, are as in ForkServer and left out here.         *)
(***************************************************************************)
EXTENDS Integers, Sequences, FiniteSets

CONSTANTS Workers,    \* the processes of the pool
          Conns, Nil,
          Silent,     \* the clients that connect and need not send anything
          Hanging,    \* the connections whose script /bash need not come back from,
                      \* as in ForkServer
          MaxSignals  \* bound: how many SIGUSR1 main receives

ASSUME PreforkAssumption == /\ IsFiniteSet(Workers) /\ IsFiniteSet(Conns)
                            /\ Nil \notin Conns \union Workers
                            /\ Silent \subseteq Conns /\ Hanging \subseteq Conns
                            /\ MaxSignals \in Nat

VARIABLES up, accepted, connfd, semWorks, sem, requests, codes, pc, reg, class, after,
          total, counted, answered,  \* as in ThreadedAnswer, where up and
                         \* semWorks are TRUE; "idle" is a worker in accept
          mpc,           \* main: forking, in its waitpid loop, or gone
          segment,       \* whether the segment exists (attached processes keep it)
          created,       \* whether the semaphore exists
          attached,      \* whether share_address of each worker is valid
          backlog,       \* the clients each listening socket has for accept
          hpc, hattached, hvalue,  \* the SIGUSR1 process: where it is, whether its
                         \* share_address is valid, its local value
          user1, printed,  \* the value of user1_sem, the number of reports
          classed        \* auxiliary: the connections counted in their class, too

poolVars == <<mpc, segment, created, attached, backlog, hpc, hattached, hvalue, user1,
              printed, classed>>
threadVars == <<up, accepted, connfd, semWorks, sem, requests, codes, pc, reg, class,
                after, total, counted, answered>>
vars == <<threadVars, poolVars>>

Copy == INSTANCE ThreadedAnswer  \* the functions that are the same in all servers

Class == Copy!Class
Listening(w) == pc[w] \notin {"none", "start", "dead", "crashed"}
Alive(w) == pc[w] \notin {"none", "dead", "crashed"}
\* Between sem_wait and sem_post, in write_code or /statistics.
Critical == {"load_requests", "store_requests", "load_code", "store_code", "post",
             "stat_read"}
HCritical == {"read_value", "hpost"}

-----------------------------------------------------------------------------
\* main: the segment is created and zeroed, the semaphore's name unlinked.
Init == /\ up = TRUE /\ accepted = {} /\ connfd = [w \in Workers |-> Nil]
        /\ semWorks = TRUE /\ sem = 0 /\ requests = 0 /\ codes = [k \in Class |-> 0]
        /\ pc = [w \in Workers |-> "none"]
        /\ reg = [w \in Workers |-> 0] /\ class = [w \in Workers |-> 0]
        /\ after = [w \in Workers |-> "end"] /\ total = [w \in Workers |-> -1]
        /\ counted = {} /\ answered = {}
        /\ mpc = "fork" /\ segment = TRUE /\ created = FALSE
        /\ attached = [w \in Workers |-> FALSE]
        /\ backlog = [w \in Workers |-> <<>>]
        /\ hpc = "none" /\ hattached = FALSE /\ hvalue = 0 /\ user1 = 0 /\ printed = 0 /\ classed = {}

\* main: the next process is forked.
Fork(w) ==
  /\ mpc = "fork" /\ pc[w] = "none"
  /\ pc' = [pc EXCEPT ![w] = "start"]
  /\ UNCHANGED <<up, accepted, connfd, semWorks, sem, requests, codes, reg, class, after,
                 total, counted, answered, poolVars>>

\* main: user1_sem is created, SIGINT and SIGUSR1 are handled from here on, and
\* the SIGUSR1 process is forked.
ForkHandler ==
  /\ mpc = "fork" /\ \A w \in Workers : pc[w] # "none"
  /\ mpc' = "wait" /\ hpc' = "open"
  /\ UNCHANGED <<threadVars, segment, created, attached, backlog, hattached,
                 hvalue, user1, printed, classed>>

\* main ends alone: a fork fails, or SIGINT reaches no other process; exit_handler
\* removes the segment if it is set already.
MainEnds ==
  /\ mpc # "gone"
  /\ mpc' = "gone"
  /\ segment' = (segment /\ mpc = "fork")
  /\ UNCHANGED <<threadVars, created, attached, backlog, hpc, hattached, hvalue,
                 user1, printed, classed>>

\* What is left of a worker that dies: nothing but the semaphore it may hold.
\* Its clients lose their connections.
Exits(S) ==
  /\ pc' = [w \in Workers |-> IF w \notin S THEN pc[w]
                            ELSE IF pc[w] \in Critical THEN "crashed" ELSE "dead"]
  /\ connfd' = [w \in Workers |-> IF w \in S THEN Nil ELSE connfd[w]]
  /\ backlog' = [w \in Workers |-> IF w \in S THEN <<>> ELSE backlog[w]]
  /\ reg' = [w \in Workers |-> IF w \in S THEN 0 ELSE reg[w]]
  /\ class' = [w \in Workers |-> IF w \in S THEN 0 ELSE class[w]]
  /\ after' = [w \in Workers |-> IF w \in S THEN "end" ELSE after[w]]
  /\ total' = [w \in Workers |-> IF w \in S THEN -1 ELSE total[w]]
  /\ attached' = [w \in Workers |-> attached[w] /\ w \notin S]
  /\ UNCHANGED <<up, accepted, semWorks, sem, requests, codes, counted, answered,
                 created, user1, printed, classed>>

HandlerExited == IF hpc \in HCritical THEN "hcrashed" ELSE "hdead"

\* Ctrl-C: SIGINT reaches the whole group; the workers, forked before main set
\* its handler, die of it, the others exit in exit_handler.
CtrlC == /\ mpc = "wait"
         /\ mpc' = "gone" /\ segment' = FALSE
         /\ hpc' = IF hpc = "hcrashed" THEN hpc ELSE HandlerExited
         /\ hattached' = FALSE /\ hvalue' = 0
         /\ Exits({w \in Workers : Alive(w)})

\* server, first part: a worker opens its socket.
Listen(w) ==
  /\ pc[w] = "start"
  /\ pc' = [pc EXCEPT ![w] = "open"]
  /\ UNCHANGED <<up, accepted, connfd, semWorks, sem, requests, codes, reg, class, after,
                 total, counted, answered, poolVars>>

\* sem_open(..., O_CREAT, ..., 1).
SemOpen == /\ created' = TRUE
           /\ sem' = IF created THEN sem ELSE 1

\* server, second part: sem_open and shmat.  A shmat that fails (it may, once
\* the segment is removed) returns (void *)-1, which nobody notices.
Open(w) ==
  /\ pc[w] = "open"
  /\ SemOpen
  /\ \E valid \in BOOLEAN : /\ segment => valid
                           /\ attached' = [attached EXCEPT ![w] = valid]
  /\ pc' = [pc EXCEPT ![w] = "idle"]
  /\ UNCHANGED <<up, accepted, connfd, semWorks, requests, codes, reg, class, after,
                 total, counted, answered, mpc, segment, backlog, hpc,
                 hattached, hvalue, user1, printed, classed>>

\* The kernel gives a client to one of the listening sockets.
Connect(w, c) ==
  /\ Listening(w)
  /\ c \notin accepted /\ \A v \in Workers : \A n \in 1..Len(backlog[v]) : backlog[v][n] # c
  /\ backlog' = [backlog EXCEPT ![w] = Append(@, c)]
  /\ UNCHANGED <<threadVars, mpc, segment, created, attached, hpc, hattached,
                 hvalue, user1, printed, classed>>

\* server: accept returns the oldest client of the worker's own socket.
Accept(w) ==
  /\ Copy!Begin(w) /\ backlog[w] # <<>>
  /\ connfd' = [connfd EXCEPT ![w] = Head(backlog[w])]
  /\ accepted' = accepted \union {Head(backlog[w])}
  /\ backlog' = [backlog EXCEPT ![w] = Tail(@)]
  /\ UNCHANGED <<mpc, segment, created, attached, hpc, hattached, hvalue, user1,
                 printed, classed>>

\* A worker dies wherever it is: SIGPIPE, a signal sent to it alone, an accept or
\* a sem_open that fails.  What it held is not given back.
Dies(w) == Alive(w) /\ Exits({w}) /\ UNCHANGED <<mpc, segment, hpc, hattached, hvalue>>

-----------------------------------------------------------------------------
ReadRequestLine(w) == Copy!ReadRequestLine(w) /\ UNCHANGED poolVars
RefuseMethod(w) == Copy!RefuseMethod(w) /\ UNCHANGED poolVars
RefuseVersion(w) == Copy!RefuseVersion(w) /\ UNCHANGED poolVars
LsVersionTwo(w) == Copy!LsVersionTwo(w) /\ UNCHANGED poolVars
ReqParser(w) == Copy!ReqParser(w) /\ UNCHANGED poolVars
Send(w) == Copy!Send(w) /\ UNCHANGED poolVars

\* handle_bash: 500 if the script cannot be started.  Else the status line is sent
\* and the code counted before the script's output is read.
HandleBash(w) == /\ pc[w] = "dispatch"
                 /\ Copy!Response(w, 500) \/ Copy!Goto(w, "send", 200, "bash")
                 /\ UNCHANGED poolVars

\* The client is gone, SIGPIPE is ignored (as in ForkServer): the script is stopped,
\* and nothing is counted.
Epipe(w) == /\ pc[w] = "send" /\ after[w] = "bash"
            /\ Copy!Goto(w, "stop", 0, "end")
            /\ UNCHANGED poolVars

\* handle_bash returns: the script has closed its output or was stopped.
BashEnds(w) ==
  /\ pc[w] = "bash"
  /\ pc' = [pc EXCEPT ![w] = "end"]
  /\ UNCHANGED <<up, accepted, connfd, semWorks, sem, requests, codes, reg, class, after,
                 total, counted, answered, poolVars>>

\* It returns after an EPIPE, and do_call goes on as in DoCallEnd: a connection
\* that got no answer is done with.
StopEnds(w) ==
  /\ pc[w] = "stop"
  /\ pc' = [pc EXCEPT ![w] = "idle"]
  /\ connfd' = [connfd EXCEPT ![w] = Nil]
  /\ UNCHANGED <<up, accepted, semWorks, sem, requests, codes, reg, class, after, total,
                 counted, answered, poolVars>>

\* An access to an address that is not valid kills the process.
Faults(w) == pc[w] \in {"stat_read", "load_requests"} /\ ~ attached[w] /\ Dies(w)

\* /statistics: sem_wait, read, sem_post.
Statistics(w) ==
  /\ \/ Copy!Statistics(w) \/ Copy!StatisticsWait(w)
     \/ attached[w] /\ Copy!StatisticsRead(w)
  /\ UNCHANGED poolVars

\* write_code's last steps; the ones before are those of ThreadedAnswer.
StoreCode(w) ==
  /\ pc[w] = "store_code"
  /\ codes' = [codes EXCEPT ![class[w]] = reg[w] + 1]
  /\ classed' = classed \union {connfd[w]}
  /\ reg' = [reg EXCEPT ![w] = 0]
  /\ pc' = [pc EXCEPT ![w] = "post"]
  /\ UNCHANGED <<up, accepted, connfd, semWorks, sem, requests, class, after, total,
                 counted, answered, mpc, segment, created, attached, backlog, hpc,
                 hattached, hvalue, user1, printed>>

\* Mutant: write_code without sem_post, as in the threaded servers.
SemPostMissing(w) ==
  /\ pc[w] = "post"
  /\ pc' = [pc EXCEPT ![w] = after[w]]
  /\ UNCHANGED <<up, accepted, connfd, semWorks, sem, requests, codes, reg, class, after,
                 total, counted, answered, poolVars>>

SemPost(w) ==
  /\ pc[w] = "post"
  /\ Copy!Post
  /\ pc' = [pc EXCEPT ![w] = after[w]]
  /\ after' = [after EXCEPT ![w] = "end"]
  /\ UNCHANGED <<up, accepted, connfd, semWorks, requests, codes, reg, class,
                 total, counted, answered, poolVars>>

WriteCode(w) ==
  \/ /\ \/ Copy!WriteCodeWait(w)
        \/ attached[w] /\ Copy!LoadRequests(w)
        \/ Copy!StoreRequests(w) \/ Copy!LoadCode(w)
     /\ UNCHANGED poolVars
  \/ StoreCode(w) \/ SemPost(w)

\* do_call: the connection is shut down for writing, and the next one accepted.
DoCallEnd(w) ==
  /\ Copy!Finish(w)
  /\ connfd' = [connfd EXCEPT ![w] = Nil]
  /\ UNCHANGED <<accepted, poolVars>>

DoCall(w) == \/ ReadRequestLine(w) \/ RefuseMethod(w) \/ RefuseVersion(w)
             \/ LsVersionTwo(w) \/ ReqParser(w) \/ HandleBash(w) \/ Epipe(w)
             \/ BashEnds(w) \/ StopEnds(w) \/ Statistics(w) \/ Send(w)
             \/ WriteCode(w) \/ Faults(w) \/ DoCallEnd(w)

Server(w) == Listen(w) \/ Open(w) \/ Accept(w) \/ DoCall(w)

-----------------------------------------------------------------------------
\* siguser1_signo_handler: main posts user1_sem.
Siguser1 ==
  /\ mpc = "wait" /\ user1 + printed < MaxSignals /\ hpc \in {"open", "wait_user1"}
  /\ user1' = user1 + 1
  /\ UNCHANGED <<threadVars, mpc, segment, created, attached, backlog, hpc,
                 hattached, hvalue, printed, classed>>

handlerRest == <<up, accepted, connfd, semWorks, requests, codes, pc, reg, class, after,
                 total, counted, answered, mpc, segment, attached, backlog, classed>>

\* handler_siguser1, step by step.
HandlerOpen == /\ hpc = "open"
               /\ SemOpen
               /\ \E valid \in BOOLEAN : (segment => valid) /\ hattached' = valid
               /\ hpc' = "wait_user1"
               /\ UNCHANGED <<handlerRest, hvalue, user1, printed>>

HandlerWaitUser1 == /\ hpc = "wait_user1" /\ user1 > 0
                    /\ user1' = user1 - 1
                    /\ hpc' = "wait_shm"
                    /\ UNCHANGED <<handlerRest, sem, created, hattached, hvalue, printed>>

HandlerWaitShm == /\ hpc = "wait_shm"
                  /\ Copy!Wait
                  /\ hpc' = "read_value"
                  /\ UNCHANGED <<handlerRest, created, hattached, hvalue, user1, printed>>

HandlerRead == /\ hpc = "read_value" /\ hattached
               /\ hvalue' = requests
               /\ hpc' = "hpost"
               /\ UNCHANGED <<handlerRest, sem, created, hattached, user1, printed>>

HandlerFaults == /\ hpc = "read_value" /\ ~ hattached
                 /\ hpc' = "hcrashed"
                 /\ UNCHANGED <<handlerRest, sem, created, hattached, hvalue, user1, printed>>

HandlerPost == /\ hpc = "hpost"
               /\ Copy!Post
               /\ printed' = printed + 1 /\ hvalue' = 0
               /\ hpc' = "wait_user1"
               /\ UNCHANGED <<handlerRest, created, hattached, user1>>

\* The SIGUSR1 process dies.  It has inherited exit_handler: SIGINT sent to it
\* alone removes the segment under all the others.
HandlerExits == /\ hpc \notin {"none", "hdead", "hcrashed"}
                /\ hpc' = HandlerExited /\ hattached' = FALSE /\ hvalue' = 0
                /\ segment' \in {segment, FALSE}
                /\ UNCHANGED <<threadVars, mpc, created, attached, backlog, user1,
                               printed, classed>>

Handler == \/ HandlerOpen \/ HandlerWaitUser1 \/ HandlerWaitShm \/ HandlerRead
           \/ HandlerFaults \/ HandlerPost

Next == \/ ForkHandler \/ MainEnds \/ CtrlC \/ Siguser1 \/ Handler \/ HandlerExits
        \/ \E w \in Workers : \/ Fork(w) \/ Server(w) \/ Dies(w)
                              \/ \E c \in Conns : Connect(w, c)

Spec == Init /\ [][Next]_vars

\* The worker waits in recv, which has no timeout, for a client that stays silent,
\* or in read or waitpid for a script that does.
Held(w) == \/ pc[w] = "read" /\ connfd[w] \in Silent
           \/ pc[w] \in {"bash", "stop"} /\ connfd[w] \in Hanging

\* The workers and the SIGUSR1 process are scheduled; clients that are not silent
\* send their request lines and read their answers, or close; and the scripts of
\* connections that are not in Hanging end, or let themselves be stopped.
FairSpec == /\ Spec
            /\ WF_vars(Handler) /\ \A w \in Workers : WF_vars(~ Held(w) /\ Server(w))

-----------------------------------------------------------------------------
\* The semaphore counts exactly the processes, dead ones included, that took it
\* and did not give it back, for any order of starts, requests and deaths.
SemaphoreExact ==
  sem + Cardinality({w \in Workers : pc[w] \in Critical \union {"crashed"}})
      + (IF hpc \in HCritical \union {"hcrashed"} THEN 1 ELSE 0)
    = IF created THEN 1 ELSE 0

\* No request is lost from the counters or counted twice, and at most the request
\* of one process is counted without its class.  A process answers its connections
\* one after the other, each counted before the next is accepted, although
\* globals and buffers are used again.
CountExact ==
  /\ requests = Cardinality(counted)
  /\ codes[2] + codes[4] + codes[5] = Cardinality(classed)
  /\ classed \subseteq counted /\ Cardinality(counted \ classed) <= 1
  /\ answered \subseteq classed /\ \A w \in Workers : connfd[w] \notin answered

SemaphoreLost == hpc = "hcrashed" \/ \E w \in Workers : pc[w] = "crashed"

\* A client that a worker has in its backlog or serves is done with (it is answered,
\* or gone, or the worker dies), unless some process died with the semaphore, or
\* the worker is held, by this client or by one before it in the same backlog: the
\* workers do not wait for each other, nor for main, and a silent client or script
\* keeps one of them only, and those behind it.
Pending(c) == \E w \in Workers : \/ connfd[w] = c
                                \/ \E n \in 1..Len(backlog[w]) : backlog[w][n] = c
KeptWaiting(c) == \E w \in Workers : /\ Held(w)
                                     /\ \/ connfd[w] = c
                                        \/ \E n \in 1..Len(backlog[w]) : backlog[w][n] = c
ClientsServed == \A c \in Conns :
                   Pending(c) ~> ~ Pending(c) \/ SemaphoreLost \/ KeptWaiting(c)
=============================================================================
