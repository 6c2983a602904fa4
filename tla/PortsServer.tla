----------------------------- MODULE PortsServer -----------------------------
(***************************************************************************)
(* multi_server_thread_Listening_on_multiple_ports.c: the main thread      *)
(* waits with select for clients on several ports and puts what accept     *)
(* returns into the queue, even if that is -1.  Queue and workers are      *)
(* copies of those of QueueServer.                                         *)
(***************************************************************************)
EXTENDS Integers, Sequences, FiniteSets

CONSTANTS Workers, Nil,
          Clients,  \* the connections clients make, each of them once
          Fails,    \* the -1's that a failing accept returns, told apart from each
                    \* other (bounds how often accept fails)
          NPorts,   \* the number of ports
          MaxFds    \* as in Descriptors

ASSUME PortsAssumption == /\ NPorts \in Nat \ {0} /\ MaxFds \in Nat \ {0}
                          /\ Clients \intersect Fails = {}
                          /\ IsFiniteSet(Clients) /\ IsFiniteSet(Fails)
                          /\ IsFiniteSet(Workers)
                          /\ Nil \notin Clients \union Fails \union Workers

Ports == 1..NPorts  \* the slots of servSocks that are used
Conns == Clients \union Fails

VARIABLES up, accepted, connfd, semWorks, sem, requests, codes, pc, reg, class, after,
          total, counted, answered, items,  \* as in QueueServer
          open,         \* as in Descriptors
          backlog,      \* the clients each listening socket has for accept, oldest first
          readfds,      \* the ports whose bit is set
          mpc, i,       \* the main thread: in select, or in the loop at slot i
          \* Auxiliary variables: the clients of each port that gave up before accept,
          \* and the ports where one did since select returned.
          aborted, gaveUp

portVars == <<backlog, readfds, mpc, i, aborted, gaveUp>>
threadVars == <<up, connfd, semWorks, sem, requests, codes, pc, reg, class, after,
                total, counted, answered>>
vars == <<threadVars, accepted, items, open, portVars>>

Pool == INSTANCE QueueServer
Fd == INSTANCE Descriptors

-----------------------------------------------------------------------------
\* main: sockets and threads are created; start_server sets the bit of every port.
Init == /\ Pool!Init
        /\ backlog = [p \in Ports |-> <<>>]
        /\ readfds = Ports
        /\ mpc = "select" /\ i = 1
        /\ aborted = [p \in Ports |-> {}] /\ gaveUp = {}
        /\ open = Fd!NoneOpen

InBacklog(p, c) == \E n \in 1..Len(backlog[p]) : backlog[p][n] = c
Known(c) == c \in accepted \/ \E p \in Ports : InBacklog(p, c) \/ c \in aborted[p]

\* The kernel completes the connection of a client.
Connect(p, c) ==
  /\ up /\ ~ Known(c)
  /\ backlog' = [backlog EXCEPT ![p] = Append(@, c)]
  /\ UNCHANGED <<threadVars, accepted, items, open, readfds, mpc, i, aborted, gaveUp>>

\* A client gives up before it is accepted.  (Some systems take it out of the
\* backlog, others let accept return it.)
Abort(p, c) ==
  /\ up
  /\ \E n \in 1..Len(backlog[p]) :
       /\ backlog[p][n] = c
       /\ backlog' = [backlog EXCEPT ![p] = SubSeq(@, 1, n - 1) \o SubSeq(@, n + 1, Len(@))]
  /\ aborted' = [aborted EXCEPT ![p] = @ \union {c}]
  /\ gaveUp' = IF mpc = "loop" THEN gaveUp \union {p} ELSE gaveUp
  /\ UNCHANGED <<threadVars, accepted, items, open, readfds, mpc, i>>

\* Mutant: the loop looks at a set that select has not changed.
SelectKeepsReadfds ==
  /\ up /\ mpc = "select" /\ \E p \in readfds : backlog[p] # <<>>
  /\ mpc' = "loop" /\ i' = 1 /\ gaveUp' = {}
  /\ UNCHANGED <<threadVars, accepted, items, open, backlog, readfds, aborted>>

\* start_server: select returns when a port it was asked for has a client, and
\* leaves the bits of those that have one.
Select ==
  /\ up /\ mpc = "select"
  /\ readfds' = {p \in readfds : backlog[p] # <<>>}
  /\ readfds' # {}
  /\ mpc' = "loop" /\ i' = 1 /\ gaveUp' = {}
  /\ UNCHANGED <<threadVars, accepted, items, open, backlog, aborted>>

\* Mutant: only the ports that had a client are asked for again.
NextSlotSkips ==
  /\ IF i = NPorts THEN mpc' = "select" /\ i' = 1 ELSE mpc' = mpc /\ i' = i + 1
  /\ UNCHANGED readfds

\* The end of the loop's body: the port is asked for again.
NextSlot ==
  /\ IF i = NPorts THEN mpc' = "select" /\ i' = 1 ELSE mpc' = mpc /\ i' = i + 1
  /\ readfds' = readfds \union {i}

QueuePut(s) == Pool!Server(s)

\* accept returns the oldest client; where there is none, it blocks.  (Accept is
\* not interrupted: the only handler exits.)
AcceptClient ==
  /\ up /\ mpc = "loop" /\ i \in readfds /\ backlog[i] # <<>>
  /\ backlog' = [backlog EXCEPT ![i] = Tail(@)]
  /\ QueuePut(Head(backlog[i])) /\ Fd!Opens("conn", Head(backlog[i]))
  /\ NextSlot
  /\ UNCHANGED <<aborted, gaveUp>>

\* Mutant: a failing accept ends the round.
AcceptFailsBreaks(f) ==
  /\ up /\ mpc = "loop" /\ i \in readfds
  /\ QueuePut(f)
  /\ mpc' = "select" /\ i' = 1
  /\ UNCHANGED <<open, backlog, readfds, aborted, gaveUp>>

\* accept fails and -1 is put into the queue.  While a descriptor is left it does
\* so now and then.  Once none is left accept fails for ever, as nothing is ever
\* closed but directories: Fails then bounds how far the loop is followed.
AcceptFails(f) ==
  /\ up /\ mpc = "loop" /\ i \in readfds
  /\ QueuePut(f)
  /\ NextSlot
  /\ UNCHANGED <<open, backlog, aborted, gaveUp>>

\* The bit of the port is not set.
SkipSlot ==
  /\ up /\ mpc = "loop" /\ i \notin readfds
  /\ NextSlot
  /\ UNCHANGED <<threadVars, accepted, items, open, backlog, aborted, gaveUp>>

StartServer == Select \/ AcceptClient \/ SkipSlot \/ \E f \in Fails : AcceptFails(f)

\* SIGINT, or a select that fails.
ExitHandler == Pool!ExitHandler /\ UNCHANGED <<items, open, portVars>>

-----------------------------------------------------------------------------
QueueGet(w) == Pool!DoCallGet(w) /\ UNCHANGED <<open, portVars>>

\* Reading from the descriptor -1 fails at once and is answered with 400.
ReadRequestLine(w) ==
  /\ Pool!ReadRequestLine(w)
  /\ connfd[w] \in Fails => class'[w] = 4
  /\ UNCHANGED <<items, open, portVars>>

RefuseMethod(w) == Pool!RefuseMethod(w) /\ UNCHANGED <<items, open, portVars>>
RefuseVersion(w) == Pool!RefuseVersion(w) /\ UNCHANGED <<items, open, portVars>>
LsVersionTwo(w) ==
  Pool!LsVersionTwo(w) /\ Fd!OpensFor(w, "dir") /\ UNCHANGED <<items, portVars>>
ReqParser(w) == Pool!ReqParser(w) /\ Fd!OpensFor(w, "file") /\ UNCHANGED <<items, portVars>>
Statistics(w) == /\ \/ Pool!Statistics(w) \/ Pool!StatisticsWait(w)
                    \/ Pool!StatisticsRead(w)
                 /\ UNCHANGED <<items, open, portVars>>
Send(w) == Pool!Send(w) /\ Fd!ClosesDir(w) /\ UNCHANGED <<items, portVars>>
WriteCode(w) == Pool!WriteCode(w) /\ UNCHANGED <<items, open, portVars>>

\* Sending to the descriptor -1 fails, but raises no signal.
Sigpipe(w) ==
  connfd[w] \notin Fails /\ Pool!Sigpipe(w) /\ UNCHANGED <<items, open, portVars>>

\* do_call: the connection is shut down for writing and not closed.
DoCallEnd(w) == Pool!DoCallEnd(w) /\ UNCHANGED <<open, portVars>>

DoCall(w) == \/ QueueGet(w) \/ ReadRequestLine(w) \/ RefuseMethod(w) \/ RefuseVersion(w)
             \/ LsVersionTwo(w) \/ ReqParser(w) \/ Statistics(w) \/ Send(w)
             \/ WriteCode(w) \/ DoCallEnd(w)

Next == \/ StartServer \/ ExitHandler
        \/ \E p \in Ports, c \in Clients : Connect(p, c) \/ Abort(p, c)
        \/ \E w \in Workers : DoCall(w) \/ Sigpipe(w)

Spec == Init /\ [][Next]_vars

\* The main thread and the workers are scheduled.  A worker waits for the
\* request line of its client, which may never come: only the main thread's
\* progress is claimed.
FairSpec == Spec /\ WF_vars(StartServer)

-----------------------------------------------------------------------------
\* Whenever the main thread calls select it asks for every port, whatever the
\* round before has met: clients, none, or an accept that failed.
SelectsAllPorts == mpc = "select" => readfds = Ports

\* The main thread blocks in accept, and with it all ports, only where a client of
\* that port has given up since the select that reported it.
MainBlocked == mpc = "loop" /\ i \in readfds /\ backlog[i] = <<>>
BlocksOnlyAfterAbort == MainBlocked => i \in gaveUp

\* However many clients the other ports have, and even when all workers are
\* stuck, a client that waits is accepted, unless it gives up, the main thread
\* blocks in accept, or the descriptors run out, which they do in the end: no
\* connection and no file is ever closed.
EveryPortServed ==
  \A p \in Ports, c \in Clients :
    InBacklog(p, c) ~> \/ c \in accepted \/ c \in aborted[p]
                       \/ ~ up \/ MainBlocked \/ ~ Fd!HasFd
=============================================================================
