---------------------------- MODULE ThreadServers ----------------------------
(***************************************************************************)
(* The three threaded servers without a queue, ThreadServer,               *)
(* PreThreadServer and FirstServer.  The variable program says which of    *)
(* them runs; it never changes.                                            *)
(***************************************************************************)
EXTENDS ThreadedAnswer

CONSTANT MaxFds  \* as in Descriptors

ASSUME MaxFdsAssumption == MaxFds \in Nat \ {0}

VARIABLES open, lost,  \* as in ThreadServer
          program      \* which of the programs runs

T == INSTANCE ThreadServer
P == INSTANCE PreThreadServer
F == INSTANCE FirstServer

serverVars == <<answerVars, open, lost, program>>

ServersInit ==
  /\ program \in {"thread", "prethread", "first"}
  /\ lost = {}
  /\ program = "thread" => T!Init
  /\ program = "prethread" => P!Init
  /\ program = "first" => F!Init

ServersNext ==
  /\ \/ program = "thread" /\ T!Next
     \/ program = "prethread" /\ P!Next /\ UNCHANGED lost
     \/ program = "first" /\ F!Next
  /\ UNCHANGED program

Worker(w) == /\ \/ program = "thread" /\ T!DoCall(w)
                \/ program = "prethread" /\ P!DoCall(w) /\ UNCHANGED lost
                \/ program = "first" /\ F!AcceptRequest(w)
             /\ UNCHANGED program

ServersSpec == ServersInit /\ [][ServersNext]_serverVars

\* Every thread that has a connection is scheduled, and every client sends its
\* request line or closes.  Nothing makes clients connect.
FairServersSpec == ServersSpec /\ \A w \in Workers : WF_serverVars(Worker(w))

-----------------------------------------------------------------------------
\* The two servers with statistics count every connection they answer; no server
\* goes on with a connection it has answered.
AnsweredOnce ==
  /\ program # "first" => AnsweredIsCounted
  /\ \A w \in Workers : connfd[w] \notin answered

\* multi_server_thread.c closes every connection it answers and every directory it
\* lists, but no file it sends.
ThreadOpenIsInUse == program = "thread" => T!OpenIsInUse

\* The other two close neither connections nor files: however many they have
\* answered, they accept, in the whole life of the process, no more connections than
\* the files they have sent leave descriptors for.
LifetimeBounded ==
  program # "thread" => Cardinality(accepted) + Cardinality(open["file"]) <= MaxFds
=============================================================================
