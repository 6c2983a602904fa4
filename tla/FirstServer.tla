----------------------------- MODULE FirstServer -----------------------------
(***************************************************************************)
(* server.c: as multi_server_thread.c, a thread for each connection, but   *)
(* without statistics, and without close: a connection is shut down when   *)
(* it is answered, and its descriptor stays open.                          *)
(***************************************************************************)
CONSTANTS Workers, Conns, Nil,  \* as in ThreadServer
          MaxFds

VARIABLES up, accepted, connfd, semWorks, sem, requests, codes, pc, reg, class, after,
          total, counted, answered,  \* as in ThreadedAnswer; the statistics and their
                                     \* semaphore do not exist here and stay as they are
          open, lost                 \* as in ThreadServer

noVars == <<semWorks, sem, requests, codes, reg, total, counted>>

Thread == INSTANCE ThreadedAnswer
Fd == INSTANCE Descriptors
PerConnection == INSTANCE ThreadServer

-----------------------------------------------------------------------------
Init == PerConnection!Init

\* server: as in ThreadServer, down to the result of pthread_create that nobody
\* looks at.
Server(c) == PerConnection!Server(c)

\* SIGPIPE, or an accept that fails: the process ends.
ProcessEnds == PerConnection!ExitHandler

ReadRequestLine(w) == Thread!ReadRequestLine(w) /\ UNCHANGED <<open, lost>>
RefuseMethod(w) == Thread!RefuseMethod(w) /\ UNCHANGED <<open, lost>>
RefuseVersion(w) == Thread!RefuseVersion(w) /\ UNCHANGED <<open, lost>>

\* parse_uri: 404 if open fails, a file, or 200 for an empty URI and one that starts
\* with '?'.
ParseUri(w) == /\ up /\ pc[w] = "dispatch"
               /\ Thread!Response(w, 404) \/ Thread!Stream(w) \/ Thread!Response(w, 200)
               /\ Fd!OpensFor(w, "file")
               /\ UNCHANGED lost

\* response, and the sends of a file: nothing is counted.
Response(w) ==
  /\ up /\ pc[w] \in {"send", "body"}
  /\ pc' = [pc EXCEPT ![w] = IF pc[w] = "body" THEN "end" ELSE after[w]]
  /\ UNCHANGED <<up, accepted, connfd, noVars, class, after, answered, open, lost>>

\* accept_request, the end: the connection is shut down, the thread ends.
AcceptRequestEnd(w) ==
  /\ Thread!Finish(w)
  /\ connfd' = [connfd EXCEPT ![w] = Nil]
  /\ UNCHANGED <<accepted, open, lost>>

AcceptRequest(w) == \/ ReadRequestLine(w) \/ RefuseMethod(w) \/ RefuseVersion(w)
                    \/ ParseUri(w) \/ Response(w) \/ AcceptRequestEnd(w)

Next == \/ ProcessEnds
        \/ \E c \in Conns : Server(c)
        \/ \E w \in Workers : AcceptRequest(w)
=============================================================================
