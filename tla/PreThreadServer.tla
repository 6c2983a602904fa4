--------------------------- MODULE PreThreadServer ---------------------------
(***************************************************************************)
(* multi_server_pre_create_thread.c: a fixed number of threads, each of    *)
(* which accepts connections on the common socket and answers them.  A     *)
(* connection is shut down for writing and never closed.  The functions an *)
(* answer goes through are copies of those of ThreadedAnswer.              *)
(***************************************************************************)
CONSTANTS Workers, Conns, Nil,
          MaxFds  \* as in Descriptors

VARIABLES up, accepted, connfd, semWorks, sem, requests, codes, pc, reg, class, after,
          total, counted, answered,  \* as in ThreadedAnswer
          open   \* as in Descriptors

Thread == INSTANCE ThreadedAnswer
Fd == INSTANCE Descriptors

vars == <<up, accepted, connfd, semWorks, sem, requests, codes, pc, reg, class, after,
          total, counted, answered, open>>

-----------------------------------------------------------------------------
\* main and server: the threads are created.  (A pthread_create that fails
\* leaves a smaller pool; nobody looks.)
Init == Thread!AnswerInit /\ open = Fd!NoneOpen

\* do_call: an idle thread accepts a connection.
Accept(w, c) ==
  /\ Thread!Begin(w)
  /\ c \notin accepted
  /\ accepted' = accepted \union {c}
  /\ Fd!Opens("conn", c)
  /\ connfd' = [connfd EXCEPT ![w] = c]

\* SIGINT, or an accept that fails in any thread.
ExitHandler == Thread!ExitHandler /\ UNCHANGED open

ReadRequestLine(w) == Thread!ReadRequestLine(w) /\ UNCHANGED open
RefuseMethod(w) == Thread!RefuseMethod(w) /\ UNCHANGED open
RefuseVersion(w) == Thread!RefuseVersion(w) /\ UNCHANGED open
LsVersionTwo(w) == Thread!LsVersionTwo(w) /\ Fd!OpensFor(w, "dir")
ReqParser(w) == Thread!ReqParser(w) /\ Fd!OpensFor(w, "file")
Statistics(w) == /\ \/ Thread!Statistics(w) \/ Thread!StatisticsWait(w)
                    \/ Thread!StatisticsRead(w)
                 /\ UNCHANGED open
Send(w) == Thread!Send(w) /\ Fd!ClosesDir(w)
Sigpipe(w) == Thread!Sigpipe(w) /\ UNCHANGED open
WriteCode(w) == Thread!WriteCode(w) /\ UNCHANGED open

\* Mutant: the connection is closed, as multi_server_thread.c does.
DoCallEndCloses(w) ==
  /\ Thread!Finish(w)
  /\ connfd' = [connfd EXCEPT ![w] = Nil]
  /\ Fd!Closes("conn", connfd[w])
  /\ UNCHANGED accepted

\* do_call: the connection is shut down for writing, and the next one accepted.
DoCallEnd(w) ==
  /\ Thread!Finish(w)
  /\ connfd' = [connfd EXCEPT ![w] = Nil]
  /\ UNCHANGED <<accepted, open>>

DoCall(w) == \/ ReadRequestLine(w) \/ RefuseMethod(w) \/ RefuseVersion(w)
             \/ LsVersionTwo(w) \/ ReqParser(w) \/ Statistics(w) \/ Send(w)
             \/ WriteCode(w) \/ DoCallEnd(w)

Next == \/ ExitHandler
        \/ \E w \in Workers : \/ DoCall(w) \/ Sigpipe(w)
                              \/ \E c \in Conns : Accept(w, c)
=============================================================================
