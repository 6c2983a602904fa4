----------------------------- MODULE ThreadServer -----------------------------
(***************************************************************************)
(* multi_server_thread.c: the main thread accepts connections and creates  *)
(* a thread for each, which answers it, closes it and ends.  The functions *)
(* an answer goes through are copies of those of ThreadedAnswer.           *)
(***************************************************************************)
CONSTANTS Workers, Conns, Nil,  \* Workers: as many as there can be threads at a time
          MaxFds                \* as in Descriptors

VARIABLES up, accepted, connfd, semWorks, sem, requests, codes, pc, reg, class, after,
          total, counted, answered,  \* as in ThreadedAnswer
          open,  \* as in Descriptors
          lost   \* the connections for which no thread could be created

ownVars == <<open, lost>>
statVars == <<semWorks, sem, requests, codes>>
localVars == <<reg, class, after, total>>
vars == <<up, accepted, connfd, statVars, pc, localVars, counted, answered, ownVars>>

Thread == INSTANCE ThreadedAnswer
Fd == INSTANCE Descriptors

-----------------------------------------------------------------------------
Init == Thread!AnswerInit /\ open = Fd!NoneOpen /\ lost = {}

\* server: accept returns a connection.
AcceptedBy(c) == /\ up /\ c \notin accepted
                 /\ accepted' = accepted \union {c}
                 /\ Fd!Opens("conn", c)

\* server: a thread is created for the connection.  If that fails, nobody
\* looks at the result, and the connection stays open and unanswered.
Server(c) ==
  /\ AcceptedBy(c)
  /\ \/ \E w \in Workers : /\ Thread!Begin(w)
                           /\ connfd' = [connfd EXCEPT ![w] = c]
        /\ UNCHANGED lost
     \/ /\ lost' = lost \union {c}
        /\ UNCHANGED <<up, connfd, statVars, pc, localVars, counted, answered>>

\* SIGINT, or an accept that fails.
ExitHandler == Thread!ExitHandler /\ UNCHANGED ownVars

ReadRequestLine(w) == Thread!ReadRequestLine(w) /\ UNCHANGED ownVars
RefuseMethod(w) == Thread!RefuseMethod(w) /\ UNCHANGED ownVars
RefuseVersion(w) == Thread!RefuseVersion(w) /\ UNCHANGED ownVars
LsVersionTwo(w) == Thread!LsVersionTwo(w) /\ Fd!OpensFor(w, "dir") /\ UNCHANGED lost
ReqParser(w) == Thread!ReqParser(w) /\ Fd!OpensFor(w, "file") /\ UNCHANGED lost
Statistics(w) == /\ \/ Thread!Statistics(w) \/ Thread!StatisticsWait(w)
                    \/ Thread!StatisticsRead(w)
                 /\ UNCHANGED ownVars
Send(w) == Thread!Send(w) /\ Fd!ClosesDir(w) /\ UNCHANGED lost
Sigpipe(w) == Thread!Sigpipe(w) /\ UNCHANGED ownVars
WriteCode(w) == Thread!WriteCode(w) /\ UNCHANGED ownVars

\* Mutant: the thread ends without close, as in the other servers.
DoCallEndNoClose(w) ==
  /\ Thread!Finish(w)
  /\ connfd' = [connfd EXCEPT ![w] = Nil]
  /\ UNCHANGED <<accepted, open, lost>>

\* Mutant: after the answer the thread reads from the same connection again.
DoCallEndReadsAgain(w) ==
  /\ up /\ pc[w] = "end"
  /\ answered' = answered \union {connfd[w]}
  /\ pc' = [pc EXCEPT ![w] = "read"]
  /\ UNCHANGED <<up, accepted, connfd, statVars, localVars, counted, ownVars>>

\* do_call: the connection is shut down and closed, the thread ends.
DoCallEnd(w) ==
  /\ Thread!Finish(w)
  /\ Fd!Closes("conn", connfd[w])
  /\ connfd' = [connfd EXCEPT ![w] = Nil]
  /\ UNCHANGED <<accepted, lost>>

DoCall(w) == \/ ReadRequestLine(w) \/ RefuseMethod(w) \/ RefuseVersion(w)
             \/ LsVersionTwo(w) \/ ReqParser(w) \/ Statistics(w) \/ Send(w)
             \/ WriteCode(w) \/ DoCallEnd(w)

Next == \/ ExitHandler
        \/ \E c \in Conns : Server(c)
        \/ \E w \in Workers : DoCall(w) \/ Sigpipe(w)

-----------------------------------------------------------------------------
\* A connection is open only while a thread serves it, except those for which no
\* thread could be created: they leak.  A directory is open only while it is
\* listed.  A file stays open when its connection is answered and closed: it leaks,
\* one for each connection answered with a file.
OpenIsInUse ==
  /\ open["conn"] = {connfd[w] : w \in {v \in Workers : Thread!Busy(v)}} \union lost
  /\ \A c \in open["dir"] :
       \E w \in Workers : connfd[w] = c /\ after[w] = "body" /\ pc[w] # "end"
  /\ open["file"] \subseteq answered \union (open["conn"] \ lost)
=============================================================================
