---------------------------- MODULE ThreadedAnswer ----------------------------
(***************************************************************************)
(* What a thread of the four threaded servers does with a connection, from *)
(* the first byte it reads to the end of the answer.  The functions are    *)
(* the same, line by line, in all four files; the lines of                 *)
(* multi_server_thread_blocking_queue.c stand for them here, and the       *)
(* modules of the other servers name their copies.  How a thread comes by  *)
(* a connection, and what it does when it is done, differs: see these      *)
(* modules.                                                                *)
(*                                                                         *)
(* The statistics are guarded by the unnamed semaphore sem, which          *)
(* write_code waits for and, unlike that of multi_server.c, never posts.   *)
(* The threads share one process: what ends one ends all.                  *)
(***************************************************************************)
EXTENDS Integers, FiniteSets

CONSTANTS Workers,  \* the threads
          Conns,    \* the connections accept can return, each of them once
          Nil       \* no connection

ASSUME AnswerAssumption == /\ IsFiniteSet(Conns) /\ IsFiniteSet(Workers)
                           /\ Nil \notin Conns \union Workers

Class == {2, 4, 5}
ClassOf(code) == code \div 100  \* the class is all that write_code looks at

VARIABLES
  up,                    \* the process runs
  accepted,              \* the connections that accept has returned
  connfd,                \* the connection of each thread
  semWorks,              \* whether sem_init succeeded: it does on POSIX systems with
                         \* unnamed semaphores; where it fails (its result is not
                         \* looked at) sem_wait and sem_post fail too, at once
  sem,                   \* the value of the semaphore
  requests, codes,       \* struct share_statistics
  pc,                    \* each thread: "idle" without a connection, else its place
  reg, class, after,     \* a register, the code it answers, what follows write_code
  total,                 \* its local variable total
  \* Auxiliary variables: the connections that have been counted, those that
  \* have been answered to the end.
  counted, answered

connVars == <<accepted, connfd>>
shmVars == <<semWorks, sem, requests, codes>>
localVars == <<reg, class, after, total>>
answerVars == <<up, connVars, shmVars, pc, localVars, counted, answered>>

Busy(w) == pc[w] # "idle"

-----------------------------------------------------------------------------
\* main: the counters are zeroed and the semaphore initialised.
AnswerInit == /\ up = TRUE
              /\ accepted = {} /\ connfd = [w \in Workers |-> Nil]
              /\ semWorks \in BOOLEAN
              /\ sem = 1 /\ requests = 0 /\ codes = [k \in Class |-> 0]
              /\ pc = [w \in Workers |-> "idle"]
              /\ reg = [w \in Workers |-> 0] /\ class = [w \in Workers |-> 0]
              /\ after = [w \in Workers |-> "end"] /\ total = [w \in Workers |-> -1]
              /\ counted = {} /\ answered = {}

\* exit_handler, after SIGINT or an err_sys: the process ends with all threads.
ExitHandler ==
  /\ up /\ up' = FALSE
  /\ UNCHANGED <<connVars, shmVars, pc, localVars, counted, answered>>

\* do_call has a connection.
Begin(w) ==
  /\ up /\ ~ Busy(w)
  /\ pc' = [pc EXCEPT ![w] = "read"]
  /\ UNCHANGED <<up, shmVars, localVars, counted, answered>>

Goto(w, where, code, next) ==
  /\ pc' = [pc EXCEPT ![w] = where]
  /\ class' = [class EXCEPT ![w] = ClassOf(code)]
  /\ after' = [after EXCEPT ![w] = next]
  /\ UNCHANGED <<up, connVars, shmVars, reg, total, counted, answered>>

\* response: status line, headers and body are sent, then the code is counted.
Response(w, code) == Goto(w, "send", code, "end")

\* The 200 answers with a body of their own: the status line is sent, the code
\* counted, and the rest sent afterwards.
Stream(w) == Goto(w, "send", 200, "body")

\* read_request_line answers 400, or do_call goes on with the request.
ReadRequestLine(w) ==
  /\ up /\ pc[w] = "read"
  /\ Response(w, 400) \/ Goto(w, "dispatch", 0, "end")

\* do_call looks at what parse_method and parse_version found before it looks
\* at the URI.
RefuseMethod(w) == up /\ pc[w] = "dispatch" /\ Response(w, 405)
RefuseVersion(w) == up /\ pc[w] = "dispatch" /\ Response(w, 505)

\* Mutant: a listing is sent without write_code.
LsVersionTwoUncounted(w) ==
  up /\ pc[w] = "dispatch" /\ (Response(w, 500) \/ Goto(w, "body", 200, "end"))

\* ls_version_two: 500 if opendir fails, else the entries of the directory.
LsVersionTwo(w) == up /\ pc[w] = "dispatch" /\ (Response(w, 500) \/ Stream(w))

\* req_parser: 404, 403, 500, the file, or 200 for a URI that starts with '?'.
ReqParser(w) ==
  /\ up /\ pc[w] = "dispatch"
  /\ \/ \E code \in {404, 403, 500, 200} : Response(w, code)
     \/ Stream(w)

\* sem_wait and sem_post; where the semaphore does not work they do nothing.
Wait == /\ semWorks => sem > 0
        /\ sem' = IF semWorks THEN sem - 1 ELSE sem
Post == sem' = IF semWorks THEN sem + 1 ELSE sem

\* /statistics: sem_wait, read, sem_post.
Statistics(w) ==
  /\ up /\ pc[w] = "dispatch"
  /\ pc' = [pc EXCEPT ![w] = "stat_wait"]
  /\ UNCHANGED <<up, connVars, shmVars, localVars, counted, answered>>

StatisticsWait(w) ==
  /\ up /\ pc[w] = "stat_wait"
  /\ Wait
  /\ pc' = [pc EXCEPT ![w] = "stat_read"]
  /\ UNCHANGED <<up, connVars, semWorks, requests, codes, localVars, counted, answered>>

\* Mutant: /statistics, like write_code, does not post the semaphore.
StatisticsNoPost(w) ==
  /\ up /\ pc[w] = "stat_read"
  /\ total' = [total EXCEPT ![w] = requests]
  /\ pc' = [pc EXCEPT ![w] = "send"]
  /\ class' = [class EXCEPT ![w] = ClassOf(200)]
  /\ UNCHANGED <<up, connVars, shmVars, reg, after, counted, answered>>

StatisticsRead(w) ==
  /\ up /\ pc[w] = "stat_read"
  /\ total' = [total EXCEPT ![w] = requests]
  /\ Post
  /\ pc' = [pc EXCEPT ![w] = "send"]
  /\ class' = [class EXCEPT ![w] = ClassOf(200)]
  /\ UNCHANGED <<up, connVars, semWorks, requests, codes, reg, after, counted, answered>>

\* The sends before the code is counted, and those of a streamed body.  (total
\* is a local variable of the block that ends here.)
Send(w) ==
  /\ up /\ pc[w] \in {"send", "body"}
  /\ pc' = [pc EXCEPT ![w] = IF pc[w] = "body" THEN "end" ELSE "wait"]
  /\ total' = [total EXCEPT ![w] = -1]
  /\ UNCHANGED <<up, connVars, shmVars, reg, class, after, counted, answered>>

\* A client has reset its connection: a send raises SIGPIPE, which nobody
\* handles, and the process ends with all its threads.
Sigpipe(w) ==
  /\ up /\ pc[w] \in {"send", "body"}
  /\ up' = FALSE
  /\ UNCHANGED <<connVars, shmVars, pc, localVars, counted, answered>>

-----------------------------------------------------------------------------
\* Mutant: write_code does not wait for the semaphore.
WriteCodeWaitMissing(w) ==
  /\ up /\ pc[w] = "wait"
  /\ pc' = [pc EXCEPT ![w] = "load_requests"]
  /\ UNCHANGED <<up, connVars, shmVars, localVars, counted, answered>>

\* write_code, access by access.  There is no sem_post.
WriteCodeWait(w) ==
  /\ up /\ pc[w] = "wait"
  /\ Wait
  /\ pc' = [pc EXCEPT ![w] = "load_requests"]
  /\ UNCHANGED <<up, connVars, semWorks, requests, codes, localVars, counted, answered>>

LoadRequests(w) ==
  /\ up /\ pc[w] = "load_requests"
  /\ reg' = [reg EXCEPT ![w] = requests]
  /\ pc' = [pc EXCEPT ![w] = "store_requests"]
  /\ UNCHANGED <<up, connVars, shmVars, class, after, total, counted, answered>>

\* Mutant: a request is counted twice.
StoreRequestsTwice(w) ==
  /\ up /\ pc[w] = "store_requests"
  /\ requests' = reg[w] + 2
  /\ counted' = counted \union {connfd[w]}
  /\ reg' = [reg EXCEPT ![w] = 0]
  /\ pc' = [pc EXCEPT ![w] = "load_code"]
  /\ UNCHANGED <<up, connVars, semWorks, sem, codes, class, after, total, answered>>

StoreRequests(w) ==
  /\ up /\ pc[w] = "store_requests"
  /\ requests' = reg[w] + 1
  /\ counted' = counted \union {connfd[w]}
  /\ reg' = [reg EXCEPT ![w] = 0]
  /\ pc' = [pc EXCEPT ![w] = "load_code"]
  /\ UNCHANGED <<up, connVars, semWorks, sem, codes, class, after, total, answered>>

LoadCode(w) ==
  /\ up /\ pc[w] = "load_code"
  /\ reg' = [reg EXCEPT ![w] = codes[class[w]]]
  /\ pc' = [pc EXCEPT ![w] = "store_code"]
  /\ UNCHANGED <<up, connVars, shmVars, class, after, total, counted, answered>>

StoreCode(w) ==
  /\ up /\ pc[w] = "store_code"
  /\ codes' = [codes EXCEPT ![class[w]] = reg[w] + 1]
  /\ reg' = [reg EXCEPT ![w] = 0]
  /\ pc' = [pc EXCEPT ![w] = after[w]]
  /\ UNCHANGED <<up, connVars, semWorks, sem, requests, class, after, total, counted, answered>>

WriteCode(w) == \/ WriteCodeWait(w) \/ LoadRequests(w) \/ StoreRequests(w)
                \/ LoadCode(w) \/ StoreCode(w)

\* do_call is done with its connection.
Finish(w) ==
  /\ up /\ pc[w] = "end"
  /\ answered' = answered \union {connfd[w]}
  /\ pc' = [pc EXCEPT ![w] = "idle"]
  /\ class' = [class EXCEPT ![w] = 0] /\ after' = [after EXCEPT ![w] = "end"]
  /\ UNCHANGED <<up, shmVars, reg, total, counted>>

\* Everything between Begin and Finish.
Answer(w) == \/ ReadRequestLine(w) \/ RefuseMethod(w) \/ RefuseVersion(w)
             \/ LsVersionTwo(w) \/ ReqParser(w) \/ Statistics(w) \/ StatisticsWait(w)
             \/ StatisticsRead(w) \/ Send(w) \/ WriteCode(w)

-----------------------------------------------------------------------------
\* The type of every variable.
AnswerTypeOK ==
  /\ up \in BOOLEAN
  /\ accepted \in SUBSET Conns /\ connfd \in [Workers -> Conns \union {Nil}]
  /\ \A w \in Workers : Busy(w) <=> connfd[w] # Nil
  /\ semWorks \in BOOLEAN
  /\ sem \in {0, 1} /\ requests \in Nat /\ codes \in [Class -> Nat]
  /\ pc \in [Workers -> {"idle", "read", "dispatch", "stat_wait", "stat_read", "send",
                         "wait", "load_requests", "store_requests", "load_code",
                         "store_code", "body", "end"}]
  /\ reg \in [Workers -> Nat] /\ class \in [Workers -> Class \union {0}]
  /\ after \in [Workers -> {"end", "body"}] /\ total \in [Workers -> Nat \union {-1}]
  /\ counted \in SUBSET Conns /\ answered \in SUBSET Conns

\* A working semaphore that write_code takes and never posts admits one request
\* to the counters in the whole life of the process, and /statistics reads
\* only before that.
CountedOnce ==
  semWorks => sem + Cardinality(counted)
                  + Cardinality({w \in Workers : pc[w] \in {"stat_read", "load_requests",
                                                            "store_requests"}}) = 1

\* A connection is answered to the end only after it was counted, whichever of
\* the routes answered it, and nobody serves it again.
AnsweredIsCounted == /\ answered \subseteq counted
                     /\ \A w \in Workers : connfd[w] \notin answered

\* The counters never claim more than was counted, even where the semaphore
\* does not work and updates get lost, nor does /statistics, and the classes never
\* more than one status per counted request.
NeverOvercounts ==
  /\ requests <= Cardinality(counted)
  /\ \A w \in Workers : total[w] <= Cardinality(counted)
  /\ \A k \in Class : codes[k] <= Cardinality(counted)

\* With a working semaphore, whatever threads wait for it in whatever order, the
\* first answer gets through: /statistics, which also takes it, gives it back.
FirstIsCounted ==
  semWorks /\ (\E w \in Workers : pc[w] \in {"stat_wait", "wait"}) ~> ~ up \/ counted # {}
=============================================================================
