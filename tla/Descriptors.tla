----------------------------- MODULE Descriptors -----------------------------
(***************************************************************************)
(* The descriptors of a server whose threads share one process: those of   *)
(* its connections, of the files it sends and of the directories it lists. *)
(* A file is never closed: req_parser (parse_uri in server.c) returns with *)
(* fd open.  A directory is closed at the end of its listing.              *)
(***************************************************************************)
EXTENDS Integers, FiniteSets

CONSTANT MaxFds  \* how many descriptors the process can have besides those it has
                 \* open all the time

VARIABLES open,             \* by kind, the connections that have such a descriptor open
          connfd, pc, after \* as in ThreadedAnswer

NoneOpen == [kind \in {"conn", "file", "dir"} |-> {}]

NOpen == Cardinality(open["conn"]) + Cardinality(open["file"]) + Cardinality(open["dir"])
HasFd == NOpen < MaxFds

-----------------------------------------------------------------------------
\* accept, open or opendir succeeds.
Opens(kind, c) == HasFd /\ open' = [open EXCEPT ![kind] = @ \union {c}]

\* The answers with a body of their own have opened what they send; in the others
\* nothing was opened, or open or opendir failed.
OpensFor(w, kind) == IF after'[w] = "body" THEN Opens(kind, connfd[w]) ELSE UNCHANGED open

Closes(kind, c) == open' = [open EXCEPT ![kind] = @ \ {c}]

\* closedir, after the last send of a listing.
ClosesDir(w) == IF pc[w] = "body" THEN Closes("dir", connfd[w]) ELSE UNCHANGED open
=============================================================================
