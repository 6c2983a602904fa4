----------------------------- MODULE FifoQueue -----------------------------
(***************************************************************************)
(* What struct queue promises to the two servers that use it: every socket *)
(* that is put is handed to exactly one worker, and sockets are handed out *)
(* in the order in which they were put.  No lock, list or condition        *)
(* variable appears here; BlockingQueue is shown to implement this module. *)
(***************************************************************************)
EXTENDS Sequences

CONSTANTS Workers,  \* the threads that call queue_get
          Socks,    \* the descriptors accept() can return, each of them once
          Nil       \* "no socket"

VARIABLES items,    \* the sockets put and not yet handed out, oldest first
          put,      \* every socket ever put
          connfd    \* the socket each worker holds, Nil while it asks for one

fifoVars == <<items, put, connfd>>

FifoInit == /\ items = <<>>
            /\ put = {}
            /\ connfd = [w \in Workers |-> Nil]

\* A new socket goes to the end.
FifoPut(s) == /\ s \notin put
              /\ put' = put \union {s}
              /\ items' = Append(items, s)
              /\ UNCHANGED connfd

\* A worker without a socket receives the oldest one.
FifoGet(w) == /\ connfd[w] = Nil
              /\ items # <<>>
              /\ connfd' = [connfd EXCEPT ![w] = Head(items)]
              /\ items' = Tail(items)
              /\ UNCHANGED put

\* A worker is done with its socket and asks for another one.
FifoAsk(w) == /\ connfd[w] # Nil
              /\ connfd' = [connfd EXCEPT ![w] = Nil]
              /\ UNCHANGED <<items, put>>

FifoNext == \/ \E s \in Socks : FifoPut(s)
            \/ \E w \in Workers : FifoGet(w) \/ FifoAsk(w)

FifoSpec == FifoInit /\ [][FifoNext]_fifoVars
=============================================================================
