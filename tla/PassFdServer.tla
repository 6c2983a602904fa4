----------------------------- MODULE PassFdServer -----------------------------
(***************************************************************************)
(* multi_server_pass_socket_fd_to_child_processes.c: meant to accept       *)
(* connections in main and to pass their descriptors to the processes of   *)
(* the pool, but unfinished.  As it stands it is the pre-forked pool once  *)
(* more: main compares the length of a socket's name with a limit, sets    *)
(* errno at most, and goes on; un_listen has no body and, like             *)
(* sendConnection and recvConnection of server.h, no caller.  The          *)
(* processes accept for themselves.  This module says which function       *)
(* corresponds to what in PreforkServer; /bash is BashScript here as well. *)
(***************************************************************************)
EXTENDS PreforkServer

\* main: as there, the name check included, which changes no state.
PassInit == Init
PassMain == ForkHandler \/ \E w \in Workers : Fork(w)

\* exit_handler, inherited by the SIGUSR1 process but not by the pool.
PassExitHandler == MainEnds \/ CtrlC \/ HandlerExits

\* What do_call calls.
PassReadRequestLine(w) == ReadRequestLine(w)
PassParseMethod(w) == RefuseMethod(w)
PassParseVersion(w) == RefuseVersion(w)
PassLsVersionTwo(w) == LsVersionTwo(w)
PassReqParser(w) == ReqParser(w)
PassResponse(w) == Send(w)
PassHandleBash(w) == HandleBash(w) \/ Epipe(w) \/ BashEnds(w) \/ StopEnds(w)
PassWriteCode(w) == WriteCode(w)

PassDoCall(w) ==
  \/ PassReadRequestLine(w) \/ PassParseMethod(w) \/ PassParseVersion(w)
  \/ Statistics(w) \/ PassHandleBash(w) \/ PassLsVersionTwo(w) \/ PassReqParser(w)
  \/ PassResponse(w) \/ PassWriteCode(w) \/ Faults(w) \/ DoCallEnd(w)

\* server: the socket, sem_open and shmat, then accept and do_call for ever.
PassServer(w) == Listen(w) \/ Open(w) \/ Accept(w) \/ PassDoCall(w)

\* handler_siguser1, and the signal that makes it report.
PassHandlerSiguser1 == Handler
PassSiguser1 == Siguser1

PassNext ==
  \/ PassMain \/ PassExitHandler \/ PassSiguser1 \/ PassHandlerSiguser1
  \/ \E w \in Workers : \/ PassServer(w) \/ Dies(w)
                        \/ \E c \in Conns : Connect(w, c)

PassFairSpec == /\ PassInit /\ [][PassNext]_vars
                /\ WF_vars(PassHandlerSiguser1)
                /\ \A w \in Workers : WF_vars(~ Held(w) /\ PassServer(w))
=============================================================================
