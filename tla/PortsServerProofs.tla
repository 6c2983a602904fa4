--------------------------- MODULE PortsServerProofs ---------------------------
(***************************************************************************)
(* The select loop of the server on several ports, for any number of       *)
(* ports, clients, workers and failing accepts; and that its queue and its *)
(* workers are those of the thread pool, so that what is proved of the     *)
(* pool holds here.                                                        *)
(***************************************************************************)
EXTENDS PortsServer, FiniteSetTheorems, SequenceTheorems, TLAPS

\* The types of what the main thread and the kernel change.
Types ==
  /\ backlog \in [Ports -> Seq(Clients)] /\ aborted \in [Ports -> SUBSET Clients]
  /\ readfds \in SUBSET Ports
  /\ mpc \in {"select", "loop"} /\ i \in Ports

\* Whom the loop has behind it is asked again; before it are the ports select chose.
Asked ==
  /\ mpc = "select" => readfds = Ports
  /\ mpc = "loop" => \A p \in Ports : p < i => p \in readfds

\* A port that select chose has a client until the loop comes by, or has lost one since.
Chosen ==
  mpc = "loop" => \A p \in readfds : p >= i => backlog[p] # <<>> \/ p \in gaveUp

\* A client is in one backlog once, and neither accepted nor gone; one that gave up is
\* never accepted.
Waiting ==
  /\ \A p, q \in Ports : \A m \in 1..Len(backlog[p]), n \in 1..Len(backlog[q]) :
       backlog[p][m] = backlog[q][n] => p = q /\ m = n
  /\ \A p, q \in Ports : \A m \in 1..Len(backlog[p]) :
       backlog[p][m] \notin accepted \union aborted[q]
  /\ \A p \in Ports : aborted[p] \intersect accepted = {}

IInv == Types /\ Asked /\ Chosen

LEMMA InitIInv == Init => IInv
<1> SUFFICES ASSUME Init PROVE IInv
  OBVIOUS
<1>1. backlog = [p \in Ports |-> <<>>] /\ aborted = [p \in Ports |-> {}]
  BY DEF Init
<1>2. 1 \in Ports
  BY PortsAssumption DEF Ports
<1>3. <<>> \in Seq(Clients)
  OBVIOUS
<1> QED
  BY <1>1, <1>2, <1>3 DEF Init, IInv, Types, Asked, Chosen

\* What is left of a sequence without its n-th element.
LEMMA Removed ==
  ASSUME NEW S, NEW s \in Seq(S), NEW n \in 1..Len(s)
  PROVE  LET r == SubSeq(s, 1, n - 1) \o SubSeq(s, n + 1, Len(s))
         IN  /\ r \in Seq(S) /\ Len(r) = Len(s) - 1
             /\ \A k \in 1..Len(s) - 1 : r[k] = IF k >= n THEN s[k + 1] ELSE s[k]
<1>1. PICK l \in Nat : l = Len(s)
  OBVIOUS
<1>2. n \in 1..l
  BY <1>1
<1>3. PICK a : a = SubSeq(s, 1, n - 1)
  OBVIOUS
<1>4. PICK b : b = SubSeq(s, n + 1, l)
  OBVIOUS
<1>5. a \in Seq(S) /\ Len(a) = n - 1 /\ \A k \in 1..n - 1 : a[k] = s[k]
  BY <1>1, <1>2, <1>3, SubSeqProperties
<1>6. b \in Seq(S) /\ Len(b) = l - n /\ \A k \in 1..l - n : b[k] = s[n + k]
  BY <1>1, <1>2, <1>4, SubSeqProperties
<1>7. a \o b \in Seq(S) /\ Len(a \o b) = l - 1
  <2>1. a \o b \in Seq(S) /\ Len(a \o b) = Len(a) + Len(b)
    BY <1>5, <1>6, ConcatProperties
  <2>2. (n - 1) + (l - n) = l - 1
    BY <1>2
  <2> QED
    BY <1>5, <1>6, <2>1, <2>2
<1>8. ASSUME NEW k \in 1..l - 1, k >= n PROVE (a \o b)[k] = s[k + 1]
  <2>1. (a \o b)[k] = b[k - (n - 1)]
    BY <1>2, <1>5, <1>6, <1>8
  <2>2. k - (n - 1) \in 1..l - n /\ n + (k - (n - 1)) = k + 1
    BY <1>2, <1>8
  <2>3. b[k - (n - 1)] = s[n + (k - (n - 1))]
    BY <1>6, <2>2
  <2> QED
    BY <2>1, <2>2, <2>3
<1>9. ASSUME NEW k \in 1..l - 1, ~ (k >= n) PROVE (a \o b)[k] = s[k]
  <2>1. k \in 1..n - 1
    BY <1>2, <1>9
  <2>2. (a \o b)[k] = a[k]
    BY <1>2, <1>5, <1>6, <1>9, <2>1
  <2> QED
    BY <1>5, <2>1, <2>2
<1> QED
  BY <1>1, <1>3, <1>4, <1>7, <1>8, <1>9

\* The end of the loop's body, after which the port is asked for again.
LEMMA NextSlotIInv ==
  ASSUME IInv, NextSlot, mpc = "loop", aborted' = aborted, gaveUp' = gaveUp,
         backlog' \in [Ports -> Seq(Clients)],
         \A p \in Ports : p # i => backlog'[p] = backlog[p]
  PROVE  IInv'
<1>1. i \in Ports /\ i \in Nat /\ NPorts \in Nat /\ i <= NPorts
  BY PortsAssumption DEF IInv, Types, Ports
<1>2. CASE i = NPorts
  <2>1. mpc' = "select" /\ i' = 1 /\ readfds' = readfds \union {i}
    BY <1>2 DEF NextSlot
  <2>2. \A p \in Ports : p = i \/ p < i
    BY <1>1, <1>2 DEF Ports
  <2>3. readfds' = Ports
    BY <1>1, <2>1, <2>2 DEF IInv, Types, Asked
  <2>4. 1 \in Ports
    BY PortsAssumption DEF Ports
  <2> QED
    BY <2>1, <2>3, <2>4 DEF IInv, Types, Asked, Chosen
<1>3. CASE i # NPorts
  <2>1. mpc' = "loop" /\ i' = i + 1 /\ readfds' = readfds \union {i}
    BY <1>3 DEF NextSlot
  <2>2. i' \in Ports
    BY <1>1, <1>3, <2>1 DEF Ports
  <2>3. \A p \in Ports : p < i' => p = i \/ p < i
    BY <1>1, <2>1 DEF Ports
  <2>4. \A p \in Ports : p >= i' => p # i /\ p >= i
    BY <1>1, <2>1 DEF Ports
  <2>5. Types'
    BY <1>1, <2>1, <2>2 DEF IInv, Types
  <2>6. Asked'
    BY <2>1, <2>3 DEF IInv, Asked
  <2>7. Chosen'
    BY <1>1, <2>1, <2>4, <2>5 DEF IInv, Types, Chosen
  <2> QED
    BY <2>5, <2>6, <2>7 DEF IInv
<1> QED
  BY <1>2, <1>3

LEMMA NextIInv == IInv /\ [Next]_vars => IInv'
<1> SUFFICES ASSUME IInv, [Next]_vars PROVE IInv'
  OBVIOUS
<1>1. ASSUME UNCHANGED portVars PROVE IInv'
  BY <1>1 DEF IInv, Types, Asked, Chosen, portVars
<1>2. ASSUME NEW p \in Ports, NEW c \in Clients, Connect(p, c) PROVE IInv'
  <2>1. Append(backlog[p], c) \in Seq(Clients) /\ Append(backlog[p], c) # <<>>
    BY DEF IInv, Types
  <2> QED
    BY <1>2, <2>1 DEF Connect, IInv, Types, Asked, Chosen
<1>3. ASSUME NEW p \in Ports, NEW c \in Clients, Abort(p, c) PROVE IInv'
  <2>1. PICK n \in 1..Len(backlog[p]) :
          backlog' = [backlog EXCEPT ![p] = SubSeq(backlog[p], 1, n - 1)
                                            \o SubSeq(backlog[p], n + 1, Len(backlog[p]))]
    BY <1>3 DEF Abort
  <2>2. SubSeq(backlog[p], 1, n - 1) \o SubSeq(backlog[p], n + 1, Len(backlog[p]))
          \in Seq(Clients)
    <3>1. backlog[p] \in Seq(Clients)
      BY DEF IInv, Types
    <3> QED
      BY <3>1, Removed
  <2>3. backlog' \in [Ports -> Seq(Clients)]
        /\ \A q \in Ports : q # p => backlog'[q] = backlog[q]
    BY <2>1, <2>2 DEF IInv, Types
  <2>4. aborted' \in [Ports -> SUBSET Clients]
        /\ mpc = "loop" => p \in gaveUp' /\ gaveUp \subseteq gaveUp'
    BY <1>3 DEF Abort, IInv, Types
  <2> QED
    BY <1>3, <2>3, <2>4 DEF Abort, IInv, Types, Asked, Chosen
<1>4. CASE Select
  <2>1. 1 \in Ports
    BY PortsAssumption DEF Ports
  <2>2. mpc' = "loop" /\ i' = 1 /\ readfds' = {p \in readfds : backlog[p] # <<>>}
        /\ backlog' = backlog /\ aborted' = aborted
    BY <1>4 DEF Select
  <2>3. \A p \in Ports : ~ (p < 1)
    BY DEF Ports
  <2> QED
    BY <2>1, <2>2, <2>3 DEF IInv, Types, Asked, Chosen
<1>5. CASE AcceptClient
  <2>1. /\ i \in Ports /\ backlog[i] \in Seq(Clients) /\ backlog[i] # <<>>
        /\ mpc = "loop" /\ NextSlot /\ aborted' = aborted /\ gaveUp' = gaveUp
        /\ backlog' = [backlog EXCEPT ![i] = Tail(backlog[i])]
    BY <1>5 DEF AcceptClient, IInv, Types
  <2>2. Tail(backlog[i]) \in Seq(Clients)
    BY <2>1
  <2>3. backlog' \in [Ports -> Seq(Clients)]
        /\ \A q \in Ports : q # i => backlog'[q] = backlog[q]
    BY <2>1, <2>2 DEF IInv, Types
  <2> QED
    BY <2>1, <2>3, NextSlotIInv
<1>6. CASE SkipSlot \/ \E f \in Fails : AcceptFails(f)
  <2>1. mpc = "loop" /\ NextSlot /\ UNCHANGED <<aborted, gaveUp, backlog>>
    BY <1>6 DEF SkipSlot, AcceptFails
  <2> QED
    BY <2>1, NextSlotIInv DEF IInv, Types
<1>7. ASSUME NEW w \in Workers, DoCall(w) \/ Sigpipe(w) PROVE IInv'
  <2>1. UNCHANGED portVars
    BY <1>7 DEF DoCall, QueueGet, ReadRequestLine, RefuseMethod, RefuseVersion, LsVersionTwo,
                ReqParser, Statistics, Send, WriteCode, DoCallEnd, Sigpipe
  <2> QED
    BY <1>1, <2>1
<1>8. CASE ExitHandler
  BY <1>1, <1>8 DEF ExitHandler
<1>9. CASE UNCHANGED vars
  BY <1>1, <1>9 DEF vars
<1> QED
  BY <1>2, <1>3, <1>4, <1>5, <1>6, <1>7, <1>8, <1>9 DEF Next, StartServer

THEOREM InductiveInvariant == Spec => []IInv
BY InitIInv, NextIInv, PTL DEF Spec

\* Every call of select asks for every port, whatever the round before it met.
THEOREM SelectsAllPortsAlways == Spec => []SelectsAllPorts
<1>1. IInv => SelectsAllPorts
  BY DEF IInv, Asked, SelectsAllPorts
<1> QED
  BY <1>1, InductiveInvariant, PTL

\* The main thread blocks in accept only where a client gave up since the select that
\* reported it.
THEOREM BlocksOnlyAfterAbortAlways == Spec => []BlocksOnlyAfterAbort
<1>1. IInv => BlocksOnlyAfterAbort
  <2>1. ASSUME IInv PROVE i \in Nat
    BY <2>1 DEF IInv, Types, Ports
  <2> QED
    BY <2>1 DEF IInv, Types, Chosen, BlocksOnlyAfterAbort, MainBlocked
<1> QED
  BY <1>1, InductiveInvariant, PTL
-----------------------------------------------------------------------------
LEMMA InitWaiting == Init => Waiting
<1> SUFFICES ASSUME Init PROVE Waiting
  OBVIOUS
<1>1. \A p \in Ports : Len(backlog[p]) = 0 /\ aborted[p] = {}
  BY DEF Init
<1> QED
  BY <1>1 DEF Waiting

\* A client is in one place of one backlog.
LEMMA OnePlace ==
  ASSUME Waiting, NEW p \in Ports, NEW q \in Ports, NEW m \in 1..Len(backlog[p]),
         NEW n \in 1..Len(backlog[q]), backlog[p][m] = backlog[q][n]
  PROVE  p = q /\ m = n
BY DEF Waiting

\* What accept takes out of a backlog, or returns without a client.
LEMMA TakenOut ==
  ASSUME IInv, Waiting, NEW s, accepted' = accepted \union {s}, aborted' = aborted,
         \/ s \in Fails /\ backlog' = backlog
         \/ /\ i \in Ports /\ backlog[i] # <<>> /\ s = Head(backlog[i])
            /\ backlog' = [backlog EXCEPT ![i] = Tail(backlog[i])]
  PROVE  Waiting'
<1>1. CASE s \in Fails /\ backlog' = backlog
  <2>1. s \notin Clients
    BY <1>1, PortsAssumption
  <2>2. \A p \in Ports : \A n \in 1..Len(backlog[p]) : backlog[p][n] \in Clients
    BY DEF IInv, Types
  <2>3. \A p \in Ports : aborted[p] \subseteq Clients
    BY DEF IInv, Types
  <2> QED
    BY <1>1, <2>1, <2>2, <2>3 DEF Waiting
<1>2. CASE /\ i \in Ports /\ backlog[i] # <<>> /\ s = Head(backlog[i])
           /\ backlog' = [backlog EXCEPT ![i] = Tail(backlog[i])]
  <2>1. backlog[i] \in Seq(Clients)
    BY <1>2 DEF IInv, Types
  <2>2. /\ s = backlog[i][1] /\ 1 \in 1..Len(backlog[i])
        /\ Len(Tail(backlog[i])) = Len(backlog[i]) - 1
        /\ \A n \in 1..Len(Tail(backlog[i])) : /\ n + 1 \in 1..Len(backlog[i]) /\ n + 1 # 1
                                               /\ Tail(backlog[i])[n] = backlog[i][n + 1]
    BY <1>2, <2>1
  <2>3. ASSUME NEW p \in Ports, NEW n \in 1..Len(backlog'[p])
        PROVE  \E k \in 1..Len(backlog[p]) :
                 /\ backlog'[p][n] = backlog[p][k] /\ (p = i => k # 1)
                 /\ k = IF p = i THEN n + 1 ELSE n
    BY <1>2, <2>2, <2>3 DEF IInv, Types
  <2>4. ASSUME NEW p \in Ports, NEW q \in Ports, NEW m \in 1..Len(backlog'[p]),
               NEW n \in 1..Len(backlog'[q]), backlog'[p][m] = backlog'[q][n]
        PROVE  p = q /\ m = n
    <3>1. PICK k \in 1..Len(backlog[p]) : /\ backlog'[p][m] = backlog[p][k]
                                          /\ k = IF p = i THEN m + 1 ELSE m
      BY <2>3
    <3>2. PICK l \in 1..Len(backlog[q]) : /\ backlog'[q][n] = backlog[q][l]
                                          /\ l = IF q = i THEN n + 1 ELSE n
      BY <2>3
    <3>3. p = q /\ k = l
      <4>1. backlog[p][k] = backlog[q][l]
        BY <2>4, <3>1, <3>2
      <4> QED
        BY <4>1, OnePlace
    <3>4. m \in Int /\ n \in Int
      OBVIOUS
    <3> QED
      BY <3>1, <3>2, <3>3, <3>4
  <2>5. ASSUME NEW p \in Ports, NEW q \in Ports, NEW m \in 1..Len(backlog'[p])
        PROVE  backlog'[p][m] \notin accepted' \union aborted'[q]
    <3>1. PICK k \in 1..Len(backlog[p]) : backlog'[p][m] = backlog[p][k] /\ (p = i => k # 1)
      BY <2>3
    <3>2. backlog[p][k] # s
      <4> SUFFICES ASSUME backlog[p][k] = backlog[i][1] PROVE FALSE
        BY <2>2
      <4>1. p = i /\ k = 1
        BY <1>2, <2>2, OnePlace
      <4> QED
        BY <3>1, <4>1
    <3> QED
      BY <3>1, <3>2 DEF Waiting
  <2>6. \A p \in Ports : aborted[p] \intersect accepted' = {}
    BY <1>2, <2>2 DEF Waiting
  <2> QED
    BY <2>4, <2>5, <2>6 DEF Waiting
<1> QED
  BY <1>1, <1>2

\* Only the main thread accepts.
LEMMA WorkerAcceptsNothing ==
  ASSUME NEW w \in Workers, DoCall(w) \/ Sigpipe(w)
  PROVE  accepted' = accepted
<1> USE DEF Pool!connVars
<1>1. CASE QueueGet(w) \/ DoCallEnd(w)
  BY <1>1 DEF QueueGet, DoCallEnd, Pool!DoCallGet, Pool!DoCallEnd, Pool!Queue!FifoGet,
              Pool!Queue!FifoAsk
<1>2. CASE ReadRequestLine(w) \/ RefuseMethod(w) \/ RefuseVersion(w) \/ LsVersionTwo(w)
           \/ ReqParser(w)
  BY <1>2 DEF ReadRequestLine, RefuseMethod, RefuseVersion, LsVersionTwo, ReqParser,
     Pool!ReadRequestLine, Pool!RefuseMethod, Pool!RefuseVersion, Pool!LsVersionTwo,
     Pool!ReqParser, Pool!Response, Pool!Stream, Pool!Goto
<1>3. CASE Statistics(w) \/ Send(w) \/ Sigpipe(w)
  BY <1>3 DEF Statistics, Send, Sigpipe, Pool!Statistics, Pool!StatisticsWait,
     Pool!StatisticsRead, Pool!Send, Pool!Sigpipe
<1>4. CASE WriteCode(w)
  BY <1>4 DEF WriteCode, Pool!WriteCode, Pool!WriteCodeWait, Pool!LoadRequests,
     Pool!StoreRequests, Pool!LoadCode, Pool!StoreCode
<1> QED
  BY <1>1, <1>2, <1>3, <1>4 DEF DoCall

LEMMA NextWaiting == IInv /\ Waiting /\ [Next]_vars => Waiting'
<1> SUFFICES ASSUME IInv, Waiting, [Next]_vars PROVE Waiting'
  OBVIOUS
<1>1. ASSUME UNCHANGED <<backlog, accepted, aborted>> PROVE Waiting'
  BY <1>1 DEF Waiting
<1>2. ASSUME NEW p \in Ports, NEW c \in Clients, Connect(p, c) PROVE Waiting'
  <2>1. /\ backlog' = [backlog EXCEPT ![p] = Append(backlog[p], c)]
        /\ UNCHANGED <<accepted, aborted>> /\ backlog[p] \in Seq(Clients)
    BY <1>2 DEF Connect, IInv, Types
  <2>2. c \notin accepted /\ \A q \in Ports : c \notin aborted[q] /\ ~ InBacklog(q, c)
    BY <1>2 DEF Connect, Known
  <2>3. \A q \in Ports : \A n \in 1..Len(backlog[q]) : backlog[q][n] # c
    BY <2>2 DEF InBacklog
  <2>4. ASSUME NEW q \in Ports, NEW n \in 1..Len(backlog'[q])
        PROVE  \/ n \in 1..Len(backlog[q]) /\ backlog'[q][n] = backlog[q][n]
               \/ q = p /\ n = Len(backlog[p]) + 1 /\ backlog'[q][n] = c
    <3>1. CASE q = p
      BY <2>1, <2>4, <3>1, AppendProperties DEF IInv, Types
    <3>2. CASE q # p
      BY <2>1, <2>4, <3>2 DEF IInv, Types
    <3> QED
      BY <3>1, <3>2
  <2> QED
    BY <2>1, <2>2, <2>3, <2>4 DEF Waiting
<1>3. ASSUME NEW p \in Ports, NEW c \in Clients, Abort(p, c) PROVE Waiting'
  <2>1. PICK n \in 1..Len(backlog[p]) :
          /\ backlog[p][n] = c
          /\ backlog' = [backlog EXCEPT ![p] = SubSeq(backlog[p], 1, n - 1)
                                            \o SubSeq(backlog[p], n + 1, Len(backlog[p]))]
    BY <1>3 DEF Abort
  <2>2. aborted' = [aborted EXCEPT ![p] = aborted[p] \union {c}] /\ accepted' = accepted
    BY <1>3 DEF Abort
  <2>3. backlog[p] \in Seq(Clients)
    BY DEF IInv, Types
  <2>4. ASSUME NEW q \in Ports, NEW k \in 1..Len(backlog'[q])
        PROVE  \E l \in 1..Len(backlog[q]) : /\ backlog'[q][k] = backlog[q][l]
                                             /\ q = p => l # n
                                             /\ l = IF q = p /\ k >= n THEN k + 1 ELSE k
    <3>1. CASE q # p
      <4>1. backlog'[q] = backlog[q]
        BY <2>1, <3>1 DEF IInv, Types
      <4> QED
        BY <2>4, <3>1, <4>1
    <3>2. CASE q = p
      <4>1. backlog'[q] = SubSeq(backlog[p], 1, n - 1)
                          \o SubSeq(backlog[p], n + 1, Len(backlog[p]))
        BY <2>1, <3>2 DEF IInv, Types
      <4>2. /\ Len(backlog'[q]) = Len(backlog[p]) - 1
            /\ \A l \in 1..Len(backlog[p]) - 1 :
                 backlog'[q][l] = IF l >= n THEN backlog[p][l + 1] ELSE backlog[p][l]
        BY <2>3, <4>1, Removed
      <4>3. k \in 1..Len(backlog[p]) - 1
        BY <2>4, <4>2
      <4>4. CASE k >= n
        <5>1. k + 1 \in 1..Len(backlog[p]) /\ k + 1 # n
          BY <2>3, <4>3, <4>4
        <5> QED
          BY <3>2, <4>2, <4>3, <4>4, <5>1
      <4>5. CASE ~ (k >= n)
        <5>1. k \in 1..Len(backlog[p]) /\ k # n
          BY <2>3, <4>3, <4>5
        <5> QED
          BY <3>2, <4>2, <4>3, <4>5, <5>1
      <4> QED
        BY <4>4, <4>5
    <3> QED
      BY <3>1, <3>2
  <2>5. ASSUME NEW q \in Ports, NEW r \in Ports, NEW k \in 1..Len(backlog'[q]),
               NEW m \in 1..Len(backlog'[r]), backlog'[q][k] = backlog'[r][m]
        PROVE  q = r /\ k = m
    <3>1. PICK l \in 1..Len(backlog[q]) : /\ backlog'[q][k] = backlog[q][l]
                                          /\ l = IF q = p /\ k >= n THEN k + 1 ELSE k
      BY <2>4
    <3>2. PICK j \in 1..Len(backlog[r]) : /\ backlog'[r][m] = backlog[r][j]
                                          /\ j = IF r = p /\ m >= n THEN m + 1 ELSE m
      BY <2>4
    <3>3. q = r /\ l = j
      <4>1. backlog[q][l] = backlog[r][j]
        BY <2>5, <3>1, <3>2
      <4> QED
        BY <4>1, OnePlace
    <3>4. k \in Int /\ m \in Int /\ n \in Int
      OBVIOUS
    <3> QED
      BY <3>1, <3>2, <3>3, <3>4
  <2>6. ASSUME NEW q \in Ports, NEW r \in Ports, NEW k \in 1..Len(backlog'[q])
        PROVE  backlog'[q][k] \notin accepted' \union aborted'[r]
    <3>1. PICK l \in 1..Len(backlog[q]) : backlog'[q][k] = backlog[q][l] /\ (q = p => l # n)
      BY <2>4
    <3>2. backlog[q][l] # c
      BY <2>1, <3>1 DEF Waiting
    <3>3. aborted'[r] \subseteq aborted[r] \union {c}
      BY <2>2 DEF IInv, Types
    <3> QED
      BY <2>2, <3>1, <3>2, <3>3 DEF Waiting
  <2>7. ASSUME NEW q \in Ports PROVE aborted'[q] \intersect accepted' = {}
    <3>1. c \notin accepted
      BY <2>1 DEF Waiting
    <3>2. aborted'[q] \subseteq aborted[q] \union {c}
      BY <2>2 DEF IInv, Types
    <3> QED
      BY <2>2, <3>1, <3>2 DEF Waiting
  <2> QED
    BY <2>5, <2>6, <2>7 DEF Waiting
<1>4. CASE Select \/ SkipSlot
  BY <1>1, <1>4 DEF Select, SkipSlot
<1>5. CASE AcceptClient
  <2>1. i \in Ports
    BY DEF IInv, Types
  <2>2. /\ accepted' = accepted \union {Head(backlog[i])} /\ aborted' = aborted
        /\ backlog[i] # <<>> /\ backlog' = [backlog EXCEPT ![i] = Tail(backlog[i])]
    BY <1>5 DEF AcceptClient, QueuePut, Pool!Server, Pool!Queue!FifoPut
  <2> QED
    BY <2>1, <2>2, TakenOut
<1>6. ASSUME NEW f \in Fails, AcceptFails(f) PROVE Waiting'
  <2>1. accepted' = accepted \union {f} /\ UNCHANGED <<aborted, backlog>>
    BY <1>6 DEF AcceptFails, QueuePut, Pool!Server, Pool!Queue!FifoPut
  <2> QED
    BY <2>1, TakenOut
<1>7. ASSUME NEW w \in Workers, DoCall(w) \/ Sigpipe(w) PROVE Waiting'
  <2>1. UNCHANGED portVars
    BY <1>7 DEF DoCall, QueueGet, ReadRequestLine, RefuseMethod, RefuseVersion, LsVersionTwo,
                ReqParser, Statistics, Send, WriteCode, DoCallEnd, Sigpipe
  <2>2. UNCHANGED accepted
    BY <1>7, WorkerAcceptsNothing
  <2> QED
    BY <1>1, <2>1, <2>2 DEF portVars
<1>8. CASE ExitHandler
  BY <1>1, <1>8 DEF ExitHandler, portVars, Pool!ExitHandler, Pool!connVars
<1>9. CASE UNCHANGED vars
  BY <1>1, <1>9 DEF vars, portVars
<1> QED
  BY <1>2, <1>3, <1>4, <1>5, <1>6, <1>7, <1>8, <1>9 DEF Next, StartServer

\* A client that gave up before it was accepted is never accepted.
AbortedStayOut == \A p \in Ports : aborted[p] \intersect accepted = {}

THEOREM AbortedStayOutAlways == Spec => []AbortedStayOut
<1>1. Waiting => AbortedStayOut
  BY DEF Waiting, AbortedStayOut
<1> QED
  BY <1>1, InitWaiting, NextWaiting, InductiveInvariant, PTL DEF Spec
-----------------------------------------------------------------------------
\* The theorems about the thread pool.  (It shares a module with the servers that have
\* no queue, whose variables say nothing here.)
PoolProofs == INSTANCE ThreadedServersProofs WITH lost <- {}, program <- "thread"

\* What the theorems about the pool assume holds here.
LEMMA PoolAssumption == PoolProofs!AnswerAssumption /\ PoolProofs!MaxFdsAssumption
<1>1. IsFiniteSet(Conns)
  BY PortsAssumption, FS_Union DEF Conns
<1>2. \A S : PoolProofs!IsFiniteSet(S) <=> IsFiniteSet(S)
  BY DEF PoolProofs!IsFiniteSet, IsFiniteSet
<1> QED
  BY <1>1, <1>2, PortsAssumption
     DEF PoolProofs!AnswerAssumption, PoolProofs!MaxFdsAssumption, Conns

\* The steps of a worker are those of a worker of the pool.
LEMMA WorkerIsPool ==
  ASSUME NEW w \in Workers, DoCall(w)
  PROVE  PoolProofs!DoCall(w)
<1>1. CASE QueueGet(w)
  BY <1>1 DEF
    QueueGet, Pool!DoCallGet, Pool!Queue!FifoGet, Pool!Begin, Pool!Busy, Pool!connVars,
    Pool!shmVars, Pool!localVars, PoolProofs!DoCallGet, PoolProofs!Queue!FifoGet,
    PoolProofs!Begin, PoolProofs!Busy, PoolProofs!connVars, PoolProofs!shmVars,
    PoolProofs!localVars, portVars, PoolProofs!DoCall
<1>2. CASE DoCallEnd(w)
  BY <1>2 DEF
    DoCallEnd, Pool!DoCallEnd, Pool!Queue!FifoAsk, Pool!Finish, Pool!connVars, Pool!shmVars,
    Pool!localVars, PoolProofs!DoCallEnd, PoolProofs!Queue!FifoAsk, PoolProofs!Finish,
    PoolProofs!connVars, PoolProofs!shmVars, PoolProofs!localVars, portVars,
    PoolProofs!DoCall
<1>3. CASE ReadRequestLine(w) \/ RefuseMethod(w) \/ RefuseVersion(w)
  BY <1>3 DEF
    ReadRequestLine, RefuseMethod, RefuseVersion, Pool!ReadRequestLine, Pool!RefuseMethod,
    Pool!RefuseVersion, Pool!Response, Pool!Goto, Pool!ClassOf, Pool!connVars, Pool!shmVars,
    Pool!localVars, PoolProofs!ReadRequestLine, PoolProofs!RefuseMethod,
    PoolProofs!RefuseVersion, PoolProofs!Response, PoolProofs!Goto, PoolProofs!ClassOf,
    PoolProofs!connVars, PoolProofs!shmVars, PoolProofs!localVars, portVars,
    PoolProofs!DoCall, PoolProofs!Answer
<1>4. CASE LsVersionTwo(w) \/ ReqParser(w)
  BY <1>4 DEF
    LsVersionTwo, ReqParser, Pool!LsVersionTwo, Pool!ReqParser, Pool!Response, Pool!Stream,
    Pool!Goto, Pool!ClassOf, Pool!connVars, Pool!shmVars, Pool!localVars,
    PoolProofs!LsVersionTwo, PoolProofs!ReqParser, PoolProofs!Response, PoolProofs!Stream,
    PoolProofs!Goto, PoolProofs!ClassOf, PoolProofs!connVars, PoolProofs!shmVars,
    PoolProofs!localVars, portVars, PoolProofs!DoCall, PoolProofs!Answer
<1>5. CASE Statistics(w)
  BY <1>5 DEF
    Statistics, Pool!Statistics, Pool!StatisticsWait, Pool!StatisticsRead, Pool!Wait,
    Pool!Post, Pool!ClassOf, Pool!connVars, Pool!shmVars, Pool!localVars,
    PoolProofs!Statistics, PoolProofs!StatisticsWait, PoolProofs!StatisticsRead,
    PoolProofs!Wait, PoolProofs!Post, PoolProofs!ClassOf, PoolProofs!connVars,
    PoolProofs!shmVars, PoolProofs!localVars, portVars, PoolProofs!DoCall, PoolProofs!Answer
<1>6. CASE Send(w)
  BY <1>6 DEF
    Send, Pool!Send, Pool!connVars, Pool!shmVars, Pool!localVars, PoolProofs!Send,
    PoolProofs!connVars, PoolProofs!shmVars, PoolProofs!localVars, portVars,
    PoolProofs!DoCall, PoolProofs!Answer
<1>7. CASE WriteCode(w)
  BY <1>7 DEF
    WriteCode, Pool!WriteCode, Pool!WriteCodeWait, Pool!LoadRequests, Pool!StoreRequests,
    Pool!LoadCode, Pool!StoreCode, Pool!Wait, Pool!connVars, Pool!shmVars, Pool!localVars,
    PoolProofs!WriteCode, PoolProofs!WriteCodeWait, PoolProofs!LoadRequests,
    PoolProofs!StoreRequests, PoolProofs!LoadCode, PoolProofs!StoreCode, PoolProofs!Wait,
    PoolProofs!connVars, PoolProofs!shmVars, PoolProofs!localVars, portVars,
    PoolProofs!DoCall, PoolProofs!Answer
<1> QED
  BY <1>1, <1>2, <1>3, <1>4, <1>5, <1>6, <1>7 DEF DoCall

\* accept and queue_put are the pool's step of its main thread.
LEMMA QueuePutIsPool ==
  ASSUME NEW c \in Conns, QueuePut(c)
  PROVE  PoolProofs!Next
BY DEF QueuePut, Pool!Server, Pool!Queue!FifoPut, Pool!shmVars, Pool!localVars,
       PoolProofs!Next, PoolProofs!Server, PoolProofs!Queue!FifoPut, PoolProofs!shmVars,
       PoolProofs!localVars

\* The server on several ports implements the thread pool with one: whichever port a
\* connection comes from, and even if it is the -1 of an accept that failed.
THEOREM PortsArePool == Spec => PoolProofs!Spec
<1>1. Init => PoolProofs!Init
  BY DEF Init, Pool!Init, Pool!AnswerInit, Pool!Class, PoolProofs!Init,
         PoolProofs!AnswerInit, PoolProofs!Class
<1>2. IInv /\ [Next]_vars => [PoolProofs!Next]_(PoolProofs!vars)
  <2> SUFFICES ASSUME IInv, [Next]_vars PROVE PoolProofs!Next \/ UNCHANGED PoolProofs!vars
    OBVIOUS
  <2>1. ASSUME UNCHANGED <<threadVars, accepted, items>> PROVE UNCHANGED PoolProofs!vars
    BY <2>1 DEF threadVars, PoolProofs!vars, PoolProofs!answerVars, PoolProofs!connVars,
                PoolProofs!shmVars, PoolProofs!localVars
  <2>2. ASSUME \/ \E p \in Ports, c \in Clients : Connect(p, c) \/ Abort(p, c)
               \/ Select \/ SkipSlot \/ UNCHANGED vars
        PROVE  UNCHANGED PoolProofs!vars
    BY <2>1, <2>2 DEF Connect, Abort, Select, SkipSlot, vars
  <2>3. CASE AcceptClient
    <3>1. backlog[i] \in Seq(Clients) /\ backlog[i] # <<>>
      BY <2>3 DEF AcceptClient, IInv, Types
    <3>2. Head(backlog[i]) \in Conns
      BY <3>1 DEF Conns
    <3> QED
      BY <2>3, <3>2, QueuePutIsPool DEF AcceptClient
  <2>4. ASSUME NEW f \in Fails, AcceptFails(f) PROVE PoolProofs!Next
    BY <2>4, QueuePutIsPool DEF AcceptFails, Conns
  <2>5. CASE ExitHandler
    BY <2>5 DEF ExitHandler, Pool!ExitHandler, Pool!connVars, Pool!shmVars, Pool!localVars,
                PoolProofs!Next, PoolProofs!ExitHandler, PoolProofs!connVars,
                PoolProofs!shmVars, PoolProofs!localVars
  <2>6. ASSUME NEW w \in Workers, DoCall(w) PROVE PoolProofs!Next
    BY <2>6, WorkerIsPool DEF PoolProofs!Next
  <2>7. ASSUME NEW w \in Workers, Sigpipe(w) PROVE PoolProofs!Next
    BY <2>7 DEF Sigpipe, Pool!Sigpipe, Pool!connVars, Pool!shmVars, Pool!localVars,
                PoolProofs!Next, PoolProofs!Sigpipe, PoolProofs!connVars,
                PoolProofs!shmVars, PoolProofs!localVars
  <2> QED
    BY <2>2, <2>3, <2>4, <2>5, <2>6, <2>7 DEF Next, StartServer
<1> QED
  BY <1>1, <1>2, InductiveInvariant, PTL DEF Spec, PoolProofs!Spec

\* So its counters keep what the pool's do: a working semaphore lets one request be
\* counted at most, and racing updates make none up.
COROLLARY PortsCount == Spec => [](PoolProofs!CountedOnce /\ PoolProofs!NeverOvercounts)
<1>1. PoolProofs!Spec => []PoolProofs!CountedOnce
  BY PoolAssumption, PoolProofs!CountedOnceAlways
<1>2. PoolProofs!Spec => []PoolProofs!NeverOvercounts
  BY PoolAssumption, PoolProofs!NeverOvercountsAlways
<1> QED
  BY PortsArePool, <1>1, <1>2, PTL
=============================================================================
