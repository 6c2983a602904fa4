-------------------------- MODULE RequestLineProofs --------------------------
(***************************************************************************)
(* What read_request_line accepts and leaves behind, for any URI_LIMIT,    *)
(* any bytes and any number of requests read into the same buffers.        *)
(*                                                                         *)
(* The invariant says which bytes were read in which state: where the      *)
(* spaces are, and that req_uri holds what stands between them.  At the    *)
(* end the version joins in, and what parse_version makes of it.           *)
(***************************************************************************)
EXTENDS RequestLine, SequenceTheorems, WellFoundedInduction, TLAPS

Types ==
  /\ recv_num \in Nat /\ served \in Nat /\ input \in Seq(Byte)
  /\ req_uri \in [0..UriLimit - 1 -> Byte \union {NUL}]
  /\ state \in {"method", "url", "version", "done", "ok", "error", "closed"}

\* The bytes of this request but those at the positions P are printable.
PlainBut(P) == \A k \in 1..Len(input) : k \notin P => input[k] \in Valid

\* A space at i, and the URI so far behind it.
UriFrom(i) ==
  /\ i \in 1..Len(input) /\ input[i] = "SP" /\ PlainBut({i})
  /\ recv_num = Len(input) - i
  /\ \A k \in 1..recv_num : req_uri[k - 1] = input[i + k]

\* Spaces at i and j, and the whole URI between them.
UriIn(i, j) ==
  /\ i \in Nat \ {0} /\ j \in 1..Len(input) /\ i < j /\ j - i - 1 <= UriLimit - 2
  /\ input[i] = "SP" /\ input[j] = "SP"
  /\ \A k \in 1..j - i - 1 : req_uri[k - 1] = input[i + k]
  /\ req_uri[j - i - 1] = NUL

InVersion(i, j) == UriIn(i, j) /\ PlainBut({i, j})

InDone(i, j) ==
  /\ UriIn(i, j) /\ j < Len(input)
  /\ input[Len(input)] = "CR" /\ PlainBut({i, j, Len(input)})

InOk(i, j) ==
  /\ UriIn(i, j) /\ j < Len(input) - 1
  /\ input[Len(input) - 1] = "CR" /\ input[Len(input)] = "LF"
  /\ PlainBut({i, j, Len(input) - 1, Len(input)})

\* No continuation of what was read is a line of the reference.
Hopeless == \A e \in Seq(Byte) : ~ IsRequestLine(input \o e)

\* What was read, by the state.
Shape ==
  /\ state = "method" => PlainBut({}) /\ recv_num = Len(input)
  /\ state = "url" => recv_num < UriLimit /\ \E i \in Nat : UriFrom(i)
  /\ state = "version" => \E i, j \in Nat : InVersion(i, j)
  /\ state = "done" => \E i, j \in Nat : InDone(i, j)
  /\ state = "ok" => \E i, j \in Nat : InOk(i, j)
  /\ state = "error" => Hopeless

\* The first request is read into a buffer of zeros, so that a method shorter than
\* three bytes is no prefix of GET.
Fresh ==
  /\ recv_buffer \in [BufferIndex -> Byte \union {NUL}]
  /\ served = 0 /\ state = "method" =>
       /\ recv_num <= MaxMethod
       /\ \A k \in BufferIndex : recv_buffer[k] = IF k < recv_num THEN input[k + 1] ELSE NUL
  /\ served = 0 /\ method = "GET" =>
       Len(input) >= 4 /\ \A k \in 1..3 : Upper(input[k]) = <<"G", "E", "T">>[k]
  /\ state = "method" => method = "none"

IInv == Types /\ Shape

-----------------------------------------------------------------------------
LEMMA Bytes == /\ Byte = Valid \union Other
               /\ \A b \in Valid : b \notin Other /\ b # NUL
               /\ \A b \in MethodBytes \union UriBytes \union VersionBytes : b \in Valid
BY RequestLineAssumption DEF Byte, Valid

\* What one more byte does to the sequence of those read.
LEMMA OneMore ==
  ASSUME Types, NEW b \in Byte, input' = Append(input, b)
  PROVE  /\ input' \in Seq(Byte) /\ Len(input') = Len(input) + 1 /\ Len(input) \in Nat
         /\ input'[Len(input) + 1] = b
         /\ \A k \in 1..Len(input) : input'[k] = input[k]
BY DEF Types

LEMMA TypesStep == Types /\ [Next]_vars => Types'
<1> SUFFICES ASSUME Types, [Next]_vars PROVE Types'
  OBVIOUS
<1> USE Bytes
<1>1. CASE UNCHANGED vars
  BY <1>1 DEF vars, Types
<1>2. CASE RecvFails
  BY <1>2 DEF RecvFails, Types
<1>3. CASE NextRequest
  BY <1>3 DEF NextRequest, Types
<1>4. ASSUME NEW b \in Byte, Recv(b) PROVE Types'
  <2>1. input' \in Seq(Byte) /\ served' = served
    BY <1>4, OneMore DEF Recv
  <2>2. CASE RecvMethod(b)
    BY <2>1, <2>2 DEF RecvMethod, Error, Types
  <2>3. CASE RecvUrl(b)
    <3>1. req_uri' = req_uri \/ \E x \in Byte \union {NUL} : req_uri' = [req_uri EXCEPT ![recv_num] = x]
      BY <2>3 DEF RecvUrl, Error
    <3>2. req_uri' \in [0..UriLimit - 1 -> Byte \union {NUL}]
      BY <3>1 DEF Types
    <3>3. /\ recv_num' \in Nat
          /\ state' \in {"method", "url", "version", "done", "ok", "error", "closed"}
      BY <2>3 DEF RecvUrl, Error, Types
    <3> QED BY <2>1, <3>2, <3>3 DEF Types
  <2>4. CASE RecvVersion(b)
    BY <2>1, <2>4 DEF RecvVersion, Error, Types
  <2>5. CASE RecvDone(b)
    BY <2>1, <2>5 DEF RecvDone, Error, Types
  <2> QED BY <1>4, <2>2, <2>3, <2>4, <2>5 DEF Recv
<1> QED BY <1>1, <1>2, <1>3, <1>4 DEF Next

-----------------------------------------------------------------------------
\* A line of the reference that begins with what was read has its spaces where the
\* bytes read have theirs.  One operator for the positions of a line:
LineAt(line, i, j) ==
  LET n == Len(line) IN
    /\ i \in 1..n /\ j \in 1..n /\ i < j /\ j < n - 1
    /\ line[i] = "SP" /\ line[j] = "SP" /\ line[n - 1] = "CR" /\ line[n] = "LF"
    /\ \A k \in (1..n - 2) \ {i, j} : line[k] \in Valid
    /\ j - i - 1 <= UriLimit - 2

\* What was read, with the byte b that is refused, is a prefix p of the line.
LEMMA Refuses ==
  ASSUME Types, NEW b \in Byte, input' = Append(input, b),
         \A line \in Seq(Byte), i, j \in Nat :
           LineAt(line, i, j) /\ Len(line) > Len(input)
             /\ (\A k \in 1..Len(input) : line[k] = input[k]) /\ line[Len(input) + 1] = b
           => FALSE
  PROVE  Hopeless'
<1> SUFFICES ASSUME NEW e \in Seq(Byte), IsRequestLine(input' \o e) PROVE FALSE
  BY DEF Hopeless, IsRequestLine
<1> DEFINE line == input' \o e
<1>1. /\ line \in Seq(Byte) /\ Len(line) > Len(input) /\ line[Len(input) + 1] = b
      /\ \A k \in 1..Len(input) : line[k] = input[k]
  BY OneMore
<1>2. \E i, j \in 1..Len(line) : LineAt(line, i, j)
  BY DEF IsRequestLine, LineAt
<1> HIDE DEF line
<1> QED BY <1>1, <1>2

\* The next byte of the method, or the space behind it.
LEMMA MethodStep ==
  ASSUME IInv, NEW b \in Byte, input' = Append(input, b), RecvMethod(b)
  PROVE  Shape'
<1> USE Bytes DEF IInv
<1>1. /\ PlainBut({}) /\ recv_num = Len(input) /\ Len(input) \in Nat
  BY DEF RecvMethod, Shape, Types
<1>2. CASE b \in MethodBytes /\ recv_num' = recv_num + 1 /\ state' = "method"
  BY <1>1, <1>2, OneMore DEF Shape, PlainBut
<1>3. CASE b = "SP" /\ recv_num' = 0 /\ state' = "url"
  <2>0. PICK i \in Nat : i = Len(input) + 1
    BY <1>1
  <2>1. i \in 1..Len(input') /\ input'[i] = "SP" /\ recv_num' = Len(input') - i
    BY <1>1, <1>3, <2>0, OneMore
  <2>2. \A k \in 1..Len(input') : k # i => input'[k] \in Valid
    BY <1>1, <2>0, OneMore DEF PlainBut
  <2>3. UriFrom(i)'
    BY <1>3, <2>1, <2>2 DEF UriFrom, PlainBut
  <2> QED BY <1>3, <2>3, RequestLineAssumption DEF Shape
<1>4. CASE b \in Other \ {"SP"} /\ Error
  <2>1. Hopeless'
    <3> SUFFICES ASSUME NEW line \in Seq(Byte), NEW i \in Nat, NEW j \in Nat, LineAt(line, i, j),
                        Len(line) > Len(input), line[Len(input) + 1] = b,
                        \A k \in 1..Len(input) : line[k] = input[k]
                 PROVE  FALSE
      BY Refuses
    <3>1. \A k \in 1..Len(input) : line[k] \in Valid
      BY <1>1 DEF PlainBut
    <3>2. i > Len(input) + 1
      BY <1>4, <3>1 DEF LineAt, Other
    <3> QED BY <1>4, <3>2 DEF LineAt, Other
  <2> QED BY <1>4, <2>1 DEF Error, Shape
<1> QED BY <1>2, <1>3, <1>4 DEF RecvMethod

\* The next byte of the URI, the space behind it, or no room for either.
LEMMA UrlStep ==
  ASSUME IInv, NEW b \in Byte, input' = Append(input, b), RecvUrl(b)
  PROVE  Shape'
<1> USE Bytes DEF IInv
<1>1. PICK i \in Nat : UriFrom(i) /\ recv_num < UriLimit
  BY DEF RecvUrl, Shape
<1>2. recv_num \in Nat /\ Len(input) \in Nat /\ UriLimit \in Nat
  BY RequestLineAssumption DEF Types
<1>3. CASE /\ b \in UriBytes /\ recv_num + 1 < UriLimit /\ state' = "url"
           /\ req_uri' = [req_uri EXCEPT ![recv_num] = b] /\ recv_num' = recv_num + 1
  <2>1. /\ req_uri'[recv_num] = b
        /\ \A k \in 1..recv_num : req_uri'[k - 1] = req_uri[k - 1]
    BY <1>2, <1>3 DEF Types
  <2>2. \A k \in 1..recv_num' : req_uri'[k - 1] = input'[i + k]
    BY <1>1, <1>2, <1>3, <2>1, OneMore DEF UriFrom
  <2>3. UriFrom(i)'
    BY <1>1, <1>2, <1>3, <2>2, OneMore DEF UriFrom, PlainBut
  <2> QED BY <1>1, <1>2, <1>3, <2>3 DEF Shape
<1>4. CASE /\ b = "SP" /\ recv_num + 1 < UriLimit /\ state' = "version"
           /\ req_uri' = [req_uri EXCEPT ![recv_num] = NUL]
  <2>0. PICK j \in Nat : j = Len(input) + 1
    BY <1>2
  <2>1. /\ req_uri'[recv_num] = NUL
        /\ \A k \in 1..recv_num : req_uri'[k - 1] = req_uri[k - 1]
    BY <1>2, <1>4 DEF Types
  <2>2. j - i - 1 = recv_num /\ i < j
    BY <1>1, <1>2, <2>0 DEF UriFrom
  <2>3. /\ i \in Nat \ {0} /\ j \in 1..Len(input') /\ recv_num <= UriLimit - 2
        /\ input'[i] = "SP" /\ input'[j] = "SP"
    BY <1>1, <1>2, <1>4, <2>0, OneMore DEF UriFrom
  <2>4. \A k \in 1..recv_num : req_uri'[k - 1] = input'[i + k]
    BY <1>1, <1>2, <2>1, OneMore DEF UriFrom
  <2>5. \A k \in 1..Len(input') : k \notin {i, j} => input'[k] \in Valid
    BY <1>1, <2>0, OneMore DEF UriFrom, PlainBut
  <2>6. InVersion(i, j)'
    BY <2>1, <2>2, <2>3, <2>4, <2>5 DEF InVersion, UriIn, PlainBut
  <2> QED BY <1>4, <2>2, <2>6 DEF Shape
<1>5. CASE /\ b \in UriBytes \union Other /\ (b \in Other \ {"SP"} \/ recv_num + 1 >= UriLimit)
           /\ Error
  <2>1. Hopeless'
    <3> SUFFICES ASSUME NEW line \in Seq(Byte), NEW v \in Nat, NEW w \in Nat, LineAt(line, v, w),
                        Len(line) > Len(input), line[Len(input) + 1] = b,
                        \A k \in 1..Len(input) : line[k] = input[k]
                 PROVE  FALSE
      BY Refuses
    <3>1. \A k \in 1..Len(input) : k # i => line[k] \in Valid
      BY <1>1 DEF PlainBut, UriFrom
    <3>2. line[i] = "SP" /\ i \in 1..Len(input) /\ recv_num = Len(input) - i
      BY <1>1 DEF UriFrom
    <3>3. i < Len(line) - 1
      BY <3>1, <3>2 DEF LineAt, Other
    <3>4. i = v
      BY <3>1, <3>2, <3>3 DEF LineAt, Other
    <3>5. w > Len(input)
      BY <3>1, <3>4 DEF LineAt, Other
    <3>6. CASE b \in Other \ {"SP"}
      BY <3>5, <3>6 DEF LineAt, Other
    <3>7. CASE recv_num + 1 >= UriLimit
      BY <1>2, <3>2, <3>4, <3>5, <3>7 DEF LineAt
    <3> QED BY <1>5, <3>6, <3>7
  <2> QED BY <1>5, <2>1 DEF Error, Shape
<1> QED BY <1>3, <1>4, <1>5 DEF RecvUrl

\* The next byte of the version, or the CR behind it.
LEMMA VersionStep ==
  ASSUME IInv, NEW b \in Byte, input' = Append(input, b), RecvVersion(b)
  PROVE  Shape'
<1> USE Bytes DEF IInv
<1>1. PICK i \in Nat, j \in Nat : InVersion(i, j)
  BY DEF RecvVersion, Shape
<1>2. CASE b \in VersionBytes /\ state' = "version" /\ req_uri' = req_uri
  <2>1. InVersion(i, j)'
    BY <1>1, <1>2, OneMore DEF InVersion, UriIn, PlainBut
  <2> QED BY <1>2, <2>1 DEF Shape
<1>3. CASE b = "CR" /\ state' = "done" /\ req_uri' = req_uri
  <2>1. InDone(i, j)'
    BY <1>1, <1>3, OneMore DEF InVersion, InDone, UriIn, PlainBut
  <2> QED BY <1>3, <2>1 DEF Shape
<1>4. CASE b \in Other \ {"CR"} /\ Error
  <2>1. Hopeless'
    <3> SUFFICES ASSUME NEW line \in Seq(Byte), NEW v \in Nat, NEW w \in Nat, LineAt(line, v, w),
                        Len(line) > Len(input), line[Len(input) + 1] = b,
                        \A k \in 1..Len(input) : line[k] = input[k]
                 PROVE  FALSE
      BY Refuses
    <3>1. /\ \A k \in 1..Len(input) : k \notin {i, j} => line[k] \in Valid
          /\ line[i] = "SP" /\ line[j] = "SP" /\ i \in 1..Len(input) /\ j \in 1..Len(input)
          /\ i < j
      BY <1>1 DEF PlainBut, InVersion, UriIn
    <3>2. j < Len(line) - 1
      BY <3>1 DEF LineAt, Other
    <3>3. i = v /\ j = w
      BY <3>1, <3>2 DEF LineAt, Other
    <3> QED BY <1>4, <3>1, <3>3 DEF LineAt, Other
  <2> QED BY <1>4, <2>1 DEF Error, Shape
<1> QED BY <1>2, <1>3, <1>4 DEF RecvVersion

\* The LF behind the CR.
LEMMA DoneStep ==
  ASSUME IInv, NEW b \in Byte, input' = Append(input, b), RecvDone(b)
  PROVE  Shape'
<1> USE Bytes DEF IInv
<1>1. PICK i \in Nat, j \in Nat : InDone(i, j)
  BY DEF RecvDone, Shape
<1>2. CASE b = "LF" /\ state' = "ok" /\ req_uri' = req_uri
  <2>1. InOk(i, j)'
    <3>1. UriIn(i, j)'
      BY <1>1, <1>2, OneMore DEF InDone, UriIn
    <3>2. PlainBut({i, j, Len(input) - 1, Len(input)})'
      BY <1>1, <1>2, OneMore DEF InDone, PlainBut
    <3>3. /\ j < Len(input') - 1 /\ input'[Len(input') - 1] = "CR"
          /\ input'[Len(input')] = "LF"
      BY <1>1, <1>2, OneMore DEF InDone, UriIn
    <3> QED BY <3>1, <3>2, <3>3 DEF InOk
  <2> QED BY <1>2, <2>1 DEF Shape
<1>3. CASE b \in Byte \ {"LF"} /\ Error
  <2>1. Hopeless'
    <3> SUFFICES ASSUME NEW line \in Seq(Byte), NEW v \in Nat, NEW w \in Nat, LineAt(line, v, w),
                        Len(line) > Len(input), line[Len(input) + 1] = b,
                        \A k \in 1..Len(input) : line[k] = input[k]
                 PROVE  FALSE
      BY Refuses
    <3>1. line[Len(input)] = "CR" /\ Len(input) > 1 /\ Len(input) \in Nat
      BY <1>1 DEF InDone, UriIn
    <3> QED BY <1>3, <3>1 DEF LineAt, Other
  <2> QED BY <1>3, <2>1 DEF Error, Shape
<1> QED BY <1>2, <1>3 DEF RecvDone

\* The invariant is inductive.
THEOREM ShapeInvariant == Spec => []IInv
<1>1. Init => IInv
  BY RequestLineAssumption DEF Init, IInv, Types, Shape, PlainBut
<1>2. IInv /\ [Next]_vars => IInv'
  <2> SUFFICES ASSUME IInv, [Next]_vars PROVE Shape'
    BY TypesStep DEF IInv
  <2>1. CASE UNCHANGED vars
    BY <2>1 DEF vars, IInv, Shape, PlainBut, UriFrom, UriIn, InVersion, InDone, InOk, Hopeless
  <2>2. CASE RecvFails
    BY <2>2 DEF RecvFails, Shape
  <2>3. CASE NextRequest
    BY <2>3 DEF NextRequest, Shape, PlainBut
  <2>4. ASSUME NEW b \in Byte, Recv(b) PROVE Shape'
    BY <2>4, MethodStep, UrlStep, VersionStep, DoneStep DEF Recv
  <2> QED BY <2>1, <2>2, <2>3, <2>4 DEF Next
<1> QED BY <1>1, <1>2, PTL DEF Spec

-----------------------------------------------------------------------------
\* No byte of a URI is written behind the end of req_uri, however long the URI.
THEOREM UriFitsAlways == Spec => []UriFits
<1>1. IInv => UriFits
  BY DEF IInv, Shape, UriFits
<1> QED BY <1>1, ShapeInvariant, PTL

\* read_request_line accepts exactly the lines of the reference, and refuses a byte
\* only where nothing that may follow makes one.
THEOREM AcceptsExactlyLinesAlways == Spec => []AcceptsExactlyLines
<1>1. IInv => AcceptsExactlyLines
  <2> SUFFICES ASSUME IInv PROVE AcceptsExactlyLines
    OBVIOUS
  <2>1. ASSUME state = "ok" PROVE IsRequestLine(input)
    <3>1. PICK i \in Nat, j \in Nat : InOk(i, j)
      BY <2>1 DEF IInv, Shape
    <3>2. /\ i \in 1..Len(input) /\ j \in 1..Len(input) /\ i < j /\ j < Len(input) - 1
          /\ input[i] = "SP" /\ input[j] = "SP" /\ j - i - 1 <= UriLimit - 2
          /\ input[Len(input) - 1] = "CR" /\ input[Len(input)] = "LF"
      BY <3>1 DEF InOk, UriIn
    <3>3. \A k \in (1..Len(input) - 2) \ {i, j} : input[k] \in Valid
      BY <3>1 DEF InOk, PlainBut
    <3> QED BY <3>2, <3>3 DEF IsRequestLine
  <2>2. Endings \subseteq Seq(Byte)
    BY DEF Endings, Byte, Other
  <2> QED BY <2>1, <2>2 DEF IInv, Shape, Hopeless, AcceptsExactlyLines
<1> QED BY <1>1, ShapeInvariant, PTL

\* Where the spaces of an accepted line are.
LEMMA Spaces ==
  ASSUME Types, NEW i \in Nat, NEW j \in Nat, InOk(i, j)
  PROVE  Space1 = i /\ Space2 = j
<1>1. /\ i \in 1..Len(input) /\ j \in i + 1..Len(input) /\ j < Len(input) - 1
      /\ input[i] = "SP" /\ input[j] = "SP"
      /\ \A k \in 1..Len(input) : k \notin {i, j} => input[k] # "SP"
  BY Bytes DEF InOk, UriIn, PlainBut, Other, Types
<1>2. Space1 = i
  BY <1>1 DEF Space1
<1>3. Space2 = j
  BY <1>1, <1>2 DEF Space2
<1> QED BY <1>2, <1>3

\* What do_call finds in req_uri is the URI of this request, and nothing of an earlier
\* one that was longer.
THEOREM UriIsTokenAlways == Spec => []UriIsToken
<1>1. IInv => UriIsToken
  <2> SUFFICES ASSUME IInv, state = "ok" PROVE UriIsToken
    BY DEF UriIsToken
  <2>1. PICK i \in Nat, j \in Nat : InOk(i, j)
    BY DEF IInv, Shape
  <2>2. Space1 = i /\ Space2 = j
    BY <2>1, Spaces DEF IInv
  <2>3. /\ Len(UriToken) = j - i - 1
        /\ \A k \in 1..j - i - 1 : UriToken[k] = input[i + k]
    BY <2>1, <2>2 DEF UriToken, InOk, UriIn, IInv, Types
  <2> QED BY <2>1, <2>3 DEF InOk, UriIn, UriIsToken
<1> QED BY <1>1, ShapeInvariant, PTL

-----------------------------------------------------------------------------
LEMMA Uppers ==
  /\ Upper(NUL) \notin {"G", "E", "T"} /\ Upper("SP") \notin {"G", "E", "T"}
  /\ \A k \in 1..3 : <<"G", "E", "T">>[k] \in {"G", "E", "T"}
BY DEF Upper, NUL

\* The buffer keeps its length and its bytes.
LEMMA BufferStep ==
  ASSUME Types, recv_buffer \in [BufferIndex -> Byte \union {NUL}], NEW b \in Byte, Recv(b)
  PROVE  recv_buffer' \in [BufferIndex -> Byte \union {NUL}]
<1>1. \/ recv_buffer' = recv_buffer
      \/ \E n : \E x \in Byte \union {NUL} : recv_buffer' = [recv_buffer EXCEPT ![n] = x]
  <2>1. CASE RecvMethod(b) \/ RecvUrl(b) \/ RecvDone(b)
    BY <2>1 DEF RecvMethod, RecvUrl, RecvDone, Error
  <2>2. CASE RecvVersion(b)
    <3>1. \/ EndVersion(recv_buffer, recv_num) = recv_buffer
          \/ EndVersion(recv_buffer, recv_num) = [recv_buffer EXCEPT ![recv_num] = NUL]
      BY DEF EndVersion
    <3> QED BY <2>2, <3>1 DEF RecvVersion, Error
  <2> QED BY <2>1, <2>2 DEF Recv
<1> QED BY <1>1

\* A method that is found to be GET was sent as GET, in the first request.
LEMMA GetWasSent ==
  ASSUME IInv, Fresh, served = 0, state = "method", ParseMethod(recv_buffer) = "GET"
  PROVE  Len(input) >= 3 /\ \A k \in 1..3 : Upper(input[k]) = <<"G", "E", "T">>[k]
<1>1. /\ \A k \in BufferIndex : recv_buffer[k] = IF k < recv_num THEN input[k + 1] ELSE NUL
      /\ recv_num = Len(input) /\ Len(input) \in Nat
  BY DEF IInv, Types, Fresh, Shape
<1>2. 0 \in BufferIndex /\ 1 \in BufferIndex /\ 2 \in BufferIndex
  BY RequestLineAssumption DEF BufferIndex
<1>3. \A k \in 0..2 : Upper(recv_buffer[k]) = <<"G", "E", "T">>[k + 1]
  BY DEF ParseMethod, PrefixOf3
<1>4. \A k \in 0..2 : Upper(recv_buffer[k]) \in {"G", "E", "T"}
  BY <1>3
<1>5. recv_buffer[2] # NUL
  BY <1>4, Uppers
<1>6. Len(input) >= 3
  BY <1>1, <1>2, <1>5
<1>7. /\ recv_buffer[0] = input[1] /\ recv_buffer[1] = input[2] /\ recv_buffer[2] = input[3]
  BY <1>1, <1>2, <1>6
<1>8. Upper(input[1]) = "G" /\ Upper(input[2]) = "E" /\ Upper(input[3]) = "T"
  BY <1>3, <1>7
<1> QED BY <1>6, <1>8

LEMMA FreshStep == IInv /\ Fresh /\ [Next]_vars => Fresh'
<1> SUFFICES ASSUME IInv, Fresh, [Next]_vars PROVE Fresh'
  OBVIOUS
<1>1. CASE UNCHANGED vars
  BY <1>1 DEF vars, Fresh
<1>2. CASE RecvFails
  BY <1>2 DEF RecvFails, Fresh
<1>3. CASE NextRequest
  BY <1>3 DEF NextRequest, Fresh, IInv, Types
<1>4. ASSUME NEW b \in Byte, Recv(b) PROVE Fresh'
  <2>1. /\ recv_buffer' \in [BufferIndex -> Byte \union {NUL}] /\ served' = served
        /\ input' = Append(input, b)
    BY <1>4, BufferStep DEF Recv, IInv, Fresh
  <2>2. /\ Len(input') = Len(input) + 1 /\ Len(input) \in Nat /\ input'[Len(input) + 1] = b
        /\ \A k \in 1..Len(input) : input'[k] = input[k]
    BY <2>1, OneMore DEF IInv
  <2>3. CASE RecvUrl(b) \/ RecvVersion(b) \/ RecvDone(b)
    <3>1. method' = method /\ state' # "method"
      BY <2>3 DEF RecvUrl, RecvVersion, RecvDone, Error
    <3> QED BY <2>1, <2>2, <3>1 DEF Fresh
  <2>4. CASE RecvMethod(b)
    <3>1. CASE /\ b \in MethodBytes /\ recv_num < MaxMethod /\ recv_num' = recv_num + 1
               /\ recv_buffer' = [recv_buffer EXCEPT ![recv_num] = b]
               /\ UNCHANGED <<state, method>> /\ state = "method"
      <4>1. ASSUME served = 0
            PROVE  \A k \in BufferIndex :
                     recv_buffer'[k] = IF k < recv_num' THEN input'[k + 1] ELSE NUL
        <5>1. /\ \A k \in BufferIndex :
                   recv_buffer[k] = IF k < recv_num THEN input[k + 1] ELSE NUL
              /\ recv_num = Len(input)
          BY <3>1, <4>1 DEF Fresh, IInv, Shape
        <5>2. \A k \in BufferIndex : recv_buffer'[k] = IF k = recv_num THEN b ELSE recv_buffer[k]
          BY <3>1 DEF Fresh
        <5>3. BufferIndex \subseteq Nat
          BY DEF BufferIndex
        <5>4. ASSUME NEW k \in BufferIndex
              PROVE  recv_buffer'[k] = IF k < Len(input) + 1 THEN input'[k + 1] ELSE NUL
          <6>1. CASE k < Len(input)
            <7>1. k + 1 \in 1..Len(input)
              BY <2>2, <5>3, <6>1
            <7> QED BY <2>2, <5>1, <5>2, <5>3, <6>1, <7>1
          <6>2. CASE k = Len(input)
            BY <2>2, <5>1, <5>2, <6>2
          <6>3. CASE k > Len(input)
            BY <2>2, <5>1, <5>2, <5>3, <6>3
          <6> QED BY <2>2, <5>3, <6>1, <6>2, <6>3
        <5> QED BY <3>1, <5>1, <5>4
      <4>2. recv_num' <= MaxMethod /\ method' = "none" /\ state' = "method"
        BY <3>1, RequestLineAssumption DEF Fresh, IInv, Types
      <4> QED BY <2>1, <4>1, <4>2 DEF Fresh
    <3>2. CASE /\ b = "SP" /\ method' = ParseMethod(recv_buffer) /\ state' = "url"
               /\ state = "method"
      <4>1. ASSUME served = 0, method' = "GET"
            PROVE  Len(input') >= 4 /\ \A k \in 1..3 : Upper(input'[k]) = <<"G", "E", "T">>[k]
        <5>1. Len(input) >= 3 /\ \A k \in 1..3 : Upper(input[k]) = <<"G", "E", "T">>[k]
          BY <3>2, <4>1, GetWasSent
        <5>2. \A k \in 1..3 : input'[k] = input[k]
          BY <2>2, <5>1
        <5> QED BY <2>2, <5>1, <5>2
      <4> QED BY <2>1, <3>2, <4>1 DEF Fresh
    <3>3. CASE Error /\ state = "method"
      BY <2>1, <3>3 DEF Error, Fresh
    <3> QED BY <2>4, <3>1, <3>2, <3>3 DEF RecvMethod
  <2> QED BY <1>4, <2>3, <2>4 DEF Recv
<1> QED BY <1>1, <1>2, <1>3, <1>4 DEF Next

\* The first request read into a pair of buffers is served as GET only if it begins with
\* these three letters, although parse_method does not look at the length.  (For later
\* requests this is false: the run request_stale.)
THEOREM FirstServedAsGetAlways == Spec => []FirstServedAsGet
<1>1. Init => Fresh
  BY RequestLineAssumption DEF Init, Fresh
<1>2. IInv /\ Fresh => FirstServedAsGet
  <2> SUFFICES ASSUME IInv, Fresh, served = 0, state = "ok", method = "GET"
               PROVE  /\ Len(MethodToken) >= 3
                      /\ \A k \in 1..3 : Upper(MethodToken[k]) = <<"G", "E", "T">>[k]
    BY DEF FirstServedAsGet, ServedAsGet
  <2>1. PICK i \in Nat, j \in Nat : InOk(i, j)
    BY DEF IInv, Shape
  <2>2. Space1 = i /\ i \in 1..Len(input) /\ input[i] = "SP"
    BY <2>1, Spaces DEF IInv, InOk, UriIn
  <2>3. \A k \in 1..3 : Upper(input[k]) = <<"G", "E", "T">>[k]
    BY DEF Fresh
  <2>4. i > 3
    BY <2>2, <2>3, Uppers
  <2>5. Len(MethodToken) = i - 1 /\ \A k \in 1..3 : MethodToken[k] = input[k]
    BY <2>2, <2>4 DEF MethodToken, IInv, Types
  <2> QED BY <2>2, <2>3, <2>4, <2>5
<1> QED BY <1>1, <1>2, ShapeInvariant, FreshStep, PTL DEF Spec
-----------------------------------------------------------------------------
\* A set of numbers that is not empty has a least one.
LEMMA LeastOf ==
  ASSUME NEW T, T \subseteq Nat, T # {}
  PROVE  \E x \in T : \A y \in T : x <= y
<1> DEFINE R == OpToRel(<, Nat)
<1>1. PICK x \in T : \A y \in T : ~ (<<y, x>> \in R)
  <2>1. IsWellFoundedOn(R, Nat)
    BY NatLessThanWellFounded
  <2> HIDE DEF R
  <2> QED BY <2>1, WFMin
<1>2. ASSUME NEW y \in T PROVE x <= y
  <2>1. ~ (<<y, x>> \in R)
    BY <1>1
  <2>2. y \in Nat /\ x \in Nat
    BY <1>1
  <2>3. ~ (y < x)
    BY <2>1, <2>2 DEF OpToRel
  <2> QED BY <2>2, <2>3
<1> QED BY <1>2

\* f is the first place of the byte b from a position on, or n if there is none.
FirstOf(b, buf, from, n, f) ==
  \/ f = n /\ \A k \in from..n - 1 : buf[k] # b
  \/ f \in from..n - 1 /\ buf[f] = b /\ \A k \in from..f - 1 : buf[k] # b

\* That is what Find returns.
LEMMA Found ==
  ASSUME NEW b, NEW buf, NEW from \in Nat, NEW n \in Nat
  PROVE  FirstOf(b, buf, from, n, Find(b, buf, from, n))
<1> USE DEF FirstOf
<1>1. CASE \A k \in from..n - 1 : buf[k] # b
  BY <1>1 DEF Find
<1>2. CASE \E k \in from..n - 1 : buf[k] = b
  <2> DEFINE T == {k \in from..n - 1 : buf[k] = b}
  <2>0. T \subseteq Nat /\ T # {}
    BY <1>2
  <2>1. PICK x \in T : \A y \in T : x <= y
    <3> HIDE DEF T
    <3> QED BY <2>0, LeastOf
  <2>2. x \in from..n - 1 /\ buf[x] = b /\ \A k \in from..x - 1 : buf[k] # b
    BY <2>1
  <2>3. Find(b, buf, from, n)
          = CHOOSE k \in from..n - 1 : buf[k] = b /\ \A m \in from..k - 1 : buf[m] # b
    BY <1>2 DEF Find
  <2> QED BY <2>2, <2>3
<1> QED BY <1>1, <1>2

\* The versions that are refused: whatever stands between the first '/' and the first '.'
\* after it is -1.  (At most one thing does.)
Refused(v) ==
  \A i, j \in 1..Len(v) :
    /\ i < j /\ v[i] = "/" /\ \A k \in 1..i - 1 : v[k] # "/"
    /\ v[j] = "." /\ \A k \in i + 1..j - 1 : v[k] # "."
    => MinusOne(SubSeq(v, i + 1, j - 1))

\* The bytes of the sequence v, as the first ones of a buffer.
Holds(buf, v) == \A k \in 1..Len(v) : buf[k - 1] = v[k]

\* strtol returns -1 for what the reference calls minus one.
LEMMA StrtolIsNumber ==
  ASSUME NEW S, NEW v \in Seq(S), NEW buf, Holds(buf, v),
         NEW i \in 1..Len(v), NEW j \in 1..Len(v), i < j
  PROVE  Strtol(buf, i, j - 1) = -1 <=> MinusOne(SubSeq(v, i + 1, j - 1))
<1>1. PICK u : u = SubSeq(v, i + 1, j - 1)
  OBVIOUS
<1>2. PICK l \in Nat : l = Len(v)
  OBVIOUS
<1>3. i \in 1..l /\ j \in 1..l
  BY <1>2
<1>4. Len(u) = j - 1 - i /\ \A m \in 1..j - 1 - i : u[m] = v[i + m]
  BY <1>1, <1>2, <1>3, SubSeqProperties
<1>5. ASSUME NEW m \in 1..j - 1 - i PROVE u[m] = buf[i + m - 1]
  <2>1. PICK k \in 1..l : k = i + m
    BY <1>2, <1>3
  <2>2. buf[k - 1] = v[k]
    BY <1>2, <2>1 DEF Holds
  <2>3. k - 1 = i + m - 1 /\ v[k] = v[i + m]
    BY <1>2, <1>3, <2>1
  <2> QED BY <1>4, <2>2, <2>3
<1>6. ASSUME IsMinusOne(buf, i, j - 1) PROVE MinusOne(u)
  <2>1. PICK k \in i + 1..j - 2 :
          /\ buf[i] = "-" /\ buf[k] = "1" /\ \A m \in i + 1..k - 1 : buf[m] = "0"
          /\ k + 1 < j - 1 => buf[k + 1] \notin Digit
    BY <1>3, <1>6 DEF IsMinusOne
  <2>2. PICK h \in 2..j - 1 - i : h = k - i + 1
    BY <1>3, <2>1
  <2>3. u[1] = "-" /\ u[h] = "1" /\ \A m \in 2..h - 1 : u[m] = "0"
    BY <1>3, <1>5, <2>1, <2>2
  <2>4. ASSUME h < Len(u) PROVE u[h + 1] \notin Digit
    <3>1. h + 1 \in 1..j - 1 - i /\ i + (h + 1) - 1 = k + 1 /\ k + 1 < j - 1
      BY <1>3, <1>4, <2>2, <2>4
    <3> QED BY <1>5, <2>1, <3>1
  <2> QED BY <1>4, <2>2, <2>3, <2>4 DEF MinusOne
<1>7. ASSUME MinusOne(u) PROVE IsMinusOne(buf, i, j - 1)
  <2>1. PICK h \in 2..j - 1 - i :
          /\ u[1] = "-" /\ u[h] = "1" /\ \A m \in 2..h - 1 : u[m] = "0"
          /\ h < j - 1 - i => u[h + 1] \notin Digit
    BY <1>4, <1>7 DEF MinusOne
  <2>2. PICK k \in i + 1..j - 2 : k = i + h - 1
    BY <1>3, <2>1
  <2>3. buf[i] = "-" /\ buf[k] = "1"
    BY <1>3, <1>5, <2>1, <2>2
  <2>4. ASSUME NEW m \in i + 1..k - 1 PROVE buf[m] = "0"
    <3>1. m - i + 1 \in 2..h - 1 /\ m - i + 1 \in 1..j - 1 - i /\ i + (m - i + 1) - 1 = m
      BY <1>3, <2>1, <2>2
    <3> QED BY <1>5, <2>1, <3>1
  <2>5. ASSUME k + 1 < j - 1 PROVE buf[k + 1] \notin Digit
    <3>1. h + 1 \in 1..j - 1 - i /\ i + (h + 1) - 1 = k + 1 /\ h < j - 1 - i
      BY <1>3, <2>1, <2>2, <2>5
    <3> QED BY <1>5, <2>1, <3>1
  <2> QED BY <1>3, <2>2, <2>3, <2>4, <2>5 DEF IsMinusOne
<1> QED BY <1>1, <1>6, <1>7 DEF Strtol

\* parse_version refuses exactly these.
LEMMA ParseRefuses ==
  ASSUME NEW S, NEW v \in Seq(S), NEW buf, Holds(buf, v), NEW n \in Nat, n = Len(v)
  PROVE  ParseVersion(buf, n) = -1 <=> Refused(v)
<1> DEFINE First(i) == v[i] = "/" /\ \A k \in 1..i - 1 : v[k] # "/"
           Then(i, j) == i < j /\ v[j] = "." /\ \A k \in i + 1..j - 1 : v[k] # "."
<1>1. Refused(v) <=> \A i, j \in 1..n : First(i) /\ Then(i, j) => MinusOne(SubSeq(v, i + 1, j - 1))
  BY DEF Refused
<1>2. \A k \in 1..n : buf[k - 1] = v[k]
  BY DEF Holds
<1>3. \A i, j \in 1..n : First(i) /\ First(j) => i = j
  OBVIOUS
<1>4. \A i, j, k \in 1..n : Then(i, j) /\ Then(i, k) => j = k
  OBVIOUS
<1>5. PICK s : s = Slash(buf, n)
  OBVIOUS
<1>6. \/ s = n /\ \A k \in 0..n - 1 : buf[k] # "/"
      \/ s \in 0..n - 1 /\ buf[s] = "/" /\ \A k \in 0..s - 1 : buf[k] # "/"
  <2>1. s = Find("/", buf, 0, n)
    BY <1>5 DEF Slash
  <2>2. \/ s = n /\ \A k \in 0..n - 1 : buf[k] # "/"
        \/ s \in 0..n - 1 /\ buf[s] = "/" /\ \A k \in 0..s - 1 : buf[k] # "/"
    <3>1. 0 \in Nat
      OBVIOUS
    <3>2. FirstOf("/", buf, 0, n, s)
      BY <2>1, <3>1, Found
    <3> QED BY <3>2 DEF FirstOf
  <2> QED BY <2>2
<1>7. PICK d : d = Dot(buf, n)
  OBVIOUS
<1>8. \/ d = n /\ \A k \in s + 1..n - 1 : buf[k] # "."
      \/ d \in s + 1..n - 1 /\ buf[d] = "." /\ \A k \in s + 1..d - 1 : buf[k] # "."
  <2>1. s + 1 \in Nat
    BY <1>6
  <2>2. d = Find(".", buf, s + 1, n)
    BY <1>5, <1>7 DEF Dot
  <2>3. FirstOf(".", buf, s + 1, n, d)
    BY <2>1, <2>2, Found
  <2> QED BY <2>3 DEF FirstOf
<1>9. ParseVersion(buf, n) = IF d < n THEN Strtol(buf, s + 1, d) ELSE -1
  BY <1>5, <1>7 DEF ParseVersion
<1>13. ASSUME NEW i \in 1..n, s \in 0..n - 1, i = s + 1 PROVE First(i)
  <2>1. v[i] = "/"
    BY <1>2, <1>6, <1>13
  <2>2. ASSUME NEW k \in 1..i - 1 PROVE v[k] # "/"
    <3>1. k - 1 \in 0..s - 1 /\ k \in 1..n
      BY <1>13
    <3> QED BY <1>2, <1>6, <1>13, <3>1
  <2> QED BY <2>1, <2>2
<1>10. CASE s = n
  <2>1. d = n
    BY <1>8, <1>10
  <2>2. ASSUME NEW i \in 1..n PROVE ~ First(i)
    <3>1. i - 1 \in 0..n - 1
      OBVIOUS
    <3> QED BY <1>2, <1>6, <1>10, <3>1
  <2> QED BY <1>1, <1>9, <2>1, <2>2
<1>11. CASE s \in 0..n - 1 /\ d = n
  <2>1. PICK i \in 1..n : i = s + 1
    BY <1>11
  <2>2. First(i)
    BY <1>13, <1>11, <2>1
  <2>3. ASSUME NEW j \in 1..n PROVE ~ Then(i, j)
    <3>1. i < j => j - 1 \in s + 1..n - 1
      BY <1>11, <2>1
    <3> QED BY <1>2, <1>8, <1>11, <3>1
  <2>4. Refused(v)
    <3> HIDE DEF First, Then
    <3> QED BY <1>1, <1>3, <2>2, <2>3
  <2> QED BY <1>9, <1>11, <2>4
<1>12. CASE s \in 0..n - 1 /\ d \in s + 1..n - 1
  <2>1. PICK i \in 1..n : i = s + 1
    BY <1>12
  <2>2. PICK j \in 1..n : j = d + 1
    BY <1>12
  <2>3. First(i)
    BY <1>13, <1>12, <2>1
  <2>4. Then(i, j)
    <3>1. v[j] = "." /\ i < j
      BY <1>2, <1>8, <1>12, <2>1, <2>2
    <3>2. ASSUME NEW k \in i + 1..j - 1 PROVE v[k] # "."
      <4>1. k - 1 \in s + 1..d - 1 /\ k \in 1..n
        BY <1>12, <2>1, <2>2
      <4> QED BY <1>2, <1>8, <4>1
    <3> QED BY <3>1, <3>2
  <2>5. Refused(v) <=> MinusOne(SubSeq(v, i + 1, j - 1))
    <3> HIDE DEF First, Then
    <3> QED BY <1>1, <1>3, <1>4, <2>3, <2>4
  <2>6. Strtol(buf, i, j - 1) = -1 <=> MinusOne(SubSeq(v, i + 1, j - 1))
    BY <2>4, StrtolIsNumber
  <2>7. ParseVersion(buf, n) = Strtol(buf, i, j - 1)
    BY <1>9, <1>12, <2>1, <2>2
  <2> QED BY <2>5, <2>6, <2>7
<1> QED BY <1>6, <1>8, <1>10, <1>11, <1>12

\* What was read behind the second space, which is at j, is in the buffer.
Kept(j) ==
  /\ recv_num = Len(input) - j /\ recv_num <= MaxVersion
  /\ \A k \in 1..recv_num : recv_buffer[k - 1] = input[j + k]

\* The version v stands behind j, up to the last e bytes; major is -1 if it is refused.
Parsed(v, j, e) ==
  /\ v \in Seq(Byte) /\ Len(v) = Len(input) - e - j
  /\ \A k \in 1..Len(v) : v[k] = input[j + k]
  /\ major = -1 <=> Refused(v)

\* The version of this request, whatever earlier ones have left in the buffer.
Version ==
  /\ state = "version" => \E i, j \in Nat : InVersion(i, j) /\ Kept(j)
  /\ state = "done" => \E i, j \in Nat : \E v \in Seq(Byte) : InDone(i, j) /\ Parsed(v, j, 1)
  /\ state = "ok" => \E i, j \in Nat : \E v \in Seq(Byte) : InOk(i, j) /\ Parsed(v, j, 2)

BufferTyped == recv_buffer \in [BufferIndex -> Byte \union {NUL}]

\* The space behind the URI: the version is empty so far.
LEMMA VersionStarts ==
  ASSUME IInv, IInv', NEW b \in Byte, input' = Append(input, b), b = "SP",
         state' = "version", recv_num' = 0
  PROVE  Version'
<1>1. PICK i \in Nat, j \in Nat : InVersion(i, j)'
  BY DEF IInv, Shape
<1>2. /\ Len(input') = Len(input) + 1 /\ Len(input) \in Nat
      /\ input'[Len(input')] = "SP"
  BY OneMore DEF IInv
<1>3. Len(input') \in {i, j}
  BY <1>1, <1>2, Bytes DEF InVersion, PlainBut, Other
<1>4. j = Len(input')
  BY <1>1, <1>2, <1>3 DEF InVersion, UriIn
<1>5. Kept(j)'
  BY <1>2, <1>4, RequestLineAssumption DEF Kept
<1> QED BY <1>1, <1>5 DEF Version

\* A further byte of the version.
LEMMA VersionGrows ==
  ASSUME IInv, Version, BufferTyped, NEW b \in Byte, input' = Append(input, b),
         state = "version", state' = "version", b \in VersionBytes, recv_num < MaxVersion,
         recv_buffer' = [recv_buffer EXCEPT ![recv_num] = b], recv_num' = recv_num + 1,
         req_uri' = req_uri
  PROVE  Version'
<1>1. PICK i \in Nat, j \in Nat : InVersion(i, j) /\ Kept(j)
  BY DEF Version
<1>2. InVersion(i, j)'
  BY <1>1, OneMore, Bytes DEF IInv, InVersion, UriIn, PlainBut
<1>3. recv_num \in Nat /\ Len(input) \in Nat /\ MaxVersion \in Nat /\ recv_num \in BufferIndex
  BY RequestLineAssumption DEF IInv, Types, BufferIndex
<1>4. /\ recv_buffer'[recv_num] = b
      /\ \A k \in 1..recv_num : recv_buffer'[k - 1] = recv_buffer[k - 1]
  BY <1>3 DEF BufferTyped
<1>5. j \in 1..Len(input) /\ Len(input') = Len(input) + 1 /\ input'[Len(input) + 1] = b
  BY <1>1, OneMore DEF IInv, InVersion, UriIn
<1>6. ASSUME NEW k \in 1..recv_num + 1 PROVE recv_buffer'[k - 1] = input'[j + k]
  <2>1. CASE k = recv_num + 1
    BY <1>1, <1>3, <1>4, <1>5, <2>1 DEF Kept
  <2>2. CASE k \in 1..recv_num
    <3>1. j + k \in 1..Len(input)
      BY <1>1, <1>3, <1>5, <2>2 DEF Kept
    <3>2. input'[j + k] = input[j + k]
      BY <3>1, OneMore DEF IInv
    <3> QED BY <1>1, <1>4, <2>2, <3>2 DEF Kept
  <2>3. k = recv_num + 1 \/ k \in 1..recv_num
    BY <1>3
  <2> QED BY <2>1, <2>2, <2>3
<1>7. Kept(j)'
  BY <1>1, <1>3, <1>5, <1>6 DEF Kept
<1> QED BY <1>2, <1>7 DEF Version

\* The CR behind the version: parse_version looks at it.
LEMMA VersionEnds ==
  ASSUME IInv, Version, NEW b \in Byte, input' = Append(input, b),
         state = "version", state' = "done", b = "CR", req_uri' = req_uri,
         major' = ParseVersion(recv_buffer, recv_num)
  PROVE  Version'
<1>1. PICK i \in Nat, j \in Nat : InVersion(i, j) /\ Kept(j)
  BY DEF Version
<1>2. InDone(i, j)'
  BY <1>1, OneMore, Bytes DEF IInv, InVersion, InDone, UriIn, PlainBut
<1>3. recv_num \in Nat /\ Len(input) \in Nat
  BY DEF IInv, Types
<1>4. j \in 1..Len(input) /\ Len(input') = Len(input) + 1
  BY <1>1, OneMore DEF IInv, InVersion, UriIn
<1>5. PICK v : v = SubSeq(input, j + 1, Len(input))
  OBVIOUS
<1>6. /\ v \in Seq(Byte) /\ Len(v) = recv_num
      /\ \A k \in 1..recv_num : v[k] = input[j + k]
  BY <1>1, <1>3, <1>4, <1>5, SubSeqProperties DEF IInv, Types, Kept
<1>7. PICK buf : buf = recv_buffer
  OBVIOUS
<1>8. Holds(buf, v)
  BY <1>1, <1>6, <1>7 DEF Holds, Kept
<1>9. PICK n \in Nat : n = recv_num
  BY <1>3
<1>10. ParseVersion(buf, n) = -1 <=> Refused(v)
  BY <1>6, <1>8, <1>9, ParseRefuses
<1>11. \A k \in 1..Len(v) : v[k] = input'[j + k]
  <2>1. \A k \in 1..recv_num : j + k \in 1..Len(input)
    BY <1>1, <1>3, <1>4 DEF Kept
  <2> QED BY <1>6, <2>1, OneMore DEF IInv
<1>12. Parsed(v, j, 1)'
  <2>1. major' = -1 <=> Refused(v)
    BY <1>7, <1>9, <1>10
  <2>2. Len(v) = Len(input') - 1 - j
    BY <1>1, <1>3, <1>4, <1>6 DEF Kept
  <2> QED BY <1>6, <1>11, <2>1, <2>2 DEF Parsed
<1> QED BY <1>2, <1>6, <1>12 DEF Version

\* The LF behind the CR.
LEMMA VersionStays ==
  ASSUME IInv, Version, NEW b \in Byte, input' = Append(input, b),
         state = "done", state' = "ok", b = "LF", req_uri' = req_uri, major' = major
  PROVE  Version'
<1>1. PICK i \in Nat, j \in Nat, v \in Seq(Byte) : InDone(i, j) /\ Parsed(v, j, 1)
  BY DEF Version
<1>2. InOk(i, j)'
  <2>1. UriIn(i, j)'
    BY <1>1, OneMore DEF IInv, InDone, UriIn
  <2>2. PlainBut({i, j, Len(input) - 1, Len(input)})'
    BY <1>1, OneMore DEF IInv, InDone, PlainBut
  <2>3. j < Len(input') - 1 /\ input'[Len(input') - 1] = "CR" /\ input'[Len(input')] = "LF"
    BY <1>1, OneMore DEF IInv, InDone, UriIn
  <2> QED BY <2>1, <2>2, <2>3 DEF InOk
<1>3. Len(input') = Len(input) + 1 /\ Len(input) \in Nat /\ Len(v) \in Nat
  BY <1>1, OneMore DEF IInv
<1>4. \A k \in 1..Len(v) : v[k] = input'[j + k]
  <2>1. \A k \in 1..Len(v) : j + k \in 1..Len(input)
    BY <1>1, <1>3 DEF Parsed
  <2> QED BY <1>1, <2>1, OneMore DEF IInv, Parsed
<1>5. Len(v) = Len(input') - 2 - j
  BY <1>1, <1>3 DEF Parsed
<1>6. Parsed(v, j, 2)'
  BY <1>1, <1>4, <1>5 DEF Parsed
<1> QED BY <1>1, <1>2, <1>6 DEF Version

LEMMA StepVersion ==
  ASSUME IInv, IInv', Version, BufferTyped, [Next]_vars
  PROVE  Version' /\ BufferTyped'
<1>1. CASE UNCHANGED vars
  BY <1>1 DEF vars, Version, BufferTyped, InVersion, InDone, InOk, UriIn, PlainBut, Kept, Parsed
<1>2. CASE RecvFails
  BY <1>2 DEF RecvFails, Version, BufferTyped
<1>3. CASE NextRequest
  BY <1>3 DEF NextRequest, Version, BufferTyped
<1>4. ASSUME NEW b \in Byte, Recv(b) PROVE Version' /\ BufferTyped'
  <2>1. BufferTyped' /\ input' = Append(input, b)
    BY <1>4, BufferStep DEF Recv, IInv, BufferTyped
  <2>2. CASE RecvMethod(b)
    <3>1. state' \in {"method", "url", "error"}
      BY <2>2 DEF RecvMethod, Error
    <3> QED BY <2>1, <3>1 DEF Version
  <2>3. CASE RecvUrl(b)
    <3>1. \/ state' \in {"url", "error"}
          \/ b = "SP" /\ state' = "version" /\ recv_num' = 0
      BY <2>3 DEF RecvUrl, Error
    <3>2. CASE state' \in {"url", "error"}
      BY <2>1, <3>2 DEF Version
    <3> QED BY <2>1, <3>1, <3>2, VersionStarts
  <2>4. CASE RecvVersion(b)
    <3>1. CASE /\ b \in VersionBytes /\ recv_num < MaxVersion
               /\ recv_buffer' = [recv_buffer EXCEPT ![recv_num] = b]
               /\ recv_num' = recv_num + 1 /\ UNCHANGED <<state, req_uri, method, major>>
      BY <2>1, <2>4, <3>1, VersionGrows DEF RecvVersion
    <3>2. CASE /\ b = "CR" /\ major' = ParseVersion(recv_buffer, recv_num)
               /\ state' = "done" /\ UNCHANGED <<req_uri, method>>
      BY <2>1, <2>4, <3>2, VersionEnds DEF RecvVersion
    <3>3. CASE Error
      BY <2>1, <3>3 DEF Error, Version
    <3> QED BY <2>4, <3>1, <3>2, <3>3 DEF RecvVersion
  <2>5. CASE RecvDone(b)
    <3>1. CASE b = "LF" /\ state' = "ok" /\ UNCHANGED <<recv_num, recv_buffer, req_uri, method, major>>
      BY <2>1, <2>5, <3>1, VersionStays DEF RecvDone
    <3>2. CASE Error
      BY <2>1, <3>2 DEF Error, Version
    <3> QED BY <2>5, <3>1, <3>2 DEF RecvDone
  <2> QED BY <1>4, <2>2, <2>3, <2>4, <2>5 DEF Recv
<1> QED BY <1>1, <1>2, <1>3, <1>4 DEF Next

\* The reference asks of all numbers between '/' and '.' what Refused asks of their places.
LEMMA MajorsRefused ==
  ASSUME NEW v \in Seq(Byte), v = VersionToken
  PROVE  (\A x \in Majors : MinusOne(x)) <=> Refused(v)
<1>1. ASSUME \A x \in Majors : MinusOne(x) PROVE Refused(v)
  <2> SUFFICES ASSUME NEW i \in 1..Len(v), NEW j \in 1..Len(v),
                      /\ i < j /\ v[i] = "/" /\ \A k \in 1..i - 1 : v[k] # "/"
                      /\ v[j] = "." /\ \A k \in i + 1..j - 1 : v[k] # "."
               PROVE  MinusOne(SubSeq(v, i + 1, j - 1))
    BY DEF Refused
  <2>1. PICK x : x = SubSeq(v, i + 1, j - 1)
    OBVIOUS
  <2>2. IsMajor(x)
    BY <2>1 DEF IsMajor
  <2>3. x \in {SubSeq(VersionToken, k, m) : k, m \in 1..Len(VersionToken)} \union {<<>>}
    <3>1. CASE i + 1 <= j - 1
      <4>1. PICK k \in 1..Len(v) : k = i + 1
        BY <3>1
      <4>2. PICK m \in 1..Len(v) : m = j - 1
        BY <3>1
      <4>3. \E a, c \in 1..Len(v) : x = SubSeq(v, a, c)
        BY <2>1, <4>1, <4>2
      <4> QED BY <4>3
    <3>2. CASE j - 1 < i + 1
      <4>1. x = <<>>
        BY <2>1, <3>2, SubSeqEmpty
      <4> QED BY <4>1
    <3> QED BY <3>1, <3>2
  <2>4. x \in Majors
    BY <2>2, <2>3 DEF Majors
  <2> QED BY <1>1, <2>1, <2>4
<1>2. ASSUME Refused(v), NEW x \in Majors PROVE MinusOne(x)
  <2>1. IsMajor(x)
    BY <1>2 DEF Majors
  <2> QED BY <1>2, <2>1 DEF IsMajor, Refused
<1> QED BY <1>1, <1>2

\* do_call answers 505 to exactly the versions without a '.' behind the first '/' and to
\* those with the number -1 between them, which it takes for a missing one; what an earlier
\* version left in the buffer plays no part.  (The model knows numbers that fit in an int.)
THEOREM VersionRefusedAlways == ASSUME MaxVersion < 12 PROVE Spec => []VersionRefused
<1>1. Init => Version /\ BufferTyped
  BY DEF Init, Version, BufferTyped
<1>2. IInv /\ IInv' /\ Version /\ BufferTyped /\ [Next]_vars => Version' /\ BufferTyped'
  BY StepVersion
<1>3. IInv /\ Version => VersionRefused
  <2> SUFFICES ASSUME IInv, Version, state = "ok"
               PROVE  major = -1 <=> \A x \in Majors : MinusOne(x)
    BY DEF VersionRefused
  <2>1. PICK i \in Nat, j \in Nat, v \in Seq(Byte) : InOk(i, j) /\ Parsed(v, j, 2)
    BY DEF Version
  <2>2. Space2 = j
    BY <2>1, Spaces DEF IInv
  <2>3. v = VersionToken
    <3>1. PICK u : u = SubSeq(input, j + 1, Len(input) - 2)
      OBVIOUS
    <3>2. j + 1 \in 1..Len(input) /\ Len(input) - 2 \in 1..Len(input) /\ j <= Len(input) - 2
      BY <2>1 DEF InOk, UriIn, IInv, Types
    <3>3. /\ u \in Seq(Byte) /\ Len(u) = Len(input) - 2 - j
          /\ \A k \in 1..Len(input) - 2 - j : u[k] = input[j + k]
      BY <3>1, <3>2, SubSeqProperties DEF IInv, Types
    <3>4. Len(v) = Len(u) /\ \A k \in 1..Len(v) : v[k] = u[k]
      BY <2>1, <3>3 DEF Parsed
    <3>5. v = u
      BY <3>3, <3>4, SeqEqual
    <3> QED BY <2>2, <3>1, <3>5 DEF VersionToken
  <2> QED BY <2>1, <2>3, MajorsRefused DEF Parsed
<1> QED BY <1>1, <1>2, <1>3, ShapeInvariant, PTL DEF Spec
=============================================================================
