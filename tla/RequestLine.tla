----------------------------- MODULE RequestLine -----------------------------
(***************************************************************************)
(* read_request_line of multi_server_thread_blocking_queue.c, byte by      *)
(* byte, with parse_method and parse_version.  A thread of the pool reads  *)
(* one request after the other into the same two buffers, which it         *)
(* allocated (and zeroed) once; the servers with one process or thread per *)
(* connection read a single request into them (MaxRequests = 1).           *)
(***************************************************************************)
EXTENDS Integers, Sequences, FiniteSets

CONSTANTS UriLimit,    \* URI_LIMIT, the size of req_uri (1024 in server.h)
          MaxMethod, MaxVersion,  \* bounds: the longest method and version a
                       \* client sends; both fit into recv_buffer (8192 bytes)
          MethodBytes, UriBytes, VersionBytes,  \* bytes clients send in each token
          MaxRequests  \* bound: the requests read into the same buffers

NUL == "NUL"
Other == {"SP", "CR", "LF", "bad"}    \* bytes for which is_valid is false
Valid == MethodBytes \union UriBytes \union VersionBytes

ASSUME RequestLineAssumption ==
  /\ UriLimit \in Nat /\ UriLimit >= 2 /\ MaxRequests \in Nat
  /\ MaxMethod \in Nat /\ MaxVersion \in Nat
  /\ Valid \intersect (Other \union {NUL}) = {}

Byte == Valid \union Other
BufferIndex == 0..MaxMethod + MaxVersion + 2

VARIABLES state,        \* the state of read_request_line, and its return
          recv_num,     \* the length of the current token
          recv_buffer,  \* the bytes of method or version, kept between requests
          req_uri, method, major,  \* the fields of struct req_line
          served,       \* the number of requests read before this one
          input         \* auxiliary: the bytes of this request

vars == <<state, recv_num, recv_buffer, req_uri, method, major, served, input>>

-----------------------------------------------------------------------------
Upper(b) == CASE b = "g" -> "G" [] b = "e" -> "E" [] b = "t" -> "T" [] OTHER -> b

\* strncasecmp(name, buf, 3) = 0 for a name of at least three letters.
PrefixOf3(name, buf) == \A i \in 0..2 : Upper(buf[i]) = name[i + 1]

\* Mutant: only the first byte is looked at.
ParseMethodFirstByte(buf) ==
  IF buf[0] = "G" THEN "GET" ELSE IF buf[0] = "P" THEN "POST" ELSE "OTHER"

\* parse_method: the first byte selects the name exactly, the first three are
\* compared without regard to case; the length n is not looked at.
ParseMethod(buf) ==
  IF buf[0] = "G" /\ PrefixOf3(<<"G", "E", "T">>, buf) THEN "GET"
  ELSE IF buf[0] = "P" /\ PrefixOf3(<<"P", "O", "S">>, buf) THEN "POST"
  ELSE "OTHER"

\* The least position from `from' on that holds b, or n.
Find(b, buf, from, n) ==
  IF \E i \in from..n - 1 : buf[i] = b
    THEN CHOOSE i \in from..n - 1 : buf[i] = b /\ \A j \in from..i - 1 : buf[j] # b
    ELSE n

\* strtol reads -1 from position `from' on: an optional sign, digits, and
\* whatever follows them is left alone.  do_call compares the major version
\* with -1 only, so every other number is 1 here; one that does not fit in an
\* int has ten digits or more: this is right for MaxVersion < 12.
Digit == {"0", "1", "2", "3", "4", "5", "6", "7", "8", "9"}
IsMinusOne(buf, from, to) ==
  /\ from < to /\ buf[from] = "-"
  /\ \E k \in from + 1..to - 1 :
       /\ buf[k] = "1" /\ \A i \in from + 1..k - 1 : buf[i] = "0"
       /\ k + 1 < to => buf[k + 1] \notin Digit
Strtol(buf, from, to) == IF IsMinusOne(buf, from, to) THEN -1 ELSE 1

Slash(buf, n) == Find("/", buf, 0, n)
Dot(buf, n) == Find(".", buf, Slash(buf, n) + 1, n)

\* Mutant: the '.' is searched from the start, '/' or not.
ParseVersionNoSlash(buf, n) ==
  IF Find(".", buf, 0, n) < n THEN Strtol(buf, Slash(buf, n) + 1, n) ELSE -1

\* parse_version: what stands between the first '/' and the first '.' after it
\* is the major version, -1 if there is no such '.'.  (minor is never used.)
ParseVersion(buf, n) ==
  IF Dot(buf, n) < n THEN Strtol(buf, Slash(buf, n) + 1, Dot(buf, n)) ELSE -1

\* parse_version ends the token with a null byte if anything follows the '.',
\* or the '/' when there is no '.'.
EndVersion(buf, n) ==
  LET cnt == IF Dot(buf, n) < n THEN Dot(buf, n) + 1
             ELSE IF Slash(buf, n) < n THEN Slash(buf, n) + 1 ELSE n
  IN  IF cnt < n THEN [buf EXCEPT ![n] = NUL] ELSE buf

-----------------------------------------------------------------------------
\* do_call before its loop: the buffers come from calloc.
Init == /\ state = "method" /\ recv_num = 0
        /\ recv_buffer = [i \in BufferIndex |-> NUL]
        /\ req_uri = [i \in 0..UriLimit - 1 |-> NUL]
        /\ method = "none" /\ major = 0
        /\ served = 0 /\ input = <<>>

\* A byte that the current state does not expect.
Error == state' = "error" /\ UNCHANGED <<recv_num, recv_buffer, req_uri, method, major>>

RecvMethod(b) ==
  /\ state = "method"
  /\ \/ /\ b \in MethodBytes /\ recv_num < MaxMethod
        /\ recv_buffer' = [recv_buffer EXCEPT ![recv_num] = b]
        /\ recv_num' = recv_num + 1
        /\ UNCHANGED <<state, req_uri, method, major>>
     \/ /\ b = "SP"
        /\ method' = ParseMethod(recv_buffer)
        /\ recv_num' = 0 /\ state' = "url"
        /\ UNCHANGED <<recv_buffer, req_uri, major>>
     \/ b \in Other \ {"SP"} /\ Error

\* Mutant: the limit is off by one.
RecvUrlOffByOne(b) ==
  /\ state = "url"
  /\ \/ /\ b \in UriBytes /\ recv_num < UriLimit
        /\ req_uri' = [req_uri EXCEPT ![recv_num] = b]
        /\ recv_num' = recv_num + 1
        /\ UNCHANGED <<state, recv_buffer, method, major>>
     \/ /\ b = "SP" /\ recv_num + 1 < UriLimit
        /\ req_uri' = [req_uri EXCEPT ![recv_num] = NUL]
        /\ recv_num' = 0 /\ state' = "version"
        /\ UNCHANGED <<recv_buffer, method, major>>
     \/ b \in UriBytes \union Other /\ (b \in Other \ {"SP"} \/ recv_num + 1 >= UriLimit) /\ Error

\* Mutant: the limit is too strict by one.
RecvUrlTooStrict(b) ==
  /\ state = "url"
  /\ \/ /\ b \in UriBytes /\ recv_num + 2 < UriLimit
        /\ req_uri' = [req_uri EXCEPT ![recv_num] = b]
        /\ recv_num' = recv_num + 1
        /\ UNCHANGED <<state, recv_buffer, method, major>>
     \/ /\ b = "SP" /\ recv_num + 2 < UriLimit
        /\ req_uri' = [req_uri EXCEPT ![recv_num] = NUL]
        /\ recv_num' = 0 /\ state' = "version"
        /\ UNCHANGED <<recv_buffer, method, major>>
     \/ b \in UriBytes \union Other /\ (b \in Other \ {"SP"} \/ recv_num + 2 >= UriLimit) /\ Error

\* Mutant: the URI is not ended by a null byte.
RecvUrlNoNul(b) ==
  /\ state = "url"
  /\ \/ /\ b \in UriBytes /\ recv_num + 1 < UriLimit
        /\ req_uri' = [req_uri EXCEPT ![recv_num] = b]
        /\ recv_num' = recv_num + 1
        /\ UNCHANGED <<state, recv_buffer, method, major>>
     \/ /\ b = "SP" /\ recv_num + 1 < UriLimit
        /\ UNCHANGED req_uri
        /\ recv_num' = 0 /\ state' = "version"
        /\ UNCHANGED <<recv_buffer, method, major>>
     \/ b \in UriBytes \union Other /\ (b \in Other \ {"SP"} \/ recv_num + 1 >= UriLimit) /\ Error

\* Both a further byte and the space that ends the URI need room for one more.
RecvUrl(b) ==
  /\ state = "url"
  /\ \/ /\ b \in UriBytes /\ recv_num + 1 < UriLimit
        /\ req_uri' = [req_uri EXCEPT ![recv_num] = b]
        /\ recv_num' = recv_num + 1
        /\ UNCHANGED <<state, recv_buffer, method, major>>
     \/ /\ b = "SP" /\ recv_num + 1 < UriLimit
        /\ req_uri' = [req_uri EXCEPT ![recv_num] = NUL]
        /\ recv_num' = 0 /\ state' = "version"
        /\ UNCHANGED <<recv_buffer, method, major>>
     \/ b \in UriBytes \union Other /\ (b \in Other \ {"SP"} \/ recv_num + 1 >= UriLimit) /\ Error

RecvVersion(b) ==
  /\ state = "version"
  /\ \/ /\ b \in VersionBytes /\ recv_num < MaxVersion
        /\ recv_buffer' = [recv_buffer EXCEPT ![recv_num] = b]
        /\ recv_num' = recv_num + 1
        /\ UNCHANGED <<state, req_uri, method, major>>
     \/ /\ b = "CR"
        /\ major' = ParseVersion(recv_buffer, recv_num)
        /\ recv_buffer' = EndVersion(recv_buffer, recv_num)
        /\ recv_num' = 0 /\ state' = "done"
        /\ UNCHANGED <<req_uri, method>>
     \/ b \in Other \ {"CR"} /\ Error

RecvDone(b) ==
  /\ state = "done"
  /\ \/ /\ b = "LF" /\ state' = "ok"
        /\ UNCHANGED <<recv_num, recv_buffer, req_uri, method, major>>
     \/ b \in Byte \ {"LF"} /\ Error

Recv(b) == /\ RecvMethod(b) \/ RecvUrl(b) \/ RecvVersion(b) \/ RecvDone(b)
           /\ input' = Append(input, b)
           /\ UNCHANGED served

\* recv returns 0 or -1: the client has closed or reset the connection.
RecvFails == /\ state \in {"method", "url", "version", "done"}
             /\ state' = "closed"
             /\ UNCHANGED <<recv_num, recv_buffer, req_uri, method, major, served, input>>

\* The loop of do_call: the next connection, the same buffers.  (The old method and
\* version are overwritten before they are looked at again.)
NextRequest == /\ state \in {"ok", "error", "closed"} /\ served + 1 < MaxRequests
               /\ state' = "method" /\ recv_num' = 0
               /\ served' = served + 1 /\ input' = <<>>
               /\ method' = "none" /\ major' = 0
               /\ UNCHANGED <<recv_buffer, req_uri>>

Next == RecvFails \/ NextRequest \/ \E b \in Byte : Recv(b)

Spec == Init /\ [][Next]_vars

-----------------------------------------------------------------------------
\* The type of every variable.
TypeOK ==
  /\ state \in {"method", "url", "version", "done", "ok", "error", "closed"}
  /\ recv_num \in 0..UriLimit + MaxMethod + MaxVersion
  /\ recv_buffer \in [BufferIndex -> Byte \union {NUL}]
  /\ req_uri \in [0..UriLimit - 1 -> Byte \union {NUL}]
  /\ method \in {"none", "GET", "POST", "OTHER"} /\ major \in {-1, 0, 1}
  /\ served \in Nat /\ input \in Seq(Byte)

\* Every byte of the URI and the null byte that ends it lie inside req_uri,
\* whatever the client sends: the last index is used by neither.
UriFits == state = "url" => recv_num < UriLimit

\* The reference: method SP URI SP version CR LF, the tokens made of printable
\* bytes, the URI of at most UriLimit - 2 of them.
IsRequestLine(line) ==
  LET n == Len(line) IN
  \E i, j \in 1..n :
    /\ i < j /\ j < n - 1
    /\ line[i] = "SP" /\ line[j] = "SP" /\ line[n - 1] = "CR" /\ line[n] = "LF"
    /\ \A k \in (1..n - 2) \ {i, j} : line[k] \in Valid
    /\ j - i - 1 <= UriLimit - 2

\* The lines that are read to the end are those of the reference, and a byte is
\* refused only where no continuation makes a line of the reference: one of these
\* would, if any did.
Endings == {<<"SP", "SP", "CR", "LF">>, <<"SP", "CR", "LF">>, <<"CR", "LF">>, <<"LF">>, <<>>}
AcceptsExactlyLines ==
  /\ state = "ok" => IsRequestLine(input)
  /\ state = "error" => \A e \in Endings : ~ IsRequestLine(input \o e)

\* The tokens of a line, by the positions of its two spaces.
Space1 == CHOOSE i \in 1..Len(input) : input[i] = "SP" /\ \A k \in 1..i - 1 : input[k] # "SP"
Space2 == CHOOSE j \in Space1 + 1..Len(input) :
            input[j] = "SP" /\ \A k \in Space1 + 1..j - 1 : input[k] # "SP"
MethodToken == SubSeq(input, 1, Space1 - 1)
UriToken == SubSeq(input, Space1 + 1, Space2 - 1)
VersionToken == SubSeq(input, Space2 + 1, Len(input) - 2)

\* req_uri, read as a C string, is the URI of this request, although an
\* earlier and longer one was read into the same array.
UriIsToken ==
  state = "ok" =>
    /\ \A k \in 1..Len(UriToken) : req_uri[k - 1] = UriToken[k]
    /\ req_uri[Len(UriToken)] = NUL

\* The number between the first '/' of the version and the first '.' after it.
IsMajor(v) ==
  \E i, j \in 1..Len(VersionToken) :
    /\ i < j /\ v = SubSeq(VersionToken, i + 1, j - 1)
    /\ VersionToken[i] = "/" /\ \A k \in 1..i - 1 : VersionToken[k] # "/"
    /\ VersionToken[j] = "." /\ \A k \in i + 1..j - 1 : VersionToken[k] # "."
Majors == {v \in {SubSeq(VersionToken, i, j) : i, j \in 1..Len(VersionToken)} \union {<<>>} :
             IsMajor(v)}
\* A sign, zeros, a one, and no digit behind it.
MinusOne(v) ==
  \E k \in 2..Len(v) : /\ v[1] = "-" /\ v[k] = "1" /\ \A m \in 2..k - 1 : v[m] = "0"
                       /\ k < Len(v) => v[k + 1] \notin Digit

\* 505 is answered to exactly the versions without a '.' after the first '/'
\* and to those with the number -1 between them.
VersionRefused ==
  state = "ok" => (major = -1 <=> \A v \in Majors : MinusOne(v))

\* A request is served as GET only if its first token says so: it begins with
\* those three letters.
ServedAsGet ==
  state = "ok" /\ method = "GET" =>
    /\ Len(MethodToken) >= 3
    /\ \A k \in 1..3 : Upper(MethodToken[k]) = <<"G", "E", "T">>[k]

\* This holds for the first request read into a pair of buffers.
FirstServedAsGet == served = 0 => ServedAsGet
=============================================================================
