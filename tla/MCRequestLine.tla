---------------------------- MODULE MCRequestLine ----------------------------
(* Small instances of RequestLine: short tokens over the bytes that the  *)
(* parsers tell apart, and a URI buffer of three or four bytes.          *)
EXTENDS RequestLine
=============================================================================
