------------------------------- MODULE MCHttp -------------------------------
(* HttpConnection with Content-Lengths that are true, too short, too long,  *)
(* negative, and too large to be added to the size of a header.            *)
EXTENDS HttpConnection

Claims == {-7, -2, 0, 2, 7}
=============================================================================
