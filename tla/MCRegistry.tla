----------------------------- MODULE MCRegistry -----------------------------
(* Registry with a table of one slot that grows to two: both odd sids share a  *)
(* slot before and after, and it is not the same one.                         *)
EXTENDS Registry

CONSTANTS c1, c2, m1, queue

(* hash_sid is the identity on small sids. *)
MCHash(s) == s

MCPrimes == <<1, 2>>
=============================================================================
