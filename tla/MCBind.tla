------------------------------- MODULE MCBind -------------------------------
(* JabberBind with interchangeable connections and sessions. *)
EXTENDS JabberBind, TLC

Symmetry == Permutations(Conns) \cup Permutations(Clients)

(* A request that is never held, and one held for less than the session *)
(* timeout; a negative wait is what atoi(tmp) * 1000 makes of a large one. *)
MCWaits == {-1, 2}
=============================================================================
