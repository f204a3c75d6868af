---------------------------- MODULE KeyValueMap ----------------------------
(***************************************************************************)
(* What src/src/hash.h promises to a user that looks for a key before it   *)
(* inserts it: a map.                                                      *)
(***************************************************************************)
CONSTANTS Keys, Values

VARIABLE map    \* a function from the keys that are there

Keep(S) == [k \in S |-> map[k]]

Init == map = [k \in {} |-> k]

Put(k, v) == map' = [x \in DOMAIN map \cup {k} |-> IF x = k THEN v ELSE map[x]]

Erase(k) == k \in DOMAIN map /\ map' = Keep(DOMAIN map \ {k})

Next == \E k \in Keys : Erase(k) \/ \E v \in Values : Put(k, v)

Spec == Init /\ [][Next]_map

=============================================================================
