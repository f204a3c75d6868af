----------------------------- MODULE ValueLists -----------------------------
(***************************************************************************)
(* What src/src/list.h promises: some lists of values, of which a value is *)
(* inserted or removed at one place of one list at a time.                 *)
(***************************************************************************)
EXTENDS SequencesExt

CONSTANTS Lists, Values

VARIABLE lists

Init == lists = [l \in Lists |-> <<>>]

(* t is s with a value more. *)
Inserted(s, t) == \E i \in DOMAIN t : t[i] \in Values /\ s = RemoveAt(t, i)

Changed == {l \in Lists : lists'[l] # lists[l]}

Next ==
    \E l \in Changed :
        /\ Changed = {l}
        /\ LET s == lists[l]
               t == lists'[l]
           IN  Inserted(s, t) \/ Inserted(t, s)

Spec == Init /\ [][Next]_lists

=============================================================================
