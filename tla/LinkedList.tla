----------------------------- MODULE LinkedList -----------------------------
(***************************************************************************)
(* The lists of src/src/list.h at the level of their pointers.  A list is  *)
(* a ring of nodes through a head that lies in the struct of the list; the *)
(* nodes of all lists come from one allocator, which gives a node that was *)
(* freed to the next list that asks.  An iterator is a node.               *)
(***************************************************************************)
EXTENDS Allocator

CONSTANTS Lists, Values, NULL

VARIABLES
    next, prev,     \* the pointers of the heads and the nodes
    value           \* the values of the nodes

listVars == <<next, prev, value, allocatorVars>>

Nodes == 1..MaxObjects

ASSUME ListAssumption ==
    /\ Lists \cap Nodes = {}
    /\ NULL \notin Lists \cup Nodes \cup Values

-----------------------------------------------------------------------------
list_begin(l) == next[l]

list_empty(l) == next[l] = l

(* Mutant: the node that was last is not linked to the new one. *)
InsertNodeBackOnly(pos, node, v) ==
    /\ next' = [next EXCEPT ![node] = pos]
    /\ prev' = [prev EXCEPT ![node] = prev[pos], ![pos] = node]
    /\ value' = [value EXCEPT ![node] = v]

(* A node that has been allocated goes before pos. *)
InsertNode(pos, node, v) ==
    /\ next' = [next EXCEPT ![node] = pos, ![prev[pos]] = node]
    /\ prev' = [prev EXCEPT ![node] = prev[pos], ![pos] = node]
    /\ value' = [value EXCEPT ![node] = v]

list_insert(pos, node, v) == Alloc(node) /\ InsertNode(pos, node, v)

(* Mutant: only the way forward is repaired. *)
EraseForwardOnly(it) ==
    /\ next' = [next EXCEPT ![prev[it]] = next[it], ![it] = NULL]
    /\ prev' = [prev EXCEPT ![it] = NULL]
    /\ value' = [value EXCEPT ![it] = NULL]
    /\ Free(it)

(* What a freed node holds is nobody's: NULL here. *)
list_erase(it) ==
    /\ next' = [next EXCEPT ![prev[it]] = next[it], ![it] = NULL]
    /\ prev' = [prev EXCEPT ![next[it]] = prev[it], ![it] = NULL]
    /\ value' = [value EXCEPT ![it] = NULL]
    /\ Free(it)

list_push_back(l, node, v) == list_insert(l, node, v)

list_push_front(l, node, v) == list_insert(next[l], node, v)

list_pop_front(l) == ~list_empty(l) /\ list_erase(next[l])

list_pop_back(l) == ~list_empty(l) /\ list_erase(prev[l])

-----------------------------------------------------------------------------
(* From x on along the pointers link. *)
Steps(x, link) ==
    LET f[n \in 0..(MaxObjects + 1)] == IF n = 0 THEN x ELSE link[f[n - 1]]
    IN  f

(* The nodes met from the head l on, up to the head; a ring that does not   *)
(* close gives as many as there are nodes.                                 *)
Chain(l, link) ==
    LET x == Steps(l, link)
        size == CHOOSE n \in 0..MaxObjects :
                    /\ n = MaxObjects \/ x[n + 1] \notin Nodes
                    /\ \A m \in 1..n : x[m] \in Nodes
    IN  [n \in 1..size |-> x[n]]

(* The nodes of a list in the order of list_foreach, and backwards. *)
Walk(l) == Chain(l, next)

WalkBack(l) == Chain(l, prev)

NodesOf(l) == LET w == Walk(l) IN {w[n] : n \in DOMAIN w}

(* list_size *)
Size(l) == Len(Walk(l))

ListInit ==
    /\ AllocatorInit
    /\ next = [x \in Lists \cup Nodes \cup {NULL} |-> IF x \in Lists THEN x ELSE NULL]
    /\ prev = next
    /\ value = [x \in Nodes |-> NULL]

(* Any operation of list.h on the list l that changes it, with values of S. *)
ListStep(l, S) ==
    \/ list_pop_front(l)
    \/ list_pop_back(l)
    \/ \E it \in NodesOf(l) : list_erase(it)
    \/ \E node \in Nodes, v \in S :
        \/ list_push_back(l, node, v)
        \/ list_push_front(l, node, v)
        \/ \E pos \in NodesOf(l) : list_insert(pos, node, v)

ListNext == \E l \in Lists : ListStep(l, Values)

ListSpec == ListInit /\ [][ListNext]_listVars

-----------------------------------------------------------------------------
(* Properties *)

(* Every list is one ring, forth and back the same, that meets no other,    *)
(* and the rings hold nodes in use only: an iterator kept in a struct is    *)
(* good until its node is erased, whatever other lists do in between.       *)
RingsClosed ==
    /\ \A l \in Lists :
        LET w == Walk(l)
            b == WalkBack(l)
        IN  /\ Len(b) = Len(w)
            /\ \A n \in DOMAIN w : b[Len(w) + 1 - n] = w[n]
            /\ next[IF w = <<>> THEN l ELSE w[Len(w)]] = l
            /\ prev[IF w = <<>> THEN l ELSE w[1]] = l
    /\ \A l, m \in Lists : l # m => NodesOf(l) \cap NodesOf(m) = {}
    /\ UNION {NodesOf(l) : l \in Lists} = used

(* The lists as sequences of values. *)
Sequence(l) == LET w == Walk(l) IN [n \in DOMAIN w |-> value[w[n]]]

V == INSTANCE ValueLists WITH lists <- [l \in Lists |-> Sequence(l)]

(* An operation inserts or removes one value of one list at one place, and  *)
(* changes no other list, although all share the freed nodes.               *)
ImplementsValueLists == V!Spec

(* What the comment on list_insert says: the new element comes after the    *)
(* one the iterator points to.                                             *)
InsertsAfterElement ==
    [][\A pos \in used, node \in Nodes, v \in Values :
        list_insert(pos, node, v) => next'[pos] = node]_listVars

=============================================================================
