----------------------------- MODULE HashTable -----------------------------
(***************************************************************************)
(* The hash table of src/src/hash.h.  A slot of the table is the sequence  *)
(* of the nodes that hang from it, the newest first.  The loops of resize  *)
(* and clear take one node at a time; nothing else runs between their      *)
(* steps.                                                                  *)
(***************************************************************************)
EXTENDS Naturals, Sequences, FiniteSets

CONSTANTS
    Keys, HashValues,
    hash_function(_),
    prime_numbers       \* the sizes a table may have, in their order

ASSUME HashAssumption ==
    /\ prime_numbers \in Seq(Nat \ {0})
    /\ Len(prime_numbers) > 0
    /\ \A k \in Keys : hash_function(k) \in Nat

VARIABLES
    table,              \* from slots to chains
    table_size,
    element_count,
    old_table,          \* the table that resize takes the nodes from
    task                \* "none", or the loop that runs: "resize", "clear"

hashVars == <<table, table_size, element_count, old_table, task>>

HashNodes == [key : Keys, value : HashValues]

Slots(size) == 0..(size - 1)

SlotOf(k, size) == hash_function(k) % size

EmptyTable(size) == [b \in Slots(size) |-> <<>>]

-----------------------------------------------------------------------------
(* _hash_find_prev_node: the place of the first node with the key. *)
Matches(k) ==
    LET chain == table[SlotOf(k, table_size)]
    IN  {i \in 1..Len(chain) : chain[i].key = k}

hash_has_key(k) == Matches(k) # {}

First(S) == CHOOSE i \in S : \A j \in S : i <= j

hash_find(k) == table[SlotOf(k, table_size)][First(Matches(k))].value

(* Mutant: what hangs from the node goes with it. *)
UnlinkRest(chain, i) == [j \in 1..(i - 1) |-> chain[j]]

(* Without the node at the place i. *)
Unlink(chain, i) ==
    [j \in 1..(Len(chain) - 1) |-> IF j < i THEN chain[j] ELSE chain[j + 1]]

(* Mutant: the slot is that of the smallest table. *)
LinkSmallSlot(t, size, node) ==
    [t EXCEPT ![SlotOf(node.key, prime_numbers[1])] = <<node>> \o @]

(* _hash_insert_noresize, into a table t. *)
Link(t, size, node) ==
    [t EXCEPT ![SlotOf(node.key, size)] = <<node>> \o @]

IsLargeEnough(i, n) == prime_numbers[i] >= n

(* The size for n elements; the list of sizes is long enough. *)
SizeFor(n) ==
    prime_numbers[CHOOSE i \in 1..Len(prime_numbers) :
        IsLargeEnough(i, n) /\ \A j \in 1..(i - 1) : ~IsLargeEnough(j, n)]

-----------------------------------------------------------------------------
(* _hash_resize: nothing, or the start of its loop.  t is the table with    *)
(* the new node, n the new count.                                          *)
Resize(t, n) ==
    IF table_size < n
    THEN /\ \E i \in 1..Len(prime_numbers) : IsLargeEnough(i, n)
         /\ old_table' = t
         /\ table_size' = SizeFor(n)
         /\ table' = EmptyTable(SizeFor(n))
         /\ task' = "resize"
    ELSE /\ table' = t
         /\ UNCHANGED <<table_size, old_table, task>>

(* Keys that are there already are not looked for. *)
hash_insert(k, v) ==
    /\ task = "none"
    /\ element_count' = element_count + 1
    /\ Resize(Link(table, table_size, [key |-> k, value |-> v]),
              element_count + 1)

HasNodes(t) == {b \in DOMAIN t : t[b] # <<>>}

(* The next node of the old table is linked into the new one; the old one   *)
(* is freed when it has none.                                              *)
ResizeStep ==
    LET B == HasNodes(old_table)
    IN  /\ task = "resize"
        /\ IF B = {}
           THEN /\ old_table' = <<>>
                /\ task' = "none"
                /\ UNCHANGED table
           ELSE /\ old_table' = [old_table EXCEPT ![First(B)] = Tail(@)]
                /\ table' = Link(table, table_size, Head(old_table[First(B)]))
                /\ UNCHANGED task
        /\ UNCHANGED <<table_size, element_count>>

(* _hash_erase_next_node, at the place i of the slot b. *)
EraseNode(b, i) ==
    /\ table' = [table EXCEPT ![b] = Unlink(@, i)]
    /\ element_count' = element_count - 1
    /\ UNCHANGED <<table_size, old_table>>

(* A key that is not there is no error. *)
hash_erase(k) ==
    /\ task = "none"
    /\ IF hash_has_key(k)
       THEN EraseNode(SlotOf(k, table_size), First(Matches(k)))
       ELSE UNCHANGED <<table, table_size, element_count, old_table>>
    /\ UNCHANGED task

hash_insert_replace(k, v) ==
    \/ ~hash_has_key(k) /\ hash_insert(k, v)
    \/ /\ task = "none"
       /\ hash_has_key(k)
       /\ table' = [table EXCEPT ![SlotOf(k, table_size)]
                                 [First(Matches(k))].value = v]
       /\ UNCHANGED <<table_size, element_count, old_table, task>>

(* hash_clear, and the freeing of the table that follows it. *)
hash_clear ==
    /\ task = "none"
    /\ task' = "clear"
    /\ UNCHANGED <<table, table_size, element_count, old_table>>

ClearStep ==
    /\ task = "clear"
    /\ IF HasNodes(table) = {}
       THEN task' = "none" /\ UNCHANGED <<table, table_size, element_count, old_table>>
       ELSE EraseNode(First(HasNodes(table)), 1) /\ UNCHANGED task

HashInit ==
    /\ table_size = prime_numbers[1]
    /\ table = EmptyTable(table_size)
    /\ element_count = 0
    /\ old_table = <<>>
    /\ task = "none"

HashLoop == ResizeStep \/ ClearStep

(* Both users of the table look for a key before they insert it. *)
HashNext ==
    \/ HashLoop
    \/ hash_clear
    \/ \E k \in Keys :
        \/ hash_erase(k)
        \/ \E v \in HashValues :
            \/ ~hash_has_key(k) /\ hash_insert(k, v)
            \/ hash_insert_replace(k, v)

HashSpec == HashInit /\ [][HashNext]_hashVars

-----------------------------------------------------------------------------
(* Properties *)

HashTypeOK ==
    /\ table_size \in Nat \ {0}
    /\ table \in [Slots(table_size) -> Seq(HashNodes)]
    /\ element_count \in Nat
    /\ DOMAIN old_table \subseteq Nat
    /\ old_table \in [DOMAIN old_table -> Seq(HashNodes)]
    /\ task \in {"none", "resize", "clear"}

(* Where nodes are: in which table, which slot, which place. *)
PlacesIn(t) == UNION {{b} \X (1..Len(t[b])) : b \in DOMAIN t}

NodeAt(t, p) == t[p[1]][p[2]]

KeysIn(t) == {NodeAt(t, p).key : p \in PlacesIn(t)}

(* Every key is once in the table, at a slot where a find looks for it, and *)
(* is counted, after any mix of inserts, erases and resizes; while a resize *)
(* is under way it is in one of the two tables.                            *)
HashConsistent ==
    /\ \A p \in PlacesIn(table) : SlotOf(NodeAt(table, p).key, table_size) = p[1]
    /\ \A t \in {table, old_table} :
        \A p, q \in PlacesIn(t) : NodeAt(t, p).key = NodeAt(t, q).key => p = q
    /\ KeysIn(table) \cap KeysIn(old_table) = {}
    /\ element_count = Cardinality(KeysIn(table) \cup KeysIn(old_table))
    /\ task # "resize" => old_table = <<>>
    /\ task # "clear" => element_count <= table_size

(* The table as a map. *)
Contents ==
    [k \in KeysIn(table) \cup KeysIn(old_table) |->
        LET t == IF k \in KeysIn(table) THEN table ELSE old_table
        IN  NodeAt(t, CHOOSE p \in PlacesIn(t) : NodeAt(t, p).key = k).value]

M == INSTANCE KeyValueMap WITH map <- Contents, Values <- HashValues

(* An insert adds one key, an erase takes one away, a replacement changes   *)
(* one value; moving the nodes to another table changes nothing.           *)
HashImplementsMap == M!Spec

=============================================================================
