-------------------------- MODULE HashTableProofs --------------------------
(***************************************************************************)
(* HashTable keeps its keys and implements KeyValueMap for any keys, hash   *)
(* function and sizes.  A table is looked at as the set of its nodes: an    *)
(* insert adds one, an erase takes one away, and a step of resize takes one *)
(* from one table and adds it to the other.                                *)
(***************************************************************************)
EXTENDS HashTable, FiniteSetTheorems, SequenceTheorems, WellFoundedInduction, TLAPS

IsTable(t) == DOMAIN t \subseteq Nat /\ t \in [DOMAIN t -> Seq(HashNodes)]

NodesIn(t) == UNION {{t[b][i] : i \in 1..Len(t[b])} : b \in DOMAIN t}

KeysOf(S) == {n.key : n \in S}

(* No key is in two places of t. *)
Unique(t) ==
    \A b, c \in DOMAIN t :
        \A i \in 1..Len(t[b]), j \in 1..Len(t[c]) :
            t[b][i].key = t[c][j].key => b = c /\ i = j

(* Every node hangs from its slot. *)
Slotted(t, size) ==
    \A b \in DOMAIN t : \A i \in 1..Len(t[b]) : SlotOf(t[b][i].key, size) = b

AllNodes == NodesIn(table) \cup NodesIn(old_table)

HashInv ==
    /\ HashTypeOK
    /\ Unique(table)
    /\ Unique(old_table)
    /\ Slotted(table, table_size)
    /\ KeysOf(NodesIn(table)) \cap KeysOf(NodesIn(old_table)) = {}
    /\ IsFiniteSet(KeysOf(AllNodes))
    /\ element_count = Cardinality(KeysOf(AllNodes))
    /\ task # "resize" => old_table = <<>>
    /\ task # "clear" => element_count <= table_size

-----------------------------------------------------------------------------
(* The least of a set *)

LEMMA LeastExists ==
    ASSUME NEW S \in SUBSET Nat, S # {}
    PROVE  \E x \in S : \A y \in S : x <= y
<1>1. IsWellFoundedOn({ss \in Nat \X Nat : ss[1] < ss[2]}, Nat)
  BY NatLessThanWellFounded DEF OpToRel
<1>2. PICK R : R = {ss \in Nat \X Nat : ss[1] < ss[2]}
  OBVIOUS
<1>3. PICK x \in S : \A y \in S : ~(<<y, x>> \in R)
  <2>1. IsWellFoundedOn(R, Nat)
    BY <1>1, <1>2
  <2> QED
    BY <2>1, WFMin
<1>4. ASSUME NEW y \in S PROVE x <= y
  <2>1. x \in Nat /\ y \in Nat
    OBVIOUS
  <2>2. ~(y < x)
    BY <1>2, <1>3, <2>1
  <2> QED
    BY <2>1, <2>2
<1> QED
  BY <1>4

LEMMA FirstFacts ==
    ASSUME NEW S \in SUBSET Nat, S # {}
    PROVE  First(S) \in S /\ \A y \in S : First(S) <= y
BY LeastExists DEF First

-----------------------------------------------------------------------------
(* Chains *)

Pushed(s, n) == <<n>> \o s

PushedAt(t, b, n) == [t EXCEPT ![b] = Pushed(@, n)]

UnlinkedAt(t, b, i) == [t EXCEPT ![b] = Unlink(@, i)]

ReplacedAt(t, b, i, v) == [t EXCEPT ![b][i].value = v]

LEMMA PushedFacts ==
    ASSUME NEW s \in Seq(HashNodes), NEW n \in HashNodes
    PROVE  /\ Pushed(s, n) \in Seq(HashNodes)
           /\ Len(Pushed(s, n)) = Len(s) + 1
           /\ Pushed(s, n)[1] = n
           /\ \A i \in 1..Len(s) : Pushed(s, n)[i + 1] = s[i]
<1>1. PICK o : o = <<n>>
  OBVIOUS
<1>2. o \in Seq(HashNodes) /\ Len(o) = 1 /\ o[1] = n /\ Len(s) \in Nat
  BY <1>1, LenProperties
<1>3. PICK w : w = o \o s
  OBVIOUS
<1>4. /\ w \in Seq(HashNodes) /\ Len(w) = 1 + Len(s)
      /\ \A i \in 1..(1 + Len(s)) : w[i] = IF i <= 1 THEN o[i] ELSE s[i - 1]
  <2>1. /\ w \in Seq(HashNodes) /\ Len(w) = Len(o) + Len(s)
        /\ \A i \in 1..(Len(o) + Len(s)) : w[i] = IF i <= Len(o) THEN o[i] ELSE s[i - Len(o)]
    BY <1>2, <1>3, ConcatProperties
  <2> QED
    BY <1>2, <2>1
<1>5. w[1] = n
  BY <1>2, <1>4
<1>6. ASSUME NEW i \in 1..Len(s) PROVE w[i + 1] = s[i]
  <2>1. i + 1 \in 1..(1 + Len(s)) /\ ~(i + 1 <= 1) /\ i + 1 - 1 = i
    BY <1>2
  <2> QED
    BY <1>4, <2>1
<1>7. Len(w) = Len(s) + 1
  BY <1>2, <1>4
<1> QED
  BY <1>1, <1>3, <1>4, <1>5, <1>6, <1>7 DEF Pushed

LEMMA UnlinkFacts ==
    ASSUME NEW s \in Seq(HashNodes), NEW i \in 1..Len(s)
    PROVE  /\ Unlink(s, i) \in Seq(HashNodes)
           /\ Len(Unlink(s, i)) = Len(s) - 1
           /\ \A j \in 1..(Len(s) - 1) :
                Unlink(s, i)[j] = IF j < i THEN s[j] ELSE s[j + 1]
<1>1. PICK m \in Nat : m = Len(s) - 1
  BY LenProperties
<1>2. \A j \in 1..m : (IF j < i THEN s[j] ELSE s[j + 1]) \in HashNodes
  <2> SUFFICES ASSUME NEW j \in 1..m PROVE s[j] \in HashNodes /\ s[j + 1] \in HashNodes
    OBVIOUS
  <2>1. j \in 1..Len(s) /\ j + 1 \in 1..Len(s)
    BY <1>1, LenProperties
  <2> QED
    BY <2>1, ElementOfSeq
<1>3. Unlink(s, i) = [j \in 1..m |-> IF j < i THEN s[j] ELSE s[j + 1]]
  BY <1>1 DEF Unlink
<1> QED
  BY <1>1, <1>2, <1>3

LEMMA TailIsUnlink ==
    ASSUME NEW s \in Seq(HashNodes), s # <<>>
    PROVE  /\ 1 \in 1..Len(s) /\ Tail(s) = Unlink(s, 1) /\ Head(s) = s[1]
<1>1. /\ Len(s) \in Nat \ {0} /\ 1 \in 1..Len(s)
      /\ Tail(s) \in Seq(HashNodes) /\ Len(Tail(s)) = Len(s) - 1
      /\ \A j \in 1..Len(Tail(s)) : Tail(s)[j] = s[j + 1]
      /\ Head(s) = s[1]
  <2>1. Len(s) \in Nat /\ Len(s) # 0
    BY LenProperties, EmptySeq
  <2> QED
    BY <2>1, HeadTailProperties
<1>2. /\ Unlink(s, 1) \in Seq(HashNodes) /\ Len(Unlink(s, 1)) = Len(s) - 1
      /\ \A j \in 1..(Len(s) - 1) : Unlink(s, 1)[j] = IF j < 1 THEN s[j] ELSE s[j + 1]
  BY <1>1, UnlinkFacts
<1>3. \A j \in 1..(Len(s) - 1) : Tail(s)[j] = Unlink(s, 1)[j]
  BY <1>1, <1>2
<1>4. PICK u, w : u = Tail(s) /\ w = Unlink(s, 1)
  OBVIOUS
<1>5. u = w
  BY <1>1, <1>2, <1>3, <1>4, SeqEqual
<1> QED
  BY <1>1, <1>4, <1>5

-----------------------------------------------------------------------------
(* Tables *)

LEMMA ChainFacts ==
    ASSUME NEW t, IsTable(t), NEW b \in DOMAIN t
    PROVE  /\ b \in Nat
           /\ t[b] \in Seq(HashNodes)
           /\ Len(t[b]) \in Nat
           /\ \A i \in 1..Len(t[b]) : t[b][i] \in HashNodes /\ t[b][i] \in NodesIn(t)
<1>1. b \in Nat /\ t[b] \in Seq(HashNodes)
  BY DEF IsTable
<1>2. Len(t[b]) \in Nat
  BY <1>1, LenProperties
<1>3. ASSUME NEW i \in 1..Len(t[b])
      PROVE  t[b][i] \in HashNodes /\ t[b][i] \in NodesIn(t)
  <2>1. t[b][i] \in HashNodes
    BY <1>1, ElementOfSeq
  <2> QED
    BY <2>1 DEF NodesIn
<1> QED
  BY <1>1, <1>2, <1>3

LEMMA NodeFacts ==
    ASSUME NEW t, IsTable(t), NEW n \in NodesIn(t)
    PROVE  n \in HashNodes /\ \E b \in DOMAIN t : \E i \in 1..Len(t[b]) : n = t[b][i]
<1>1. PICK b \in DOMAIN t : n \in {t[b][i] : i \in 1..Len(t[b])}
  BY DEF NodesIn
<1>2. PICK i \in 1..Len(t[b]) : n = t[b][i]
  BY <1>1
<1> QED
  BY <1>2, ChainFacts

(* With unique keys a key names its node. *)
LEMMA KeyNamesNode ==
    ASSUME NEW t, IsTable(t), Unique(t),
           NEW m \in NodesIn(t), NEW n \in NodesIn(t), m.key = n.key
    PROVE  m = n
<1>1. PICK b \in DOMAIN t : \E i \in 1..Len(t[b]) : m = t[b][i]
  BY NodeFacts
<1>2. PICK i \in 1..Len(t[b]) : m = t[b][i]
  BY <1>1
<1>3. PICK c \in DOMAIN t : \E j \in 1..Len(t[c]) : n = t[c][j]
  BY NodeFacts
<1>4. PICK j \in 1..Len(t[c]) : n = t[c][j]
  BY <1>3
<1> QED
  BY <1>2, <1>4 DEF Unique

(* A node is pushed on a chain. *)
LEMMA PushTable ==
    ASSUME NEW t, IsTable(t), NEW b \in DOMAIN t, NEW n \in HashNodes,
           NEW u, u = PushedAt(t, b, n)
    PROVE  /\ IsTable(u) /\ DOMAIN u = DOMAIN t
           /\ NodesIn(u) = NodesIn(t) \cup {n}
           /\ Unique(t) /\ n.key \notin KeysOf(NodesIn(t)) => Unique(u)
           /\ \A size : Slotted(t, size) /\ SlotOf(n.key, size) = b => Slotted(u, size)
<1>0. u = [c \in DOMAIN u |-> u[c]]
  BY DEF PushedAt
<1>1. /\ DOMAIN u = DOMAIN t /\ u[b] = Pushed(t[b], n)
      /\ \A c \in DOMAIN t : c # b => u[c] = t[c]
  BY DEF PushedAt
<1>2. /\ t[b] \in Seq(HashNodes) /\ Len(t[b]) \in Nat
      /\ \A i \in 1..Len(t[b]) : t[b][i] \in HashNodes /\ t[b][i] \in NodesIn(t)
  BY ChainFacts
<1>3. /\ u[b] \in Seq(HashNodes)
      /\ Len(u[b]) = Len(t[b]) + 1
      /\ u[b][1] = n
      /\ \A i \in 1..Len(t[b]) : u[b][i + 1] = t[b][i]
  <2>1. PICK s \in Seq(HashNodes) : s = t[b]
    BY <1>2
  <2>2. /\ Pushed(s, n) \in Seq(HashNodes)
        /\ Len(Pushed(s, n)) = Len(s) + 1
        /\ Pushed(s, n)[1] = n
        /\ \A i \in 1..Len(s) : Pushed(s, n)[i + 1] = s[i]
    BY PushedFacts
  <2> QED
    BY ONLY <1>1, <2>1, <2>2
<1>4. IsTable(u)
  <2>1. \A c \in DOMAIN t : u[c] \in Seq(HashNodes)
    BY <1>1, <1>3 DEF IsTable
  <2> QED
    BY <1>0, <1>1, <2>1 DEF IsTable
<1>5. ASSUME NEW i \in 1..Len(u[b])
      PROVE  \/ i = 1 /\ u[b][i] = n
             \/ i - 1 \in 1..Len(t[b]) /\ u[b][i] = t[b][i - 1]
  <2>1. CASE i = 1
    <3>1. u[b][i] = n
      BY ONLY <1>3, <2>1
    <3> QED
      BY ONLY <2>1, <3>1
  <2>2. CASE i # 1
    <3>1. i - 1 \in 1..Len(t[b]) /\ i - 1 + 1 = i
      BY <1>2, <1>3, <2>2
    <3> QED
      BY <1>3, <3>1
  <2> QED
    BY <2>1, <2>2
<1>6. NodesIn(u) \subseteq NodesIn(t) \cup {n}
  <2> SUFFICES ASSUME NEW m \in NodesIn(u) PROVE m \in NodesIn(t) \cup {n}
    OBVIOUS
  <2>1. PICK c \in DOMAIN u : \E i \in 1..Len(u[c]) : m = u[c][i]
    BY ONLY <1>4, NodeFacts, m \in NodesIn(u)
  <2>2. PICK i \in 1..Len(u[c]) : m = u[c][i]
    BY <2>1
  <2>3. CASE c = b
    BY <1>2, <1>5, <2>2, <2>3
  <2>4. CASE c # b
    BY <1>1, <2>2, <2>4, ChainFacts
  <2> QED
    BY <2>3, <2>4
<1>7. NodesIn(t) \cup {n} \subseteq NodesIn(u)
  <2>1. n \in NodesIn(u)
    <3>1. 1 \in 1..Len(u[b])
      BY <1>2, <1>3
    <3>2. b \in DOMAIN u
      BY <1>1
    <3>3. u[b][1] \in NodesIn(u)
      BY ONLY <1>4, <3>1, <3>2, ChainFacts
    <3> QED
      BY <1>3, <3>3
  <2>2. ASSUME NEW m \in NodesIn(t) PROVE m \in NodesIn(u)
    <3>1. PICK c \in DOMAIN t : \E i \in 1..Len(t[c]) : m = t[c][i]
      BY NodeFacts
    <3>2. PICK i \in 1..Len(t[c]) : m = t[c][i]
      BY <3>1
    <3>3. CASE c = b
      <4>1. i + 1 \in 1..Len(u[b]) /\ u[b][i + 1] = m
        BY <1>2, <1>3, <3>2, <3>3
      <4> QED
        BY <1>1, <1>4, <4>1, ChainFacts
    <3>4. CASE c # b
      <4>1. u[c] = t[c] /\ c \in DOMAIN u
        BY <1>1, <3>4
      <4> QED
        BY <1>4, <3>2, <4>1, ChainFacts
    <3> QED
      BY <3>3, <3>4
  <2> QED
    BY <2>1, <2>2
<1>8. ASSUME Unique(t), n.key \notin KeysOf(NodesIn(t)) PROVE Unique(u)
  <2> SUFFICES ASSUME NEW c \in DOMAIN u, NEW d \in DOMAIN u,
                      NEW i \in 1..Len(u[c]), NEW j \in 1..Len(u[d]),
                      u[c][i].key = u[d][j].key
               PROVE  c = d /\ i = j
    BY DEF Unique
  <2>0. \A e \in DOMAIN t : \A k \in 1..Len(t[e]) : t[e][k].key # n.key
    BY <1>8, ChainFacts DEF KeysOf
  <2>1. CASE c = b /\ d = b
    <3>1. CASE i = 1 /\ u[b][i] = n
      BY <1>5, <2>0, <2>1, <3>1
    <3>2. CASE i - 1 \in 1..Len(t[b]) /\ u[b][i] = t[b][i - 1]
      <4>1. j - 1 \in 1..Len(t[b]) /\ u[b][j] = t[b][j - 1]
        BY <1>5, <2>0, <2>1, <3>2
      <4>2. i - 1 = j - 1
        BY <1>8, <2>1, <3>2, <4>1 DEF Unique
      <4>3. i \in Nat /\ j \in Nat
        BY <1>2, <1>3, <2>1
      <4> QED
        BY <2>1, <4>2, <4>3
    <3> QED
      BY <1>5, <2>1, <3>1, <3>2
  <2>2. CASE c = b /\ d # b
    <3>1. u[d] = t[d] /\ d \in DOMAIN t
      BY <1>1, <2>2
    <3> QED
      BY <1>5, <1>8, <2>0, <2>2, <3>1 DEF Unique
  <2>3. CASE c # b /\ d = b
    <3>1. u[c] = t[c] /\ c \in DOMAIN t
      BY <1>1, <2>3
    <3>2. u[c][i].key # n.key
      BY <2>0, <3>1
    <3>3. j - 1 \in 1..Len(t[b]) /\ u[b][j] = t[b][j - 1]
      BY <1>5, <2>3, <3>2
    <3> QED
      BY <1>8, <2>3, <3>1, <3>3 DEF Unique
  <2>4. CASE c # b /\ d # b
    <3>1. u[c] = t[c] /\ c \in DOMAIN t /\ u[d] = t[d] /\ d \in DOMAIN t
      BY <1>1, <2>4
    <3> QED
      BY <1>8, <3>1 DEF Unique
  <2> QED
    BY <2>1, <2>2, <2>3, <2>4
<1>9. ASSUME NEW size, Slotted(t, size), SlotOf(n.key, size) = b PROVE Slotted(u, size)
  <2> SUFFICES ASSUME NEW c \in DOMAIN u, NEW i \in 1..Len(u[c])
               PROVE  SlotOf(u[c][i].key, size) = c
    BY DEF Slotted
  <2>1. CASE c = b
    BY <1>5, <1>9, <2>1 DEF Slotted
  <2>2. CASE c # b
    <3>1. u[c] = t[c] /\ c \in DOMAIN t
      BY <1>1, <2>2
    <3> QED
      BY <1>9, <3>1 DEF Slotted
  <2> QED
    BY <2>1, <2>2
<1> QED
  BY <1>1, <1>4, <1>6, <1>7, <1>8, <1>9

(* A node is taken out of its chain. *)
LEMMA UnlinkTable ==
    ASSUME NEW t, IsTable(t), Unique(t), NEW b \in DOMAIN t, NEW i \in 1..Len(t[b]),
           NEW u, u = UnlinkedAt(t, b, i)
    PROVE  /\ IsTable(u) /\ DOMAIN u = DOMAIN t
           /\ NodesIn(u) = NodesIn(t) \ {t[b][i]}
           /\ Unique(u)
           /\ \A size : Slotted(t, size) => Slotted(u, size)
<1>0. u = [c \in DOMAIN u |-> u[c]]
  BY DEF UnlinkedAt
<1>1. /\ DOMAIN u = DOMAIN t /\ u[b] = Unlink(t[b], i)
      /\ \A c \in DOMAIN t : c # b => u[c] = t[c]
  BY DEF UnlinkedAt
<1>2. /\ t[b] \in Seq(HashNodes) /\ Len(t[b]) \in Nat
      /\ \A j \in 1..Len(t[b]) : t[b][j] \in HashNodes /\ t[b][j] \in NodesIn(t)
  BY ChainFacts
<1>3. /\ u[b] \in Seq(HashNodes)
      /\ Len(u[b]) = Len(t[b]) - 1
      /\ \A j \in 1..(Len(t[b]) - 1) : u[b][j] = IF j < i THEN t[b][j] ELSE t[b][j + 1]
  <2>1. PICK s \in Seq(HashNodes) : s = t[b]
    BY <1>2
  <2>2. i \in 1..Len(s)
    BY <2>1
  <2>3. /\ Unlink(s, i) \in Seq(HashNodes)
        /\ Len(Unlink(s, i)) = Len(s) - 1
        /\ \A j \in 1..(Len(s) - 1) :
                Unlink(s, i)[j] = IF j < i THEN s[j] ELSE s[j + 1]
    BY <2>2, UnlinkFacts
  <2> QED
    BY ONLY <1>1, <2>1, <2>3
<1>4. IsTable(u)
  <2>1. \A c \in DOMAIN t : u[c] \in Seq(HashNodes)
    BY <1>1, <1>3 DEF IsTable
  <2> QED
    BY <1>0, <1>1, <2>1 DEF IsTable
(* The place in t of what is in a place of u. *)
<1>5. ASSUME NEW c \in DOMAIN t, NEW j \in 1..Len(u[c])
      PROVE  \E k \in 1..Len(t[c]) :
                /\ u[c][j] = t[c][k]
                /\ c = b => k # i /\ k = IF j < i THEN j ELSE j + 1
                /\ c # b => k = j
  <2>1. CASE c = b /\ j < i
    <3>1. j \in 1..Len(t[b]) /\ j # i /\ j \in 1..(Len(t[b]) - 1)
      BY <1>2, <1>3, <2>1
    <3> QED
      BY <1>3, <2>1, <3>1
  <2>2. CASE c = b /\ ~(j < i)
    <3>1. j + 1 \in 1..Len(t[b]) /\ j + 1 # i /\ j \in 1..(Len(t[b]) - 1)
      BY <1>2, <1>3, <2>2
    <3> QED
      BY <1>3, <2>2, <3>1
  <2>3. CASE c # b
    BY <1>1, <2>3
  <2> QED
    BY <2>1, <2>2, <2>3
<1>6. ASSUME NEW m \in NodesIn(u) PROVE m \in NodesIn(t) \ {t[b][i]}
  <2>1. PICK c \in DOMAIN u : \E j \in 1..Len(u[c]) : m = u[c][j]
    BY ONLY <1>4, NodeFacts, m \in NodesIn(u)
  <2>2. PICK j \in 1..Len(u[c]) : m = u[c][j]
    BY <2>1
  <2>3. PICK k \in 1..Len(t[c]) : m = t[c][k] /\ (c = b => k # i)
    BY <1>1, <1>5, <2>2
  <2>4. m \in NodesIn(t)
    BY <1>1, <2>3, ChainFacts
  <2>5. m # t[b][i]
    BY <1>1, <2>3 DEF Unique
  <2> QED
    BY <2>4, <2>5
<1>7. ASSUME NEW m \in NodesIn(t), m # t[b][i] PROVE m \in NodesIn(u)
  <2>1. PICK c \in DOMAIN t : \E j \in 1..Len(t[c]) : m = t[c][j]
    BY NodeFacts
  <2>2. PICK j \in 1..Len(t[c]) : m = t[c][j]
    BY <2>1
  <2>3. c \in DOMAIN u
    BY <1>1
  <2>4. \E k \in 1..Len(u[c]) : u[c][k] = m
    <3>1. CASE c # b
      <4>1. u[c] = t[c]
        BY <1>1, <3>1
      <4> QED
        BY <2>2, <4>1
    <3>2. CASE c = b /\ j < i
      <4>1. j \in 1..(Len(t[b]) - 1) /\ j \in 1..Len(u[b])
        BY <1>2, <1>3, <3>2
      <4> QED
        BY <1>3, <2>2, <3>2, <4>1
    <3>3. CASE c = b /\ ~(j < i)
      <4>1. j # i
        BY <1>7, <2>2, <3>3
      <4>2. /\ j - 1 \in 1..(Len(t[b]) - 1) /\ j - 1 \in 1..Len(u[b])
            /\ ~(j - 1 < i) /\ j - 1 + 1 = j
        BY <1>2, <1>3, <3>3, <4>1
      <4> QED
        BY <1>3, <2>2, <3>3, <4>2
    <3> QED
      BY <3>1, <3>2, <3>3
  <2> QED
    BY ONLY <1>4, <2>3, <2>4, ChainFacts
<1>8. Unique(u)
  <2> SUFFICES ASSUME NEW c \in DOMAIN u, NEW d \in DOMAIN u,
                      NEW j \in 1..Len(u[c]), NEW l \in 1..Len(u[d]),
                      u[c][j].key = u[d][l].key
               PROVE  c = d /\ j = l
    BY DEF Unique
  <2>0. c \in DOMAIN t /\ d \in DOMAIN t
    BY <1>1
  <2>1. PICK k \in 1..Len(t[c]) :
                /\ u[c][j] = t[c][k]
                /\ c = b => k # i /\ k = IF j < i THEN j ELSE j + 1
                /\ c # b => k = j
    BY <1>5, <2>0
  <2>2. PICK m \in 1..Len(t[d]) :
                /\ u[d][l] = t[d][m]
                /\ d = b => m # i /\ m = IF l < i THEN l ELSE l + 1
                /\ d # b => m = l
    BY <1>5, <2>0
  <2>3. c = d /\ k = m
    BY <1>1, <2>1, <2>2 DEF Unique
  <2>4. j \in Nat /\ l \in Nat /\ i \in Nat
    BY <1>2
  <2> QED
    BY <2>1, <2>2, <2>3, <2>4
<1>9. ASSUME NEW size, Slotted(t, size) PROVE Slotted(u, size)
  <2> SUFFICES ASSUME NEW c \in DOMAIN u, NEW j \in 1..Len(u[c])
               PROVE  SlotOf(u[c][j].key, size) = c
    BY DEF Slotted
  <2>1. PICK k \in 1..Len(t[c]) : u[c][j] = t[c][k]
    BY <1>1, <1>5
  <2> QED
    BY <1>1, <1>9, <2>1 DEF Slotted
<1> QED
  BY <1>1, <1>4, <1>6, <1>7, <1>8, <1>9

(* The value of a node is replaced. *)
LEMMA ReplaceTable ==
    ASSUME NEW t, IsTable(t), Unique(t), NEW b \in DOMAIN t, NEW i \in 1..Len(t[b]),
           NEW v \in HashValues,
           NEW u, u = ReplacedAt(t, b, i, v)
    PROVE  /\ IsTable(u) /\ DOMAIN u = DOMAIN t
           /\ NodesIn(u) = (NodesIn(t) \ {t[b][i]}) \cup {[key |-> t[b][i].key, value |-> v]}
           /\ Unique(u)
           /\ \A size : Slotted(t, size) => Slotted(u, size)
<1>0. u = [c \in DOMAIN u |-> u[c]]
  BY DEF ReplacedAt
<1>1. /\ t[b] \in Seq(HashNodes) /\ Len(t[b]) \in Nat
      /\ \A j \in 1..Len(t[b]) : t[b][j] \in HashNodes /\ t[b][j] \in NodesIn(t)
  BY ChainFacts
<1>2. PICK n \in HashNodes : n = [key |-> t[b][i].key, value |-> v]
  BY <1>1 DEF HashNodes
<1>3. [t[b][i] EXCEPT !.value = v] = n
  BY <1>1, <1>2 DEF HashNodes
<1>4. PICK s : s = [t[b] EXCEPT ![i] = n]
  OBVIOUS
<1>5. /\ s \in Seq(HashNodes) /\ Len(s) = Len(t[b]) /\ s[i] = n
      /\ \A j \in 1..Len(t[b]) : j # i => s[j] = t[b][j]
  BY <1>1, <1>4, ExceptSeq
<1>6. /\ DOMAIN u = DOMAIN t /\ u[b] = s
      /\ \A c \in DOMAIN t : c # b => u[c] = t[c]
  BY <1>3, <1>4 DEF ReplacedAt
<1>7. IsTable(u)
  <2>1. \A c \in DOMAIN t : u[c] \in Seq(HashNodes)
    BY <1>5, <1>6 DEF IsTable
  <2> QED
    BY <1>0, <1>6, <2>1 DEF IsTable
(* All but one of the nodes are as they were, that one keeps its key. *)
<1>8. ASSUME NEW c \in DOMAIN t
      PROVE  /\ Len(u[c]) = Len(t[c])
             /\ \A j \in 1..Len(t[c]) :
                    /\ u[c][j].key = t[c][j].key
                    /\ u[c][j] = IF c = b /\ j = i THEN n ELSE t[c][j]
  <2>1. CASE c = b
    <3>1. n.key = t[b][i].key
      BY <1>2
    <3> QED
      BY <1>5, <1>6, <2>1, <3>1
  <2>2. CASE c # b
    BY <1>6, <2>2
  <2> QED
    BY <2>1, <2>2
<1>9. ASSUME NEW m \in NodesIn(u) PROVE m \in (NodesIn(t) \ {t[b][i]}) \cup {n}
  <2>1. PICK c \in DOMAIN u : \E j \in 1..Len(u[c]) : m = u[c][j]
    BY ONLY <1>7, NodeFacts, m \in NodesIn(u)
  <2>2. PICK j \in 1..Len(u[c]) : m = u[c][j]
    BY <2>1
  <2>3. c \in DOMAIN t /\ j \in 1..Len(t[c])
    BY <1>6, <1>8, <2>2
  <2>4. CASE c = b /\ j = i
    BY <1>8, <2>2, <2>3, <2>4
  <2>5. CASE ~(c = b /\ j = i)
    <3>1. m = t[c][j]
      BY <1>8, <2>2, <2>3, <2>5
    <3>2. m \in NodesIn(t)
      BY <2>3, <3>1, ChainFacts
    <3>3. m # t[b][i]
      BY <2>3, <2>5, <3>1 DEF Unique
    <3> QED
      BY <3>2, <3>3
  <2> QED
    BY <2>4, <2>5
<1>10. ASSUME NEW m \in (NodesIn(t) \ {t[b][i]}) \cup {n} PROVE m \in NodesIn(u)
  <2>1. CASE m = n
    <3>1. b \in DOMAIN u /\ i \in 1..Len(u[b]) /\ u[b][i] = m
      BY <1>5, <1>6, <2>1
    <3>2. u[b][i] \in NodesIn(u)
      BY ONLY <1>7, <3>1, ChainFacts
    <3> QED
      BY <3>1, <3>2
  <2>2. CASE m \in NodesIn(t) /\ m # t[b][i]
    <3>1. PICK c \in DOMAIN t : \E j \in 1..Len(t[c]) : m = t[c][j]
      BY <2>2, NodeFacts
    <3>2. PICK j \in 1..Len(t[c]) : m = t[c][j]
      BY <3>1
    <3>3. u[c][j] = m /\ c \in DOMAIN u /\ j \in 1..Len(u[c])
      BY <1>6, <1>8, <2>2, <3>2
    <3>4. u[c][j] \in NodesIn(u)
      BY ONLY <1>7, <3>3, ChainFacts
    <3> QED
      BY <3>3, <3>4
  <2> QED
    BY <2>1, <2>2
<1>11. Unique(u)
  BY <1>6, <1>8 DEF Unique
<1>12. ASSUME NEW size, Slotted(t, size) PROVE Slotted(u, size)
  BY <1>6, <1>8, <1>12 DEF Slotted
<1> QED
  BY <1>2, <1>6, <1>7, <1>9, <1>10, <1>11, <1>12

LEMMA EmptyTableFacts ==
    ASSUME NEW size \in Nat \ {0}
    PROVE  /\ EmptyTable(size) \in [Slots(size) -> Seq(HashNodes)]
           /\ IsTable(EmptyTable(size)) /\ DOMAIN EmptyTable(size) = Slots(size)
           /\ NodesIn(EmptyTable(size)) = {}
           /\ Unique(EmptyTable(size)) /\ Slotted(EmptyTable(size), size)
<1>1. Slots(size) \subseteq Nat
  BY DEF Slots
<1>2. PICK e : e = EmptyTable(size)
  OBVIOUS
<1>3. /\ e \in [Slots(size) -> Seq(HashNodes)] /\ DOMAIN e = Slots(size)
      /\ \A b \in DOMAIN e : e[b] = <<>> /\ 1..Len(e[b]) = {}
  <2>1. \A b \in Slots(size) : e[b] = <<>>
    BY <1>2 DEF EmptyTable
  <2>2. 1..Len(<<>>) = {}
    BY EmptySeq
  <2> QED
    BY <1>2, <2>1, <2>2 DEF EmptyTable
<1> QED
  BY <1>1, <1>2, <1>3 DEF IsTable, NodesIn, Unique, Slotted

LEMMA NoTableFacts ==
    IsTable(<<>>) /\ NodesIn(<<>>) = {} /\ Unique(<<>>) /\ DOMAIN <<>> = {}
<1>1. DOMAIN <<>> = {}
  OBVIOUS
<1> QED
  BY <1>1 DEF IsTable, NodesIn, Unique

LEMMA SlotIsASlot ==
    ASSUME NEW k \in Keys, NEW size \in Nat \ {0}
    PROVE  SlotOf(k, size) \in Slots(size)
<1>1. PICK h \in Nat : h = hash_function(k)
  BY HashAssumption
<1>2. h % size \in 0..(size - 1)
  OBVIOUS
<1> QED
  BY <1>1, <1>2 DEF SlotOf, Slots

(* The size that resize takes is the first that is large enough. *)
LEMMA SizeForFacts ==
    ASSUME NEW n \in Nat, \E i \in 1..Len(prime_numbers) : IsLargeEnough(i, n)
    PROVE  SizeFor(n) \in Nat \ {0} /\ SizeFor(n) >= n
<1>1. PICK S : S = {i \in 1..Len(prime_numbers) : IsLargeEnough(i, n)}
  OBVIOUS
<1>2. S \in SUBSET Nat /\ S # {} /\ Len(prime_numbers) \in Nat
  BY <1>1, HashAssumption, LenProperties
<1>3. PICK x \in S : \A y \in S : x <= y
  BY <1>2, LeastExists
<1>4. x \in 1..Len(prime_numbers) /\ IsLargeEnough(x, n)
  BY <1>1
<1>5. \A j \in 1..(x - 1) : ~IsLargeEnough(j, n)
  <2> SUFFICES ASSUME NEW j \in 1..(x - 1), IsLargeEnough(j, n) PROVE FALSE
    OBVIOUS
  <2>1. j \in 1..Len(prime_numbers) /\ j < x /\ x \in Nat
    BY <1>2, <1>4
  <2> QED
    BY <1>1, <1>3, <2>1
<1>6. PICK c \in 1..Len(prime_numbers) : IsLargeEnough(c, n) /\ SizeFor(n) = prime_numbers[c]
  <2>1. \E i \in 1..Len(prime_numbers) :
            IsLargeEnough(i, n) /\ \A j \in 1..(i - 1) : ~IsLargeEnough(j, n)
    BY <1>4, <1>5
  <2> QED
    BY <2>1 DEF SizeFor
<1>7. prime_numbers[c] \in Nat \ {0}
  BY HashAssumption, ElementOfSeq
<1> QED
  BY <1>6, <1>7 DEF IsLargeEnough

-----------------------------------------------------------------------------
(* Sets of nodes *)

(* A key names a node of S. *)
KeysName(S) == \A m, n \in S : m.key = n.key => m = n

LEMMA KeysOfAdded ==
    ASSUME NEW S, NEW n
    PROVE  KeysOf(S \cup {n}) = KeysOf(S) \cup {n.key}
BY DEF KeysOf

LEMMA KeysOfDropped ==
    ASSUME NEW S, KeysName(S), NEW n \in S
    PROVE  KeysOf(S \ {n}) = KeysOf(S) \ {n.key}
BY DEF KeysOf, KeysName

(* What the invariant says of the two tables. *)
LEMMA InvFacts ==
    ASSUME HashInv
    PROVE  /\ IsTable(table) /\ DOMAIN table = Slots(table_size)
           /\ IsTable(old_table)
           /\ table_size \in Nat \ {0} /\ element_count \in Nat
           /\ task # "resize" => NodesIn(old_table) = {} /\ AllNodes = NodesIn(table)
           /\ KeysName(AllNodes)
           /\ AllNodes \subseteq HashNodes
<1>1. /\ DOMAIN table = Slots(table_size) /\ table \in [Slots(table_size) -> Seq(HashNodes)]
      /\ table_size \in Nat \ {0} /\ element_count \in Nat /\ IsTable(old_table)
  BY DEF HashInv, HashTypeOK, IsTable
<1>2. IsTable(table)
  <2>1. Slots(table_size) \subseteq Nat
    BY <1>1 DEF Slots
  <2> QED
    BY <1>1, <2>1 DEF IsTable
<1>3. task # "resize" => NodesIn(old_table) = {} /\ AllNodes = NodesIn(table)
  BY NoTableFacts DEF HashInv, AllNodes
<1>4. KeysName(AllNodes)
  <2> SUFFICES ASSUME NEW m \in AllNodes, NEW n \in AllNodes, m.key = n.key PROVE m = n
    BY DEF KeysName
  <2>1. CASE m \in NodesIn(table) /\ n \in NodesIn(table)
    BY <1>2, <2>1, KeyNamesNode DEF HashInv
  <2>2. CASE m \in NodesIn(old_table) /\ n \in NodesIn(old_table)
    BY <1>1, <2>2, KeyNamesNode DEF HashInv
  <2>3. ASSUME NEW a \in NodesIn(table), NEW b \in NodesIn(old_table) PROVE a.key # b.key
    BY DEF HashInv, KeysOf
  <2> QED
    BY <2>1, <2>2, <2>3 DEF AllNodes
<1>5. AllNodes \subseteq HashNodes
  BY <1>1, <1>2, NodeFacts DEF AllNodes
<1> QED
  BY <1>1, <1>2, <1>3, <1>4, <1>5

(* A find sees the keys of the table. *)
LEMMA MatchFacts ==
    ASSUME HashInv, NEW k \in Keys
    PROVE  /\ SlotOf(k, table_size) \in DOMAIN table
           /\ hash_has_key(k) <=> k \in KeysOf(NodesIn(table))
           /\ hash_has_key(k) =>
                /\ First(Matches(k)) \in 1..Len(table[SlotOf(k, table_size)])
                /\ table[SlotOf(k, table_size)][First(Matches(k))].key = k
<1>1. PICK b : b = SlotOf(k, table_size)
  OBVIOUS
<1>2. b \in DOMAIN table
  BY <1>1, InvFacts, SlotIsASlot
<1>3. Matches(k) = {i \in 1..Len(table[b]) : table[b][i].key = k}
  BY <1>1 DEF Matches
<1>4. /\ Matches(k) \in SUBSET Nat
  BY <1>3
<1>5. ASSUME hash_has_key(k)
      PROVE  First(Matches(k)) \in 1..Len(table[b]) /\ table[b][First(Matches(k))].key = k
  <2>1. First(Matches(k)) \in Matches(k)
    BY <1>4, <1>5, FirstFacts DEF hash_has_key
  <2> QED
    BY <1>3, <2>1
<1>6. ASSUME hash_has_key(k) PROVE k \in KeysOf(NodesIn(table))
  <2>1. PICK i \in 1..Len(table[b]) : table[b][i].key = k
    BY <1>5, <1>6
  <2>2. table[b][i] \in NodesIn(table)
    BY ONLY <1>2, InvFacts, HashInv, ChainFacts
  <2> QED
    BY <2>1, <2>2 DEF KeysOf
<1>7. ASSUME k \in KeysOf(NodesIn(table)) PROVE hash_has_key(k)
  <2>1. PICK n \in NodesIn(table) : n.key = k
    BY <1>7 DEF KeysOf
  <2>2. PICK c \in DOMAIN table : \E i \in 1..Len(table[c]) : n = table[c][i]
    BY InvFacts, NodeFacts
  <2>3. PICK i \in 1..Len(table[c]) : n = table[c][i]
    BY <2>2
  <2>4. c = b
    BY <1>1, <2>1, <2>3 DEF HashInv, Slotted
  <2> QED
    BY <1>3, <2>1, <2>3, <2>4 DEF hash_has_key
<1> QED
  BY <1>1, <1>2, <1>5, <1>6, <1>7

LEMMA FirstWithNodes ==
    ASSUME NEW t, IsTable(t), HasNodes(t) # {}
    PROVE  First(HasNodes(t)) \in DOMAIN t /\ t[First(HasNodes(t))] # <<>>
<1>1. PICK S : S = HasNodes(t)
  OBVIOUS
<1>2. S \in SUBSET Nat /\ S # {}
  BY <1>1 DEF HasNodes, IsTable
<1>3. First(S) \in S
  BY <1>2, FirstFacts
<1> QED
  BY <1>1, <1>3 DEF HasNodes

LEMMA NoneLeft ==
    ASSUME NEW t, IsTable(t), HasNodes(t) = {}
    PROVE  NodesIn(t) = {}
<1>1. ASSUME NEW b \in DOMAIN t PROVE 1..Len(t[b]) = {}
  BY <1>1, EmptySeq DEF HasNodes
<1> QED
  BY <1>1 DEF NodesIn

-----------------------------------------------------------------------------
(* The initial state and the actions, each with what it does to the nodes *)

LEMMA HashInvInit ==
    ASSUME HashInit
    PROVE  HashInv /\ AllNodes = {}
<1>1. table_size \in Nat \ {0}
  <2>1. 1 \in 1..Len(prime_numbers)
    BY HashAssumption, LenProperties
  <2> QED
    BY <2>1, HashAssumption, ElementOfSeq DEF HashInit
<1>2. /\ table \in [Slots(table_size) -> Seq(HashNodes)] /\ NodesIn(table) = {}
      /\ Unique(table) /\ Slotted(table, table_size)
  BY <1>1, EmptyTableFacts DEF HashInit
<1>3. IsTable(old_table) /\ NodesIn(old_table) = {} /\ Unique(old_table)
  BY NoTableFacts DEF HashInit
<1>4. AllNodes = {} /\ KeysOf(AllNodes) = {}
  BY <1>2, <1>3 DEF AllNodes, KeysOf
<1>5. IsFiniteSet(KeysOf(AllNodes)) /\ Cardinality(KeysOf(AllNodes)) = 0
  BY <1>4, FS_EmptySet
<1>6. HashTypeOK
  BY <1>1, <1>2, <1>3 DEF HashTypeOK, HashInit, IsTable
<1>7. KeysOf(NodesIn(table)) = {}
  BY <1>2 DEF KeysOf
<1> QED
  BY <1>1, <1>2, <1>3, <1>4, <1>5, <1>6, <1>7 DEF HashInv, HashInit

(* An insert adds a node, in the table or in the one that resize empties. *)
LEMMA HashInvInsert ==
    ASSUME HashInv, NEW k \in Keys, NEW v \in HashValues,
           ~hash_has_key(k), hash_insert(k, v)
    PROVE  /\ HashInv'
           /\ k \notin KeysOf(AllNodes)
           /\ AllNodes' = AllNodes \cup {[key |-> k, value |-> v]}
<1>1. PICK n \in HashNodes : n = [key |-> k, value |-> v]
  BY DEF HashNodes
<1>2. PICK b : b = SlotOf(k, table_size)
  OBVIOUS
<1>3. PICK u : u = PushedAt(table, b, n)
  OBVIOUS
<1>4. /\ IsTable(table) /\ DOMAIN table = Slots(table_size) /\ b \in DOMAIN table
      /\ task = "none" /\ old_table = <<>> /\ NodesIn(old_table) = {}
      /\ AllNodes = NodesIn(table) /\ table_size \in Nat \ {0} /\ element_count \in Nat
  <2>1. task = "none"
    BY DEF hash_insert
  <2>2. old_table = <<>>
    BY <2>1 DEF HashInv
  <2> QED
    BY <1>2, <2>1, <2>2, InvFacts, MatchFacts
<1>5. k \notin KeysOf(AllNodes) /\ n.key = k
  BY <1>1, <1>4, MatchFacts
<1>6. u = Link(table, table_size, n)
  BY <1>1, <1>2, <1>3 DEF Link, Pushed, PushedAt
<1>7. /\ IsTable(u) /\ DOMAIN u = DOMAIN table
      /\ NodesIn(u) = NodesIn(table) \cup {n}
      /\ Unique(u) /\ Slotted(u, table_size)
  <2>1. n.key \notin KeysOf(NodesIn(table)) /\ SlotOf(n.key, table_size) = b
    BY <1>2, <1>4, <1>5
  <2>2. /\ IsTable(u) /\ DOMAIN u = DOMAIN table
        /\ NodesIn(u) = NodesIn(table) \cup {n}
        /\ Unique(table) /\ n.key \notin KeysOf(NodesIn(table)) => Unique(u)
        /\ \A size : Slotted(table, size) /\ SlotOf(n.key, size) = b => Slotted(u, size)
    BY ONLY <1>3, <1>4, PushTable, n \in HashNodes
  <2> QED
    BY <2>1, <2>2 DEF HashInv
<1>8. element_count' = element_count + 1 /\ Resize(u, element_count + 1)
  BY <1>1, <1>6 DEF hash_insert
<1>9. /\ IsFiniteSet(KeysOf(AllNodes) \cup {k})
      /\ Cardinality(KeysOf(AllNodes) \cup {k}) = element_count + 1
  BY <1>5, FS_AddElement DEF HashInv
<1>10. CASE table_size < element_count + 1
  <2>1. PICK z : z = SizeFor(element_count + 1)
    OBVIOUS
  <2>2. /\ \E i \in 1..Len(prime_numbers) : IsLargeEnough(i, element_count + 1)
        /\ old_table' = u /\ table_size' = z /\ table' = EmptyTable(z) /\ task' = "resize"
    BY <1>8, <1>10, <2>1 DEF Resize
  <2>3. z \in Nat \ {0} /\ z >= element_count + 1
    BY <1>4, <2>1, <2>2, SizeForFacts
  <2>4. /\ table' \in [Slots(z) -> Seq(HashNodes)] /\ NodesIn(table') = {}
        /\ Unique(table') /\ Slotted(table', z)
    BY <2>2, <2>3, EmptyTableFacts
  <2>5. AllNodes' = AllNodes \cup {n}
    BY <1>4, <1>7, <2>2, <2>4 DEF AllNodes
  <2>6. KeysOf(AllNodes') = KeysOf(AllNodes) \cup {k}
    BY <1>5, <2>5, KeysOfAdded
  <2>7. KeysOf(NodesIn(table')) = {}
    BY <2>4 DEF KeysOf
  <2>8. HashTypeOK'
    BY <1>4, <1>7, <1>8, <2>2, <2>3, <2>4 DEF HashTypeOK, IsTable
  <2>9. HashInv'
    BY <1>7, <1>8, <1>9, <2>2, <2>3, <2>4, <2>6, <2>7, <2>8 DEF HashInv
  <2> QED
    BY <1>1, <1>5, <2>5, <2>9
<1>11. CASE ~(table_size < element_count + 1)
  <2>1. /\ table' = u /\ table_size' = table_size /\ old_table' = old_table /\ task' = task
    BY <1>8, <1>11 DEF Resize
  <2>2. AllNodes' = AllNodes \cup {n}
    BY <1>4, <1>7, <2>1 DEF AllNodes
  <2>3. KeysOf(AllNodes') = KeysOf(AllNodes) \cup {k}
    BY <1>5, <2>2, KeysOfAdded
  <2>4. KeysOf(NodesIn(old_table')) = {}
    BY <1>4, <2>1 DEF KeysOf
  <2>5. HashTypeOK'
    BY <1>4, <1>7, <1>8, <2>1 DEF HashTypeOK, IsTable, HashInv
  <2>6. element_count' <= table_size'
    BY <1>4, <1>8, <1>11, <2>1
  <2>7. HashInv'
    BY <1>4, <1>7, <1>8, <1>9, <2>1, <2>3, <2>4, <2>5, <2>6 DEF HashInv
  <2> QED
    BY <1>1, <1>5, <2>2, <2>7
<1> QED
  BY <1>10, <1>11

(* A step of resize takes a node from one table to the other. *)
LEMMA HashInvResizeStep ==
    ASSUME HashInv, ResizeStep
    PROVE  HashInv' /\ AllNodes' = AllNodes
<1>1. /\ IsTable(table) /\ DOMAIN table = Slots(table_size) /\ IsTable(old_table)
      /\ table_size \in Nat \ {0} /\ element_count \in Nat
  BY InvFacts
<1>2. task = "resize" /\ table_size' = table_size /\ element_count' = element_count
  BY DEF ResizeStep
<1>3. CASE HasNodes(old_table) = {}
  <2>1. old_table' = <<>> /\ task' = "none" /\ table' = table
    BY <1>3 DEF ResizeStep
  <2>2. NodesIn(old_table) = {} /\ NodesIn(old_table') = {}
        /\ IsTable(old_table') /\ Unique(old_table')
    BY <1>1, <1>3, <2>1, NoneLeft, NoTableFacts
  <2>3. AllNodes' = AllNodes
    BY <2>1, <2>2 DEF AllNodes
  <2>4. HashTypeOK'
    BY <1>2, <2>1, <2>2 DEF HashTypeOK, HashInv, IsTable
  <2>5. KeysOf(NodesIn(old_table')) = {}
    BY <2>2 DEF KeysOf
  <2>6. element_count' <= table_size'
    BY <1>2 DEF HashInv
  <2> QED
    BY <1>2, <2>1, <2>2, <2>3, <2>4, <2>5, <2>6 DEF HashInv
<1>4. CASE HasNodes(old_table) # {}
  <2>1. PICK b : b = First(HasNodes(old_table))
    OBVIOUS
  <2>2. b \in DOMAIN old_table /\ old_table[b] # <<>>
    BY <1>1, <1>4, <2>1, FirstWithNodes
  <2>3. PICK n : n = old_table[b][1]
    OBVIOUS
  <2>4. /\ old_table[b] \in Seq(HashNodes)
        /\ 1 \in 1..Len(old_table[b])
        /\ Tail(old_table[b]) = Unlink(old_table[b], 1) /\ Head(old_table[b]) = n
        /\ n \in HashNodes /\ n \in NodesIn(old_table)
    <3>1. old_table[b] \in Seq(HashNodes)
      BY <1>1, <2>2, ChainFacts
    <3>2. /\ 1 \in 1..Len(old_table[b])
          /\ Tail(old_table[b]) = Unlink(old_table[b], 1) /\ Head(old_table[b]) = n
      BY <2>2, <2>3, <3>1, TailIsUnlink
    <3> QED
      BY <1>1, <2>2, <2>3, <3>1, <3>2, ChainFacts
  <2>5. PICK c : c = SlotOf(n.key, table_size)
    OBVIOUS
  <2>6. c \in DOMAIN table
    <3>1. n.key \in Keys
      BY <2>4 DEF HashNodes
    <3> QED
      BY <1>1, <2>5, <3>1, SlotIsASlot
  <2>7. /\ old_table' = UnlinkedAt(old_table, b, 1)
        /\ table' = PushedAt(table, c, n)
        /\ task' = "resize"
    <3>1. /\ old_table' = [old_table EXCEPT ![b] = Tail(@)]
          /\ table' = Link(table, table_size, Head(old_table[b])) /\ task' = task
      BY <1>4, <2>1 DEF ResizeStep
    <3>2. old_table' = UnlinkedAt(old_table, b, 1)
      BY <2>4, <3>1 DEF UnlinkedAt
    <3> QED
      BY <1>2, <2>4, <2>5, <3>1, <3>2 DEF Link, Pushed, PushedAt
  <2>8. PICK t, o : t = table' /\ o = old_table'
    OBVIOUS
  <2>9. n.key \notin KeysOf(NodesIn(table))
    BY <2>4 DEF HashInv, KeysOf
  <2>10. /\ IsTable(t) /\ DOMAIN t = DOMAIN table
         /\ NodesIn(t) = NodesIn(table) \cup {n}
         /\ Unique(t) /\ Slotted(t, table_size)
    <3>1. t = PushedAt(table, c, n) /\ n \in HashNodes
      BY <2>4, <2>7, <2>8
    <3>2. /\ IsTable(t) /\ DOMAIN t = DOMAIN table
          /\ NodesIn(t) = NodesIn(table) \cup {n}
          /\ Unique(table) /\ n.key \notin KeysOf(NodesIn(table)) => Unique(t)
          /\ \A size : Slotted(table, size) /\ SlotOf(n.key, size) = c => Slotted(t, size)
      BY ONLY <1>1, <2>6, <3>1, PushTable
    <3> QED
      BY <2>5, <2>9, <3>2 DEF HashInv
  <2>11. /\ IsTable(o) /\ DOMAIN o = DOMAIN old_table
         /\ NodesIn(o) = NodesIn(old_table) \ {n}
         /\ Unique(o)
    <3>1. o = UnlinkedAt(old_table, b, 1) /\ Unique(old_table)
      BY <2>7, <2>8 DEF HashInv
    <3> QED
      BY ONLY <1>1, <2>2, <2>3, <2>4, <3>1, UnlinkTable
  <2>12. AllNodes' = AllNodes
    BY <2>4, <2>8, <2>10, <2>11 DEF AllNodes
  <2>13. KeysOf(NodesIn(t)) \cap KeysOf(NodesIn(o)) = {}
    <3>1. ASSUME NEW a \in NodesIn(t), NEW d \in NodesIn(o) PROVE a.key # d.key
      <4>1. CASE a = n
        BY <1>1, <2>4, <2>11, <3>1, <4>1, KeyNamesNode DEF HashInv
      <4>2. CASE a # n
        BY <2>10, <2>11, <3>1, <4>2 DEF HashInv, KeysOf
      <4> QED
        BY <4>1, <4>2
    <3> QED
      BY <3>1 DEF KeysOf
  <2>14. HashTypeOK'
    BY <1>1, <1>2, <2>7, <2>8, <2>10, <2>11 DEF HashTypeOK, IsTable
  <2>15. element_count' <= table_size'
    BY <1>2 DEF HashInv
  <2> QED
    BY <1>2, <2>7, <2>8, <2>10, <2>11, <2>12, <2>13, <2>14, <2>15 DEF HashInv
<1> QED
  BY <1>3, <1>4

LEMMA HashInvErase ==
    ASSUME HashInv, task # "resize", NEW b \in DOMAIN table, NEW i \in 1..Len(table[b]),
           EraseNode(b, i), UNCHANGED task
    PROVE  /\ HashInv'
           /\ table[b][i] \in AllNodes
           /\ AllNodes' = AllNodes \ {table[b][i]}
<1>1. /\ IsTable(table) /\ DOMAIN table = Slots(table_size) /\ IsTable(old_table)
      /\ table_size \in Nat \ {0} /\ element_count \in Nat
      /\ NodesIn(old_table) = {} /\ AllNodes = NodesIn(table) /\ KeysName(AllNodes)
  BY InvFacts
<1>2. PICK n : n = table[b][i]
  OBVIOUS
<1>3. n \in AllNodes
  BY <1>1, <1>2, ChainFacts
<1>4. PICK t : t = UnlinkedAt(table, b, i)
  OBVIOUS
<1>5. /\ table' = t /\ table_size' = table_size /\ old_table' = old_table
      /\ element_count' = element_count - 1 /\ task' = task
  BY <1>4 DEF EraseNode, UnlinkedAt
<1>6. /\ IsTable(t) /\ DOMAIN t = DOMAIN table
      /\ NodesIn(t) = NodesIn(table) \ {n}
      /\ Unique(t)
      /\ \A size : Slotted(table, size) => Slotted(t, size)
  <2>1. Unique(table)
    BY DEF HashInv
  <2> QED
    BY ONLY <1>1, <1>2, <1>4, <2>1, UnlinkTable, b \in DOMAIN table, i \in 1..Len(table[b])
<1>7. AllNodes' = AllNodes \ {n}
  BY <1>1, <1>5, <1>6 DEF AllNodes
<1>8. KeysOf(AllNodes') = KeysOf(AllNodes) \ {n.key} /\ n.key \in KeysOf(AllNodes)
  <2>1. n.key \in KeysOf(AllNodes)
    BY <1>3 DEF KeysOf
  <2> QED
    BY <1>1, <1>3, <1>7, <2>1, KeysOfDropped
<1>9. /\ IsFiniteSet(KeysOf(AllNodes'))
      /\ Cardinality(KeysOf(AllNodes')) = element_count - 1
      /\ element_count # 0
  <2>1. IsFiniteSet(KeysOf(AllNodes)) /\ element_count = Cardinality(KeysOf(AllNodes))
    BY DEF HashInv
  <2> QED
    BY <1>8, <2>1, FS_RemoveElement, FS_EmptySet
<1>10. HashTypeOK'
  <2>1. element_count - 1 \in Nat
    BY <1>1, <1>9
  <2> QED
    BY <1>1, <1>5, <1>6, <2>1 DEF HashTypeOK, IsTable, HashInv
<1>11. KeysOf(NodesIn(old_table')) = {}
  BY <1>1, <1>5 DEF KeysOf
<1>12. task' # "clear" => element_count' <= table_size'
  BY <1>1, <1>5 DEF HashInv
<1> QED
  BY <1>2, <1>3, <1>5, <1>6, <1>7, <1>9, <1>10, <1>11, <1>12 DEF HashInv

LEMMA HashInvReplace ==
    ASSUME HashInv, task = "none", NEW b \in DOMAIN table, NEW i \in 1..Len(table[b]),
           NEW v \in HashValues,
           table' = ReplacedAt(table, b, i, v),
           UNCHANGED <<table_size, element_count, old_table, task>>
    PROVE  /\ HashInv'
           /\ table[b][i] \in AllNodes
           /\ AllNodes' = (AllNodes \ {table[b][i]}) \cup {[key |-> table[b][i].key, value |-> v]}
<1>1. /\ IsTable(table) /\ DOMAIN table = Slots(table_size) /\ IsTable(old_table)
      /\ NodesIn(old_table) = {} /\ AllNodes = NodesIn(table) /\ KeysName(AllNodes)
  BY InvFacts
<1>2. PICK n, m : n = table[b][i] /\ m = [key |-> table[b][i].key, value |-> v]
  OBVIOUS
<1>3. n \in AllNodes /\ m.key = n.key
  BY <1>1, <1>2, ChainFacts
<1>4. PICK t : t = table'
  OBVIOUS
<1>5. /\ IsTable(t) /\ DOMAIN t = DOMAIN table
      /\ NodesIn(t) = (NodesIn(table) \ {n}) \cup {m}
      /\ Unique(t)
      /\ \A size : Slotted(table, size) => Slotted(t, size)
  <2>1. Unique(table) /\ t = ReplacedAt(table, b, i, v)
    BY <1>4 DEF HashInv
  <2> QED
    BY ONLY <1>1, <1>2, <2>1, ReplaceTable,
            b \in DOMAIN table, i \in 1..Len(table[b]), v \in HashValues
<1>6. AllNodes' = (AllNodes \ {n}) \cup {m}
  BY <1>1, <1>4, <1>5 DEF AllNodes
<1>7. KeysOf(AllNodes') = KeysOf(AllNodes)
  <2>1. n.key \in KeysOf(AllNodes)
    BY <1>3 DEF KeysOf
  <2>2. PICK S : S = AllNodes \ {n}
    OBVIOUS
  <2>3. KeysOf(S) = KeysOf(AllNodes) \ {n.key}
    BY <1>1, <1>3, <2>2, KeysOfDropped
  <2>4. KeysOf(S \cup {m}) = KeysOf(S) \cup {m.key}
    BY KeysOfAdded
  <2> QED
    BY ONLY <1>3, <1>6, <2>1, <2>2, <2>3, <2>4
<1>8. HashTypeOK'
  BY <1>1, <1>4, <1>5 DEF HashTypeOK, IsTable, HashInv
<1>9. KeysOf(NodesIn(old_table')) = {}
  BY <1>1 DEF KeysOf
<1> QED
  BY <1>2, <1>3, <1>4, <1>5, <1>6, <1>7, <1>8, <1>9 DEF HashInv

LEMMA HashInvStill ==
    ASSUME HashInv, UNCHANGED <<table, table_size, element_count, old_table>>,
           \/ task' = task
           \/ task = "none" /\ task' = "clear"
           \/ task = "clear" /\ task' = "none" /\ AllNodes = {}
    PROVE  HashInv' /\ AllNodes' = AllNodes
<1>1. AllNodes' = AllNodes
  BY DEF AllNodes
<1>2. HashTypeOK'
  BY DEF HashInv, HashTypeOK
<1>3. task' # "resize" => old_table' = <<>>
  BY DEF HashInv
<1>4. task' # "clear" => element_count' <= table_size'
  <2>1. CASE AllNodes = {}
    <3>1. element_count = 0
      BY <2>1, FS_EmptySet DEF HashInv, KeysOf
    <3> QED
      BY <3>1, InvFacts
  <2> QED
    BY <2>1 DEF HashInv
<1> QED
  BY <1>1, <1>2, <1>3, <1>4 DEF HashInv

-----------------------------------------------------------------------------
(* What a step does to the nodes: the steps of a map *)

Adds(n) == n.key \notin KeysOf(AllNodes) /\ AllNodes' = AllNodes \cup {n}

Drops(n) == n \in AllNodes /\ AllNodes' = AllNodes \ {n}

Changes(n, v) ==
    n \in AllNodes /\ AllNodes' = (AllNodes \ {n}) \cup {[key |-> n.key, value |-> v]}

StepOfNodes ==
    \/ AllNodes' = AllNodes
    \/ \E n \in HashNodes :
        \/ Adds(n)
        \/ Drops(n)
        \/ \E v \in HashValues : Changes(n, v)

LEMMA HashInvNext ==
    ASSUME HashInv, [HashNext]_hashVars
    PROVE  HashInv' /\ StepOfNodes
<1>0. AllNodes \subseteq HashNodes /\ IsTable(table)
  BY InvFacts
<1>1. ASSUME NEW k \in Keys, NEW v \in HashValues, ~hash_has_key(k), hash_insert(k, v)
      PROVE  HashInv' /\ StepOfNodes
  <2>1. PICK n \in HashNodes : n = [key |-> k, value |-> v]
    BY DEF HashNodes
  <2>2. HashInv' /\ k \notin KeysOf(AllNodes) /\ AllNodes' = AllNodes \cup {n}
    BY ONLY HashInv, <1>1, <2>1, HashInvInsert
  <2>3. Adds(n)
    BY <2>1, <2>2 DEF Adds
  <2> QED
    BY <2>2, <2>3 DEF StepOfNodes
<1>2. CASE ResizeStep
  BY <1>2, HashInvResizeStep DEF StepOfNodes
<1>3. ASSUME task # "resize", NEW b \in DOMAIN table, NEW i \in 1..Len(table[b]),
             EraseNode(b, i), UNCHANGED task
      PROVE  HashInv' /\ StepOfNodes
  <2>1. PICK n : n = table[b][i]
    OBVIOUS
  <2>2. HashInv' /\ Drops(n)
    BY ONLY HashInv, <1>3, <2>1, HashInvErase DEF Drops
  <2>3. n \in HashNodes
    BY <1>0, <2>2 DEF Drops
  <2> QED
    BY <2>2, <2>3 DEF StepOfNodes
<1>4. CASE ClearStep
  <2>1. CASE HasNodes(table) = {}
    <3>1. NodesIn(table) = {}
      BY <1>0, <2>1, NoneLeft
    <3>2. /\ task = "clear" /\ task' = "none" /\ AllNodes = {}
          /\ UNCHANGED <<table, table_size, element_count, old_table>>
      BY <1>4, <2>1, <3>1, InvFacts DEF ClearStep
    <3> QED
      BY ONLY HashInv, <3>2, HashInvStill DEF StepOfNodes
  <2>2. CASE HasNodes(table) # {}
    <3>1. PICK b : b = First(HasNodes(table))
      OBVIOUS
    <3>2. b \in DOMAIN table /\ table[b] # <<>>
      BY <1>0, <2>2, <3>1, FirstWithNodes
    <3>3. 1 \in 1..Len(table[b])
      <4>1. table[b] \in Seq(HashNodes)
        BY <1>0, <3>2, ChainFacts
      <4> QED
        BY <3>2, <4>1, TailIsUnlink
    <3>4. task = "clear" /\ EraseNode(b, 1) /\ UNCHANGED task
      BY <1>4, <2>2, <3>1 DEF ClearStep
    <3> QED
      BY <1>3, <3>2, <3>3, <3>4
  <2> QED
    BY <2>1, <2>2
<1>5. CASE hash_clear
  <2>1. /\ task = "none" /\ task' = "clear"
        /\ UNCHANGED <<table, table_size, element_count, old_table>>
    BY <1>5 DEF hash_clear
  <2> QED
    BY ONLY HashInv, <2>1, HashInvStill DEF StepOfNodes
<1>6. ASSUME NEW k \in Keys, hash_erase(k) PROVE HashInv' /\ StepOfNodes
  <2>1. CASE hash_has_key(k)
    <3>1. PICK b, i : b = SlotOf(k, table_size) /\ i = First(Matches(k))
      OBVIOUS
    <3>2. b \in DOMAIN table /\ i \in 1..Len(table[b])
      BY <2>1, <3>1, MatchFacts
    <3>3. task = "none" /\ EraseNode(b, i) /\ UNCHANGED task
      BY <1>6, <2>1, <3>1 DEF hash_erase
    <3> QED
      BY <1>3, <3>2, <3>3
  <2>2. CASE ~hash_has_key(k)
    <3>1. /\ UNCHANGED <<table, table_size, element_count, old_table>>
          /\ task' = task
      BY <1>6, <2>2 DEF hash_erase
    <3> QED
      BY ONLY HashInv, <3>1, HashInvStill DEF StepOfNodes
  <2> QED
    BY <2>1, <2>2
<1>7. ASSUME NEW k \in Keys, NEW v \in HashValues, hash_insert_replace(k, v)
      PROVE  HashInv' /\ StepOfNodes
  <2>1. CASE ~hash_has_key(k)
    BY <1>1, <1>7, <2>1 DEF hash_insert_replace
  <2>2. CASE hash_has_key(k)
    <3>1. PICK b, i : b = SlotOf(k, table_size) /\ i = First(Matches(k))
      OBVIOUS
    <3>2. b \in DOMAIN table /\ i \in 1..Len(table[b])
      BY <2>2, <3>1, MatchFacts
    <3>3. /\ task = "none" /\ table' = ReplacedAt(table, b, i, v)
          /\ UNCHANGED <<table_size, element_count, old_table, task>>
      BY <1>7, <2>2, <3>1 DEF hash_insert_replace, ReplacedAt
    <3>4. PICK n : n = table[b][i]
      OBVIOUS
    <3>5. HashInv' /\ Changes(n, v)
      BY ONLY HashInv, <3>2, <3>3, <3>4, v \in HashValues, HashInvReplace DEF Changes
    <3>6. n \in HashNodes
      BY <1>0, <3>5 DEF Changes
    <3> QED
      BY <3>5, <3>6 DEF StepOfNodes
  <2> QED
    BY <2>1, <2>2
<1>8. CASE UNCHANGED hashVars
  <2>1. UNCHANGED <<table, table_size, element_count, old_table>> /\ task' = task
    BY <1>8 DEF hashVars
  <2> QED
    BY ONLY HashInv, <2>1, HashInvStill DEF StepOfNodes
<1> QED
  BY <1>1, <1>2, <1>4, <1>5, <1>6, <1>7, <1>8 DEF HashNext, HashLoop

LEMMA HashInvAlways == HashSpec => []HashInv
<1>1. HashInit => HashInv
  BY HashInvInit
<1>2. HashInv /\ [HashNext]_hashVars => HashInv'
  BY HashInvNext
<1> QED
  BY <1>1, <1>2, PTL DEF HashSpec

(* The count of elements is a number and the tables hold nodes, whatever is *)
(* inserted, erased and moved by _hash_resize.                             *)
THEOREM HashTypeCorrect == HashSpec => []HashTypeOK
<1>1. HashInv => HashTypeOK
  BY DEF HashInv
<1> QED
  BY <1>1, HashInvAlways, PTL

-----------------------------------------------------------------------------
(* Places *)

LEMMA PlaceFacts ==
    ASSUME NEW t, IsTable(t)
    PROVE  /\ \A p \in PlacesIn(t) :
                \E b \in DOMAIN t : \E i \in 1..Len(t[b]) :
                    p = <<b, i>> /\ NodeAt(t, p) = t[b][i]
           /\ \A b \in DOMAIN t : \A i \in 1..Len(t[b]) :
                <<b, i>> \in PlacesIn(t) /\ NodeAt(t, <<b, i>>) = t[b][i]
BY DEF PlacesIn, NodeAt

LEMMA PlacesNodes ==
    ASSUME NEW t, IsTable(t)
    PROVE  /\ \A p \in PlacesIn(t) : NodeAt(t, p) \in NodesIn(t)
           /\ \A n \in NodesIn(t) : \E p \in PlacesIn(t) : NodeAt(t, p) = n
           /\ KeysIn(t) = KeysOf(NodesIn(t))
<1>1. ASSUME NEW p \in PlacesIn(t) PROVE NodeAt(t, p) \in NodesIn(t)
  <2>1. PICK b \in DOMAIN t : \E i \in 1..Len(t[b]) : NodeAt(t, p) = t[b][i]
    BY PlaceFacts
  <2> QED
    BY <2>1, ChainFacts
<1>2. ASSUME NEW n \in NodesIn(t) PROVE \E p \in PlacesIn(t) : NodeAt(t, p) = n
  <2>1. PICK b \in DOMAIN t : \E i \in 1..Len(t[b]) : n = t[b][i]
    BY NodeFacts
  <2>2. PICK i \in 1..Len(t[b]) : n = t[b][i]
    BY <2>1
  <2> QED
    BY <2>2, PlaceFacts
<1> QED
  BY <1>1, <1>2 DEF KeysIn, KeysOf

LEMMA InvIsConsistent == HashInv => HashConsistent
<1> SUFFICES ASSUME HashInv PROVE HashConsistent
  OBVIOUS
<1>1. IsTable(table) /\ IsTable(old_table)
  BY InvFacts
<1>2. ASSUME NEW p \in PlacesIn(table)
      PROVE  SlotOf(NodeAt(table, p).key, table_size) = p[1]
  <2>1. PICK b \in DOMAIN table : \E i \in 1..Len(table[b]) :
                p = <<b, i>> /\ NodeAt(table, p) = table[b][i]
    BY <1>1, PlaceFacts
  <2> QED
    BY <2>1 DEF HashInv, Slotted
<1>3. ASSUME NEW t, IsTable(t), Unique(t), NEW p \in PlacesIn(t), NEW q \in PlacesIn(t),
             NodeAt(t, p).key = NodeAt(t, q).key
      PROVE  p = q
  <2>1. PICK b \in DOMAIN t : \E i \in 1..Len(t[b]) : p = <<b, i>> /\ NodeAt(t, p) = t[b][i]
    BY <1>3, PlaceFacts
  <2>2. PICK c \in DOMAIN t : \E j \in 1..Len(t[c]) : q = <<c, j>> /\ NodeAt(t, q) = t[c][j]
    BY <1>3, PlaceFacts
  <2> QED
    BY <1>3, <2>1, <2>2 DEF Unique
<1>4. /\ KeysIn(table) = KeysOf(NodesIn(table))
      /\ KeysIn(old_table) = KeysOf(NodesIn(old_table))
      /\ KeysIn(table) \cup KeysIn(old_table) = KeysOf(AllNodes)
  <2>1. /\ KeysIn(table) = KeysOf(NodesIn(table))
        /\ KeysIn(old_table) = KeysOf(NodesIn(old_table))
    BY <1>1, PlacesNodes
  <2> QED
    BY <2>1 DEF KeysOf, AllNodes
<1>5. \A t \in {table, old_table} :
        \A p, q \in PlacesIn(t) : NodeAt(t, p).key = NodeAt(t, q).key => p = q
  BY <1>1, <1>3 DEF HashInv
<1> QED
  BY <1>2, <1>4, <1>5 DEF HashInv, HashConsistent

(* Every key that was inserted and not erased since is at the slot where    *)
(* _hash_find_prev_node looks for it, once, and is counted, for any hash    *)
(* function and any list of sizes; during _hash_resize it is in one of the *)
(* two tables.  Users look for a key before they insert it (HashNext).     *)
THEOREM KeysAlwaysFound == HashSpec => []HashConsistent
BY InvIsConsistent, HashInvAlways, PTL

-----------------------------------------------------------------------------
(* The map *)

MapOf(S) == [k \in KeysOf(S) |-> (CHOOSE n \in S : n.key = k).value]

LEMMA MapOfFacts ==
    ASSUME NEW S, KeysName(S)
    PROVE  /\ DOMAIN MapOf(S) = KeysOf(S)
           /\ \A n \in S : n.key \in KeysOf(S) /\ MapOf(S)[n.key] = n.value
<1>1. ASSUME NEW n \in S PROVE n.key \in KeysOf(S) /\ MapOf(S)[n.key] = n.value
  <2>1. n.key \in KeysOf(S)
    BY DEF KeysOf
  <2>2. (CHOOSE m \in S : m.key = n.key) = n
    BY DEF KeysName
  <2> QED
    BY <2>1, <2>2 DEF MapOf
<1> QED
  BY <1>1 DEF MapOf

LEMMA ContentsOfNodes == HashInv => Contents = MapOf(AllNodes)
<1> SUFFICES ASSUME HashInv PROVE Contents = MapOf(AllNodes)
  OBVIOUS
<1>1. IsTable(table) /\ IsTable(old_table) /\ KeysName(AllNodes)
  BY InvFacts
<1>2. /\ KeysIn(table) = KeysOf(NodesIn(table))
      /\ KeysIn(old_table) = KeysOf(NodesIn(old_table))
      /\ KeysIn(table) \cup KeysIn(old_table) = KeysOf(AllNodes)
  <2>1. /\ KeysIn(table) = KeysOf(NodesIn(table))
        /\ KeysIn(old_table) = KeysOf(NodesIn(old_table))
    BY <1>1, PlacesNodes
  <2> QED
    BY <2>1 DEF KeysOf, AllNodes
(* The node that a table has for a key is the node of the key. *)
<1>3. ASSUME NEW t, IsTable(t), NodesIn(t) \subseteq AllNodes, NEW k \in KeysIn(t)
      PROVE  NodeAt(t, CHOOSE p \in PlacesIn(t) : NodeAt(t, p).key = k).value
                = MapOf(AllNodes)[k]
  <2>1. PICK p : p = CHOOSE q \in PlacesIn(t) : NodeAt(t, q).key = k
    OBVIOUS
  <2>2. p \in PlacesIn(t) /\ NodeAt(t, p).key = k
    BY <2>1 DEF KeysIn
  <2>3. NodeAt(t, p) \in AllNodes
    BY <1>3, <2>2, PlacesNodes
  <2>4. MapOf(AllNodes)[k] = NodeAt(t, p).value
    BY <1>1, <2>2, <2>3, MapOfFacts
  <2> QED
    BY <2>1, <2>4
<1>4. NodesIn(table) \subseteq AllNodes /\ NodesIn(old_table) \subseteq AllNodes
  BY DEF AllNodes
<1>5. PICK f : f = MapOf(AllNodes)
  OBVIOUS
<1>6. f = [k \in KeysOf(AllNodes) |-> f[k]]
  BY <1>5 DEF MapOf
<1>7. ASSUME NEW k \in KeysOf(AllNodes)
      PROVE  LET t == IF k \in KeysIn(table) THEN table ELSE old_table
             IN  NodeAt(t, CHOOSE p \in PlacesIn(t) : NodeAt(t, p).key = k).value = f[k]
  <2>1. CASE k \in KeysIn(table)
    BY <1>1, <1>3, <1>4, <1>5, <2>1
  <2>2. CASE k \notin KeysIn(table)
    <3>1. k \in KeysIn(old_table)
      BY <1>2, <2>2
    <3> QED
      BY <1>1, <1>3, <1>4, <1>5, <2>2, <3>1
  <2> QED
    BY <2>1, <2>2
<1> QED
  BY <1>2, <1>5, <1>6, <1>7 DEF Contents

WithKey(f, k, v) == [x \in DOMAIN f \cup {k} |-> IF x = k THEN v ELSE f[x]]

WithoutKey(f, k) == [x \in DOMAIN f \ {k} |-> f[x]]

(* What the map of a set of nodes becomes when the set changes. *)
LEMMA MapChanges ==
    ASSUME NEW S, KeysName(S), NEW T, KeysName(T)
    PROVE  /\ \A n : T = S \cup {n} => MapOf(T) = WithKey(MapOf(S), n.key, n.value)
           /\ \A n \in S : T = S \ {n} => MapOf(T) = WithoutKey(MapOf(S), n.key)
           /\ \A n \in S : \A m : m.key = n.key /\ T = (S \ {n}) \cup {m} =>
                MapOf(T) = WithKey(MapOf(S), n.key, m.value)
<1>0. DOMAIN MapOf(S) = KeysOf(S)
  BY MapOfFacts
<1>1. MapOf(T) = [x \in KeysOf(T) |-> MapOf(T)[x]]
  BY DEF MapOf
<1>2. ASSUME NEW x \in KeysOf(T) PROVE \E m \in T : m.key = x /\ MapOf(T)[x] = m.value
  <2>1. PICK m \in T : m.key = x
    BY DEF KeysOf
  <2> QED
    BY <2>1, MapOfFacts
<1>3. \A m \in S : m.key \in KeysOf(S) /\ MapOf(S)[m.key] = m.value
  BY MapOfFacts
<1>4. \A m \in T : m.key \in KeysOf(T) /\ MapOf(T)[m.key] = m.value
  BY MapOfFacts
<1>5. ASSUME NEW n, T = S \cup {n}
      PROVE  MapOf(T) = WithKey(MapOf(S), n.key, n.value)
  <2>1. KeysOf(T) = KeysOf(S) \cup {n.key}
    BY <1>5, KeysOfAdded
  <2>2. ASSUME NEW x \in KeysOf(T)
        PROVE  MapOf(T)[x] = IF x = n.key THEN n.value ELSE MapOf(S)[x]
    <3>1. CASE x = n.key
      BY <1>4, <1>5, <3>1
    <3>2. CASE x # n.key
      <4>1. PICK m \in T : m.key = x /\ MapOf(T)[x] = m.value
        BY <1>2
      <4> QED
        BY <1>3, <1>5, <3>2, <4>1
    <3> QED
      BY <3>1, <3>2
  <2> QED
    BY <1>0, <1>1, <2>1, <2>2 DEF WithKey
<1>6. ASSUME NEW n \in S, T = S \ {n}
      PROVE  MapOf(T) = WithoutKey(MapOf(S), n.key)
  <2>1. KeysOf(T) = KeysOf(S) \ {n.key}
    BY <1>6, KeysOfDropped
  <2>2. ASSUME NEW x \in KeysOf(T) PROVE MapOf(T)[x] = MapOf(S)[x]
    <3>1. PICK m \in T : m.key = x /\ MapOf(T)[x] = m.value
      BY <1>2
    <3> QED
      BY <1>3, <1>6, <3>1
  <2> QED
    BY <1>0, <1>1, <2>1, <2>2 DEF WithoutKey
<1>7. ASSUME NEW n \in S, NEW m, m.key = n.key, T = (S \ {n}) \cup {m}
      PROVE  MapOf(T) = WithKey(MapOf(S), n.key, m.value)
  <2>1. KeysOf(T) = KeysOf(S) \cup {n.key}
    <3>1. PICK R : R = S \ {n}
      OBVIOUS
    <3>2. KeysOf(R) = KeysOf(S) \ {n.key}
      BY <3>1, KeysOfDropped
    <3>3. KeysOf(R \cup {m}) = KeysOf(R) \cup {m.key}
      BY KeysOfAdded
    <3> QED
      BY ONLY <1>7, <3>1, <3>2, <3>3
  <2>2. ASSUME NEW x \in KeysOf(T)
        PROVE  MapOf(T)[x] = IF x = n.key THEN m.value ELSE MapOf(S)[x]
    <3>1. CASE x = n.key
      BY <1>4, <1>7, <3>1
    <3>2. CASE x # n.key
      <4>1. PICK d \in T : d.key = x /\ MapOf(T)[x] = d.value
        BY <1>2
      <4> QED
        BY <1>3, <1>7, <3>2, <4>1
    <3> QED
      BY <3>1, <3>2
  <2> QED
    BY <1>0, <1>1, <2>1, <2>2 DEF WithKey
<1> QED
  BY <1>5, <1>6, <1>7

(* Initial states and steps are those of the map. *)
LEMMA InitMaps == HashInit => M!Init
<1> SUFFICES ASSUME HashInit PROVE M!Init
  OBVIOUS
<1>1. Contents = MapOf({})
  BY HashInvInit, ContentsOfNodes
<1> QED
  BY <1>1 DEF M!Init, MapOf, KeysOf

LEMMA StepMaps ==
    ASSUME KeysName(AllNodes), KeysName(AllNodes'), StepOfNodes,
           Contents = MapOf(AllNodes), Contents' = MapOf(AllNodes')
    PROVE  M!Next \/ UNCHANGED Contents
<1>1. PICK S, T : S = AllNodes /\ T = AllNodes'
  OBVIOUS
<1>2. PICK f, g : f = Contents /\ g = Contents'
  OBVIOUS
<1>3. /\ KeysName(S) /\ KeysName(T) /\ f = MapOf(S) /\ g = MapOf(T)
      /\ DOMAIN f = KeysOf(S)
  BY <1>1, <1>2, MapOfFacts
<1>4. ASSUME NEW n \in HashNodes, Adds(n) PROVE M!Put(n.key, n.value)
  <2>1. T = S \cup {n}
    BY <1>1, <1>4 DEF Adds
  <2>2. g = WithKey(f, n.key, n.value)
    BY <1>3, <2>1, MapChanges
  <2> QED
    BY <1>2, <2>2 DEF M!Put, WithKey
<1>5. ASSUME NEW n \in HashNodes, Drops(n) PROVE M!Erase(n.key)
  <2>1. T = S \ {n} /\ n \in S
    BY <1>1, <1>5 DEF Drops
  <2>2. g = WithoutKey(f, n.key)
    BY <1>3, <2>1, MapChanges
  <2>3. n.key \in DOMAIN f
    BY <1>3, <2>1, MapOfFacts
  <2> QED
    BY <1>2, <2>2, <2>3 DEF M!Erase, M!Keep, WithoutKey
<1>6. ASSUME NEW n \in HashNodes, NEW v \in HashValues, Changes(n, v)
      PROVE  M!Put(n.key, v)
  <2>1. PICK m : m = [key |-> n.key, value |-> v]
    OBVIOUS
  <2>2. T = (S \ {n}) \cup {m} /\ n \in S /\ m.key = n.key /\ m.value = v
    BY <1>1, <1>6, <2>1 DEF Changes
  <2>3. g = WithKey(f, n.key, m.value)
    BY <1>3, <2>2, MapChanges
  <2> QED
    BY <1>2, <2>2, <2>3 DEF M!Put, WithKey
<1>7. CASE AllNodes' = AllNodes
  BY <1>7
<1>8. ASSUME NEW n \in HashNodes, Adds(n) \/ Drops(n) \/ \E v \in HashValues : Changes(n, v)
      PROVE  M!Next
  <2>1. n.key \in Keys /\ n.value \in HashValues
    BY DEF HashNodes
  <2> QED
    BY <1>4, <1>5, <1>6, <1>8, <2>1 DEF M!Next
<1> QED
  BY <1>7, <1>8 DEF StepOfNodes

(* hash.h keeps its promise: an insert puts one key into the map, an erase  *)
(* and each step of hash_clear take one out of it, hash_insert_replace     *)
(* changes one value, and _hash_resize changes nothing.                    *)
THEOREM HashTableImplementsMap == HashSpec => HashImplementsMap
<1>1. HashInit => M!Init
  BY InitMaps
<1>2. HashInv => KeysName(AllNodes) /\ Contents = MapOf(AllNodes)
  BY InvFacts, ContentsOfNodes
<1>3. HashInv' => (KeysName(AllNodes) /\ Contents = MapOf(AllNodes))'
  BY <1>2, PTL
<1>4. HashInv /\ [HashNext]_hashVars => [M!Next]_Contents
  <2> SUFFICES ASSUME HashInv, [HashNext]_hashVars PROVE M!Next \/ UNCHANGED Contents
    OBVIOUS
  <2>1. HashInv' /\ StepOfNodes
    BY HashInvNext
  <2>2. /\ KeysName(AllNodes) /\ KeysName(AllNodes')
        /\ Contents = MapOf(AllNodes) /\ Contents' = MapOf(AllNodes')
    BY <1>2, <1>3, <2>1
  <2> QED
    BY <2>1, <2>2, StepMaps
<1> QED
  BY <1>1, <1>4, HashInvAlways, PTL DEF HashSpec, HashImplementsMap, M!Spec

=============================================================================
