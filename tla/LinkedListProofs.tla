-------------------------- MODULE LinkedListProofs --------------------------
(***************************************************************************)
(* The allocator and the lists, for any number of lists and of nodes and    *)
(* blocks of any size.                                                     *)
(*                                                                         *)
(* No object of the allocator is lost or given twice, and looking at one    *)
(* block beside the current one is enough: its invariant describes the      *)
(* whole ring, from the current block backwards full blocks come first,     *)
(* then empty ones.                                                        *)
(*                                                                         *)
(* The lists are rings that share no node.  A ring is looked at as the      *)
(* sequence of its vertices: an insert or an erase changes the pointers at  *)
(* two neighbours, and the nodes in use, which the allocator keeps apart,   *)
(* say that no other list has them.                                        *)
(***************************************************************************)
EXTENDS LinkedList, SequenceTheorems, FiniteSetTheorems, WellFoundedInduction, TLAPS

-----------------------------------------------------------------------------
(* The allocator: the invariant *)


(* The object o lies in the ring r. *)
Has(r, o) == \E i \in 1..Len(r) : \E a \in 1..Len(r[i]) : r[i][a] = o

(* No object lies twice in the ring r. *)
Distinct(r) ==
    \A i, j \in 1..Len(r) :
        \A a \in 1..Len(r[i]), b \in 1..Len(r[j]) :
            r[i][a] = r[j][b] => i = j /\ a = b

AllocatorInv ==
    /\ AllocatorTypeOK
    /\ Distinct(ring)
    /\ \A o : Has(ring, o) <=> o \in Objects \ used
    /\ RingStacked
    /\ ring = <<>> => objects = 0

(* What the other operators need to know of a ring. *)
Sound(r, S) ==
    /\ r \in Seq(Seq(S))
    /\ Len(r) > 0
    /\ \A i \in 1..Len(r) : Len(r[i]) <= ALLOCATOR_BLOCK_SIZE
    /\ Distinct(r)
    /\ IsStacked(r)

-----------------------------------------------------------------------------
(* The allocator: turning the ring *)

LEMMA BlockFacts ==
    ASSUME NEW S, NEW r \in Seq(Seq(S)), NEW i \in 1..Len(r)
    PROVE  /\ r[i] \in Seq(S)
           /\ Len(r[i]) \in Nat
           /\ \A a \in 1..Len(r[i]) : r[i][a] \in S
           /\ Len(r[i]) = 0 <=> r[i] = <<>>
<1>1. r[i] \in Seq(S)
  BY ElementOfSeq
<1> QED
  BY <1>1, LenProperties, ElementOfSeq, EmptySeq

LEMMA ForwardFacts ==
    ASSUME NEW S, NEW r \in Seq(S), Len(r) > 0
    PROVE  /\ Forward(r) \in Seq(S)
           /\ Len(Forward(r)) = Len(r)
           /\ \A i \in 1..Len(r) :
                Forward(r)[i] = IF i < Len(r) THEN r[i + 1] ELSE r[1]
<1>1. r # <<>> /\ Len(r) \in Nat
  BY EmptySeq, LenProperties
<1>2. /\ Tail(r) \in Seq(S) /\ Len(Tail(r)) = Len(r) - 1 /\ Head(r) \in S
      /\ \A i \in 1..Len(Tail(r)) : Tail(r)[i] = r[i + 1]
      /\ Head(r) = r[1]
  BY <1>1, HeadTailProperties
<1>3. /\ Append(Tail(r), Head(r)) \in Seq(S)
      /\ Len(Append(Tail(r), Head(r))) = Len(r)
      /\ \A i \in 1..(Len(r) - 1) : Append(Tail(r), Head(r))[i] = Tail(r)[i]
      /\ Append(Tail(r), Head(r))[Len(r)] = Head(r)
  BY <1>1, <1>2, AppendProperties
<1>4. ASSUME NEW i \in 1..Len(r)
      PROVE  Append(Tail(r), Head(r))[i] = IF i < Len(r) THEN r[i + 1] ELSE r[1]
  <2>1. CASE i < Len(r)
    <3>1. i \in 1..(Len(r) - 1) /\ i \in 1..Len(Tail(r))
      BY <1>1, <1>2, <2>1
    <3> QED
      BY <1>2, <1>3, <2>1, <3>1
  <2>2. CASE ~(i < Len(r))
    <3>1. i = Len(r)
      BY <1>1, <2>2
    <3> QED
      BY <1>2, <1>3, <2>2, <3>1
  <2> QED
    BY <2>1, <2>2
<1> QED
  BY <1>3, <1>4 DEF Forward

LEMMA BackwardFacts ==
    ASSUME NEW S, NEW r \in Seq(S), Len(r) > 0
    PROVE  /\ Backward(r) \in Seq(S)
           /\ Len(Backward(r)) = Len(r)
           /\ \A i \in 1..Len(r) :
                Backward(r)[i] = IF i = 1 THEN r[Len(r)] ELSE r[i - 1]
<1>1. Len(r) \in Nat /\ r[Len(r)] \in S
  BY LenProperties, ElementOfSeq
<1> DEFINE s == SubSeq(r, 1, Len(r) - 1)
<1>2. /\ s \in Seq(S) /\ Len(s) = Len(r) - 1
      /\ \A i \in 1..(Len(r) - 1) : s[i] = r[i]
  <2>1. 1 \in Int /\ Len(r) - 1 \in Int /\ \A i \in 1..(Len(r) - 1) : r[i] \in S
    BY <1>1, ElementOfSeq
  <2>2. /\ s \in Seq(S)
        /\ Len(s) = IF 1 <= Len(r) - 1 THEN (Len(r) - 1) - 1 + 1 ELSE 0
        /\ \A i \in 1..((Len(r) - 1) - 1 + 1) : s[i] = r[1 + i - 1]
    BY ONLY <2>1, SubSeqProperties
  <2> HIDE DEF s
  <2>3. ASSUME NEW i \in 1..(Len(r) - 1) PROVE s[i] = r[i]
    <3>1. i \in 1..((Len(r) - 1) - 1 + 1) /\ 1 + i - 1 = i
      BY <1>1
    <3> QED
      BY <2>2, <3>1
  <2>4. Len(s) = Len(r) - 1
    <3>1. PICK n \in Nat : n = Len(r)
      BY <1>1
    <3>2. n > 0 /\ Len(s) = IF 1 <= n - 1 THEN (n - 1) - 1 + 1 ELSE 0
      BY <2>2, <3>1
    <3>3. Len(s) = n - 1
      BY <3>2
    <3> QED
      BY <3>1, <3>3
  <2> QED
    BY <2>2, <2>3, <2>4
<1>3. /\ <<r[Len(r)]>> \in Seq(S) /\ Len(<<r[Len(r)]>>) = 1
      /\ <<r[Len(r)]>>[1] = r[Len(r)]
  BY <1>1
<1> QED
  BY <1>1, <1>2, <1>3, ConcatProperties DEF Backward

(* A ring with the blocks of another in another order holds the same. *)
LEMMA SameBlocks ==
    ASSUME NEW S, NEW r \in Seq(Seq(S)), NEW q \in Seq(Seq(S)), Len(q) = Len(r),
           NEW p \in [1..Len(r) -> 1..Len(r)],
           \A i, j \in 1..Len(r) : p[i] = p[j] => i = j,
           \A j \in 1..Len(r) : \E i \in 1..Len(r) : p[i] = j,
           \A i \in 1..Len(r) : q[i] = r[p[i]]
    PROVE  /\ Distinct(r) => Distinct(q)
           /\ \A o : Has(q, o) <=> Has(r, o)
<1>1. ASSUME Distinct(r) PROVE Distinct(q)
  <2> SUFFICES ASSUME NEW i \in 1..Len(r), NEW j \in 1..Len(r),
                      NEW a \in 1..Len(q[i]), NEW b \in 1..Len(q[j]), q[i][a] = q[j][b]
               PROVE  i = j /\ a = b
    BY DEF Distinct
  <2>1. q[i] = r[p[i]] /\ q[j] = r[p[j]] /\ p[i] \in 1..Len(r) /\ p[j] \in 1..Len(r)
    OBVIOUS
  <2>2. PICK u \in 1..Len(r), v \in 1..Len(r) : u = p[i] /\ v = p[j]
    BY <2>1
  <2>3. a \in 1..Len(r[u]) /\ b \in 1..Len(r[v]) /\ r[u][a] = r[v][b]
    BY <2>1, <2>2
  <2>4. u = v /\ a = b
    <3>1. \A x \in 1..Len(r[u]), y \in 1..Len(r[v]) :
                r[u][x] = r[v][y] => u = v /\ x = y
      BY <1>1 DEF Distinct
    <3> QED
      BY ONLY <2>3, <3>1
  <2>5. \A x, y \in 1..Len(r) : p[x] = p[y] => x = y
    OBVIOUS
  <2> QED
    BY ONLY <2>2, <2>4, <2>5
<1>2. ASSUME NEW o, Has(q, o) PROVE Has(r, o)
  <2>1. PICK i \in 1..Len(r) : \E a \in 1..Len(q[i]) : q[i][a] = o
    BY <1>2 DEF Has
  <2>2. q[i] = r[p[i]] /\ p[i] \in 1..Len(r)
    OBVIOUS
  <2>3. PICK j \in 1..Len(r) : q[i] = r[j]
    BY ONLY <2>2
  <2>4. \E a \in 1..Len(r[j]) : r[j][a] = o
    BY ONLY <2>1, <2>3
  <2> QED
    BY ONLY <2>4 DEF Has
<1>3. ASSUME NEW o, Has(r, o) PROVE Has(q, o)
  <2>1. PICK j \in 1..Len(r) : \E a \in 1..Len(r[j]) : r[j][a] = o
    BY <1>3 DEF Has
  <2>2. PICK i \in 1..Len(r) : p[i] = j
    OBVIOUS
  <2>3. q[i] = r[j] /\ i \in 1..Len(q)
    BY <2>2
  <2>4. \E a \in 1..Len(q[i]) : q[i][a] = o
    BY <2>1, <2>3
  <2> QED
    BY <2>3, <2>4 DEF Has
<1> QED
  BY <1>1, <1>2, <1>3

LEMMA ForwardSameBlocks ==
    ASSUME NEW S, NEW r \in Seq(Seq(S)), Len(r) > 0
    PROVE  /\ Distinct(r) => Distinct(Forward(r))
           /\ \A o : Has(Forward(r), o) <=> Has(r, o)
<1> DEFINE p == [i \in 1..Len(r) |-> IF i < Len(r) THEN i + 1 ELSE 1]
<1>1. Len(r) \in Nat
  BY LenProperties
<1>2. p \in [1..Len(r) -> 1..Len(r)]
  BY <1>1
<1>3. \A i, j \in 1..Len(r) : p[i] = p[j] => i = j
  BY <1>1
<1>4. \A j \in 1..Len(r) : \E i \in 1..Len(r) : p[i] = j
  <2> SUFFICES ASSUME NEW j \in 1..Len(r) PROVE \E i \in 1..Len(r) : p[i] = j
    OBVIOUS
  <2>1. CASE j = 1
    <3>1. p[Len(r)] = j /\ Len(r) \in 1..Len(r)
      BY <1>1, <2>1
    <3> QED
      BY <3>1
  <2>2. CASE j # 1
    <3>1. p[j - 1] = j /\ j - 1 \in 1..Len(r)
      BY <1>1, <2>2
    <3> QED
      BY <3>1
  <2> QED
    BY <2>1, <2>2
<1>5. \A i \in 1..Len(r) : Forward(r)[i] = r[p[i]]
  BY <1>1, ForwardFacts
<1> HIDE DEF p
<1>6. Forward(r) \in Seq(Seq(S)) /\ Len(Forward(r)) = Len(r)
  BY ForwardFacts
<1> QED
  BY <1>2, <1>3, <1>4, <1>5, <1>6, SameBlocks

LEMMA BackwardSameBlocks ==
    ASSUME NEW S, NEW r \in Seq(Seq(S)), Len(r) > 0
    PROVE  /\ Distinct(r) => Distinct(Backward(r))
           /\ \A o : Has(Backward(r), o) <=> Has(r, o)
<1> DEFINE p == [i \in 1..Len(r) |-> IF i = 1 THEN Len(r) ELSE i - 1]
<1>1. Len(r) \in Nat
  BY LenProperties
<1>2. p \in [1..Len(r) -> 1..Len(r)]
  BY <1>1
<1>3. \A i, j \in 1..Len(r) : p[i] = p[j] => i = j
  BY <1>1
<1>4. \A j \in 1..Len(r) : \E i \in 1..Len(r) : p[i] = j
  <2> SUFFICES ASSUME NEW j \in 1..Len(r) PROVE \E i \in 1..Len(r) : p[i] = j
    OBVIOUS
  <2>1. CASE j = Len(r)
    <3>1. p[1] = j /\ 1 \in 1..Len(r)
      BY <1>1, <2>1
    <3> QED
      BY <3>1
  <2>2. CASE j # Len(r)
    <3>1. p[j + 1] = j /\ j + 1 \in 1..Len(r)
      BY <1>1, <2>2
    <3> QED
      BY <3>1
  <2> QED
    BY <2>1, <2>2
<1>5. \A i \in 1..Len(r) : Backward(r)[i] = r[p[i]]
  BY <1>1, BackwardFacts
<1> HIDE DEF p
<1>6. Backward(r) \in Seq(Seq(S)) /\ Len(Backward(r)) = Len(r)
  BY BackwardFacts
<1> QED
  BY <1>2, <1>3, <1>4, <1>5, <1>6, SameBlocks

(* A block with nothing in it comes to the front. *)
Grown(r) == << <<>> >> \o r

LEMMA EmptyBlockInFront ==
    ASSUME NEW S, NEW r \in Seq(Seq(S)), NEW q, q = Grown(r)
    PROVE  /\ q \in Seq(Seq(S)) /\ Len(q) = Len(r) + 1
           /\ q[1] = <<>> /\ \A i \in 2..Len(q) : q[i] = r[i - 1]
           /\ Distinct(r) => Distinct(q)
           /\ \A o : Has(q, o) <=> Has(r, o)
<1>1. PICK n \in Nat : n = Len(r)
  BY LenProperties
<1> DEFINE e == << <<>> >>
<1>2. e \in Seq(Seq(S)) /\ Len(e) = 1 /\ e[1] = <<>>
  BY EmptySeq
<1>3. /\ q \in Seq(Seq(S)) /\ Len(q) = 1 + n
      /\ \A i \in 1..(1 + n) : q[i] = IF i <= 1 THEN e[i] ELSE r[i - 1]
  <2> HIDE DEF e
  <2>1. q = e \o r
    BY DEF e, Grown
  <2>2. /\ e \o r \in Seq(Seq(S)) /\ Len(e \o r) = Len(e) + Len(r)
        /\ \A i \in 1..(Len(e) + Len(r)) :
             (e \o r)[i] = IF i <= Len(e) THEN e[i] ELSE r[i - Len(e)]
    BY <1>2, ConcatProperties
  <2> QED
    BY <1>1, <1>2, <2>1, <2>2
<1>4. q[1] = <<>>
  BY <1>2, <1>3
<1>5. \A i \in 2..Len(q) : q[i] = r[i - 1] /\ i - 1 \in 1..Len(r)
  BY <1>1, <1>3
<1>6. Len(q[1]) = 0
  BY <1>4
<1>7. \A i \in 1..Len(q) : \A a \in 1..Len(q[i]) : i \in 2..Len(q)
  BY <1>3, <1>6
<1>8. ASSUME Distinct(r) PROVE Distinct(q)
  <2> SUFFICES ASSUME NEW i \in 1..Len(q), NEW j \in 1..Len(q),
                      NEW a \in 1..Len(q[i]), NEW b \in 1..Len(q[j]), q[i][a] = q[j][b]
               PROVE  i = j /\ a = b
    BY DEF Distinct
  <2>1. i \in 2..Len(q) /\ j \in 2..Len(q)
    BY <1>7
  <2>2. PICK u \in 1..Len(r), v \in 1..Len(r) :
            u = i - 1 /\ v = j - 1 /\ q[i] = r[u] /\ q[j] = r[v]
    BY <1>5, <2>1
  <2>3. \A x \in 1..Len(r[u]), y \in 1..Len(r[v]) : r[u][x] = r[v][y] => u = v /\ x = y
    BY <1>8 DEF Distinct
  <2>4. u = v /\ a = b
    BY <2>2, <2>3
  <2> QED
    BY <2>1, <2>2, <2>4
<1>9. ASSUME NEW o, Has(q, o) PROVE Has(r, o)
  <2>1. PICK i \in 1..Len(q) : \E a \in 1..Len(q[i]) : q[i][a] = o
    BY <1>9 DEF Has
  <2>2. i \in 2..Len(q)
    BY <1>7, <2>1
  <2> QED
    BY <1>5, <2>1, <2>2 DEF Has
<1>10. ASSUME NEW o, Has(r, o) PROVE Has(q, o)
  <2>1. PICK j \in 1..Len(r) : \E a \in 1..Len(r[j]) : r[j][a] = o
    BY <1>10 DEF Has
  <2>2. PICK i \in 1..Len(q) : i = j + 1
    BY <1>1, <1>3
  <2>3. q[i] = r[j]
    BY <1>1, <1>5, <2>2
  <2> QED
    BY <2>1, <2>3 DEF Has
<1> QED
  BY <1>1, <1>3, <1>4, <1>5, <1>8, <1>9, <1>10

-----------------------------------------------------------------------------
(* The first block *)

(* The ring with another block at the pointer. *)
WithTop(r, b) == [r EXCEPT ![1] = b]

(* The object on top goes. *)
LEMMA PopFacts ==
    ASSUME NEW S, NEW r \in Seq(Seq(S)), Len(r) > 0, r[1] # <<>>, Distinct(r),
           NEW q, q = WithTop(r, Pop(r[1])),
           NEW o, o = r[1][Len(r[1])]
    PROVE  /\ q \in Seq(Seq(S)) /\ Len(q) = Len(r)
           /\ \A i \in 2..Len(r) : q[i] = r[i]
           /\ Len(q[1]) <= Len(r[1])
           /\ Distinct(q)
           /\ Has(r, o) /\ o \in S
           /\ \A x : Has(q, x) <=> Has(r, x) /\ x # o
<1>1. PICK n \in Nat : n = Len(r) /\ n > 0
  BY LenProperties
<1>2. r[1] \in Seq(S) /\ 1 \in 1..Len(r)
  BY <1>1, ElementOfSeq
<1>3. PICK m \in Nat : m = Len(r[1]) /\ m > 0
  BY <1>2, EmptySeq, LenProperties
<1> DEFINE b == Pop(r[1])
<1>4. /\ b \in Seq(S) /\ Len(b) = m - 1
      /\ \A a \in 1..(m - 1) : b[a] = r[1][a]
  <2>1. 1 \in Int /\ m - 1 \in Int /\ \A a \in 1..(m - 1) : r[1][a] \in S
    BY <1>2, <1>3, ElementOfSeq
  <2>2. /\ b \in Seq(S)
        /\ Len(b) = IF 1 <= m - 1 THEN (m - 1) - 1 + 1 ELSE 0
        /\ \A a \in 1..((m - 1) - 1 + 1) : b[a] = r[1][1 + a - 1]
    BY <1>3, <2>1, SubSeqProperties DEF Pop
  <2> HIDE DEF b
  <2>3. \A a \in 1..(m - 1) : a \in 1..((m - 1) - 1 + 1) /\ 1 + a - 1 = a
    OBVIOUS
  <2>4. Len(b) = m - 1
    BY <1>3, <2>2
  <2> QED
    BY <2>2, <2>3, <2>4
<1> HIDE DEF b
<1>5. /\ Len(q) = Len(r) /\ DOMAIN q = 1..n
      /\ q[1] = b /\ \A i \in 2..n : q[i] = r[i]
      /\ q \in Seq(Seq(S))
  BY <1>1, <1>2, <1>4, ExceptSeq DEF b, WithTop
<1>6. \A i \in 1..n : \A a \in 1..Len(q[i]) :
        /\ a \in 1..Len(r[i])
        /\ q[i][a] = r[i][a]
        /\ ~(i = 1 /\ a = m)
  <2> SUFFICES ASSUME NEW i \in 1..n, NEW a \in 1..Len(q[i])
               PROVE  a \in 1..Len(r[i]) /\ q[i][a] = r[i][a] /\ ~(i = 1 /\ a = m)
    OBVIOUS
  <2>1. CASE i = 1
    <3>1. q[i] = b /\ r[i] = r[1] /\ a \in 1..(m - 1)
      BY <1>4, <1>5, <2>1
    <3>2. a \in 1..Len(r[1]) /\ a # m /\ b[a] = r[1][a]
      BY <1>3, <1>4, <3>1
    <3> QED
      BY ONLY <3>1, <3>2
  <2>2. CASE i # 1
    <3>1. i \in 2..n
      BY <2>2
    <3>2. q[i] = r[i]
      BY <1>5, <3>1
    <3> QED
      BY <2>2, <3>2
  <2> QED
    BY <2>1, <2>2
<1>7. ASSUME NEW i \in 1..n, NEW a \in 1..Len(r[i]), r[i][a] = o
      PROVE  i = 1 /\ a = m
  <2>1. \A y \in 1..Len(r[1]) : r[i][a] = r[1][y] => i = 1 /\ a = y
    BY <1>1, <1>2 DEF Distinct
  <2>2. m \in 1..Len(r[1]) /\ r[i][a] = r[1][m]
    BY <1>3, <1>7
  <2> QED
    BY <2>1, <2>2
<1>8. Distinct(q)
  <2> SUFFICES ASSUME NEW i \in 1..n, NEW j \in 1..n,
                      NEW x \in 1..Len(q[i]), NEW y \in 1..Len(q[j]), q[i][x] = q[j][y]
               PROVE  i = j /\ x = y
    BY <1>1, <1>5 DEF Distinct
  <2>1. x \in 1..Len(r[i]) /\ y \in 1..Len(r[j]) /\ r[i][x] = r[j][y]
    BY <1>6
  <2>2. \A u \in 1..Len(r[i]), v \in 1..Len(r[j]) : r[i][u] = r[j][v] => i = j /\ u = v
    BY <1>1 DEF Distinct
  <2> QED
    BY <2>1, <2>2
<1>9. Has(r, o) /\ o \in S
  <2>1. m \in 1..Len(r[1]) /\ r[1][m] = o
    BY <1>3
  <2> QED
    BY <1>2, <2>1, ElementOfSeq DEF Has
<1>10. ASSUME NEW x, Has(q, x) PROVE Has(r, x) /\ x # o
  <2>1. PICK i \in 1..n : \E a \in 1..Len(q[i]) : q[i][a] = x
    BY <1>1, <1>5, <1>10 DEF Has
  <2>2. PICK a \in 1..Len(q[i]) : q[i][a] = x
    BY <2>1
  <2>3. a \in 1..Len(r[i]) /\ r[i][a] = x /\ ~(i = 1 /\ a = m)
    BY <1>6, <2>2
  <2>4. x # o
    BY <1>7, <2>3
  <2> QED
    BY <1>1, <2>3, <2>4 DEF Has
<1>11. ASSUME NEW x, Has(r, x), x # o PROVE Has(q, x)
  <2>1. PICK i \in 1..n : \E a \in 1..Len(r[i]) : r[i][a] = x
    BY <1>1, <1>11 DEF Has
  <2>2. PICK a \in 1..Len(r[i]) : r[i][a] = x
    BY <2>1
  <2>3. a \in 1..Len(q[i]) /\ q[i][a] = x
    <3>1. CASE i = 1
      <4>1. a # m
        BY <1>3, <1>11, <2>2, <3>1
      <4>2. a \in 1..(m - 1)
        BY <1>3, <2>2, <3>1, <4>1
      <4> QED
        BY <1>4, <1>5, <2>2, <3>1, <4>2
    <3>2. CASE i # 1
      <4>1. i \in 2..n
        BY <3>2
      <4> QED
        BY <1>5, <2>2, <4>1
    <3> QED
      BY <3>1, <3>2
  <2> QED
    BY <1>1, <1>5, <2>3 DEF Has
<1>12. Len(q[1]) <= Len(r[1])
  BY <1>3, <1>4, <1>5
<1> QED
  BY <1>1, <1>5, <1>8, <1>9, <1>10, <1>11, <1>12

(* An object comes on top. *)
LEMMA AppendFacts ==
    ASSUME NEW S, NEW r \in Seq(Seq(S)), Len(r) > 0, Distinct(r),
           NEW o \in S, ~Has(r, o),
           NEW q, q = WithTop(r, Append(r[1], o))
    PROVE  /\ q \in Seq(Seq(S)) /\ Len(q) = Len(r)
           /\ \A i \in 2..Len(r) : q[i] = r[i]
           /\ Len(q[1]) = Len(r[1]) + 1
           /\ Distinct(q)
           /\ \A x : Has(q, x) <=> Has(r, x) \/ x = o
<1>1. PICK n \in Nat : n = Len(r) /\ n > 0
  BY LenProperties
<1>2. r[1] \in Seq(S) /\ 1 \in 1..Len(r)
  BY <1>1, ElementOfSeq
<1>3. PICK m \in Nat : m = Len(r[1])
  BY <1>2, LenProperties
<1> DEFINE b == Append(r[1], o)
<1>4. /\ b \in Seq(S) /\ Len(b) = m + 1
      /\ \A a \in 1..m : b[a] = r[1][a]
      /\ b[m + 1] = o
  BY <1>2, <1>3, AppendProperties
<1> HIDE DEF b
<1>5. /\ Len(q) = Len(r) /\ DOMAIN q = 1..n
      /\ q[1] = b /\ \A i \in 2..n : q[i] = r[i]
      /\ q \in Seq(Seq(S))
  BY <1>1, <1>2, <1>4, ExceptSeq DEF b, WithTop
<1>6. \A i \in 1..n : \A a \in 1..Len(q[i]) :
        \/ i = 1 /\ a = m + 1 /\ q[i][a] = o
        \/ a \in 1..Len(r[i]) /\ q[i][a] = r[i][a] /\ q[i][a] # o
  <2> SUFFICES ASSUME NEW i \in 1..n, NEW a \in 1..Len(q[i])
               PROVE  \/ i = 1 /\ a = m + 1 /\ q[i][a] = o
                      \/ a \in 1..Len(r[i]) /\ q[i][a] = r[i][a] /\ q[i][a] # o
    OBVIOUS
  <2>1. CASE i = 1 /\ a = m + 1
    BY <1>4, <1>5, <2>1
  <2>2. CASE ~(i = 1 /\ a = m + 1)
    <3>1. a \in 1..Len(r[i]) /\ q[i][a] = r[i][a]
      <4>1. CASE i = 1
        <5>1. a \in 1..m
          BY <1>3, <1>4, <1>5, <2>2, <4>1
        <5> QED
          BY <1>3, <1>4, <1>5, <4>1, <5>1
      <4>2. CASE i # 1
        <5>1. i \in 2..n
          BY <4>2
        <5> QED
          BY <1>5, <5>1
      <4> QED
        BY <4>1, <4>2
    <3>2. r[i][a] # o
      BY <1>1, <3>1 DEF Has
    <3> QED
      BY <3>1, <3>2
  <2> QED
    BY <2>1, <2>2
<1>7. Distinct(q)
  <2> SUFFICES ASSUME NEW i \in 1..n, NEW j \in 1..n,
                      NEW x \in 1..Len(q[i]), NEW y \in 1..Len(q[j]), q[i][x] = q[j][y]
               PROVE  i = j /\ x = y
    BY <1>1, <1>5 DEF Distinct
  <2>1. CASE q[i][x] = o
    BY <1>6, <2>1
  <2>2. CASE q[i][x] # o
    <3>1. x \in 1..Len(r[i]) /\ y \in 1..Len(r[j]) /\ r[i][x] = r[j][y]
      BY <1>6, <2>2
    <3>2. \A u \in 1..Len(r[i]), v \in 1..Len(r[j]) : r[i][u] = r[j][v] => i = j /\ u = v
      BY <1>1 DEF Distinct
    <3> QED
      BY <3>1, <3>2
  <2> QED
    BY <2>1, <2>2
<1>8. ASSUME NEW x, Has(q, x) PROVE Has(r, x) \/ x = o
  <2>1. PICK i \in 1..n : \E a \in 1..Len(q[i]) : q[i][a] = x
    BY <1>1, <1>5, <1>8 DEF Has
  <2>2. PICK a \in 1..Len(q[i]) : q[i][a] = x
    BY <2>1
  <2>3. x = o \/ (a \in 1..Len(r[i]) /\ r[i][a] = x)
    BY <1>6, <2>2
  <2> QED
    BY <1>1, <2>3 DEF Has
<1>9. ASSUME NEW x, Has(r, x) PROVE Has(q, x)
  <2>1. PICK i \in 1..n : \E a \in 1..Len(r[i]) : r[i][a] = x
    BY <1>1, <1>9 DEF Has
  <2>2. PICK a \in 1..Len(r[i]) : r[i][a] = x
    BY <2>1
  <2>3. a \in 1..Len(q[i]) /\ q[i][a] = x
    <3>1. CASE i = 1
      <4>1. a \in 1..m
        BY <1>3, <2>2, <3>1
      <4> QED
        BY <1>4, <1>5, <2>2, <3>1, <4>1
    <3>2. CASE i # 1
      <4>1. i \in 2..n
        BY <3>2
      <4> QED
        BY <1>5, <2>2, <4>1
    <3> QED
      BY <3>1, <3>2
  <2> QED
    BY <1>1, <1>5, <2>3 DEF Has
<1>10. Has(q, o)
  <2>1. m + 1 \in 1..Len(q[1]) /\ q[1][m + 1] = o /\ 1 \in 1..Len(q)
    BY <1>1, <1>4, <1>5
  <2> QED
    BY <2>1 DEF Has
<1>11. Len(q[1]) = Len(r[1]) + 1
  BY <1>3, <1>4, <1>5
<1> QED
  BY <1>1, <1>5, <1>7, <1>8, <1>9, <1>10, <1>11

(* A block of new objects in a ring that has none. *)
LEMMA MallocFacts ==
    ASSUME NEW S, objects \in Nat, Objects \subseteq S,
           objects + 1..objects + alloc_step \subseteq S,
           NEW r \in Seq(Seq(Objects)), Len(r) > 0,
           \A i \in 1..Len(r) : r[i] = <<>>,
           NEW q, q = WithTop(r, NewObjects)
    PROVE  /\ q \in Seq(Seq(S)) /\ Len(q) = Len(r)
           /\ \A i \in 2..Len(r) : q[i] = r[i]
           /\ Len(q[1]) <= ALLOCATOR_BLOCK_SIZE
           /\ Distinct(q)
           /\ \A x : Has(q, x) <=> x \in (objects + 1)..(objects + alloc_step - 1)
<1>1. PICK n \in Nat : n = Len(r) /\ n > 0
  BY LenProperties
<1>2. alloc_step \in Nat /\ alloc_step > 0 /\ alloc_step <= ALLOCATOR_BLOCK_SIZE
  BY AllocatorAssumption
<1> DEFINE b == NewObjects
<1>3. /\ b \in Seq(S) /\ Len(b) = alloc_step - 1
      /\ \A a \in 1..(alloc_step - 1) : b[a] = objects + a
  <2>1. \A a \in 1..(alloc_step - 1) : objects + a \in S
    BY <1>2
  <2> QED
    BY <1>2, <2>1 DEF NewObjects
<1> HIDE DEF b
<1>4. r \in Seq(Seq(S)) /\ 1 \in 1..Len(r)
  <2>1. \A i \in 1..Len(r) : r[i] \in Seq(S)
    BY EmptySeq
  <2>2. DOMAIN r = 1..Len(r)
    BY LenProperties
  <2> QED
    BY <1>1, <2>1, <2>2
<1>5. /\ Len(q) = Len(r)
      /\ q[1] = b /\ \A i \in 2..n : q[i] = r[i]
      /\ q \in Seq(Seq(S))
  BY <1>1, <1>3, <1>4, ExceptSeq DEF b, WithTop
<1>6. \A i \in 1..n : \A a \in 1..Len(q[i]) :
        i = 1 /\ a \in 1..(alloc_step - 1) /\ q[i][a] = objects + a
  <2> SUFFICES ASSUME NEW i \in 1..n, NEW a \in 1..Len(q[i])
               PROVE  i = 1 /\ a \in 1..(alloc_step - 1) /\ q[i][a] = objects + a
    OBVIOUS
  <2>1. CASE i = 1
    BY <1>3, <1>5, <2>1
  <2>2. CASE i # 1
    <3>1. i \in 2..n /\ q[i] = <<>>
      BY <1>1, <1>5, <2>2
    <3>2. Len(q[i]) = 0
      BY <3>1
    <3> QED
      BY <3>2
  <2> QED
    BY <2>1, <2>2
<1>7. Distinct(q)
  <2> SUFFICES ASSUME NEW i \in 1..n, NEW j \in 1..n,
                      NEW x \in 1..Len(q[i]), NEW y \in 1..Len(q[j]), q[i][x] = q[j][y]
               PROVE  i = j /\ x = y
    BY <1>1, <1>5 DEF Distinct
  <2> QED
    BY <1>2, <1>6
<1>8. ASSUME NEW x, Has(q, x) PROVE x \in (objects + 1)..(objects + alloc_step - 1)
  <2>1. PICK i \in 1..n : \E a \in 1..Len(q[i]) : q[i][a] = x
    BY <1>1, <1>5, <1>8 DEF Has
  <2> QED
    BY <1>2, <1>6, <2>1
<1>9. ASSUME NEW x \in (objects + 1)..(objects + alloc_step - 1) PROVE Has(q, x)
  <2>1. PICK a \in 1..(alloc_step - 1) : x = objects + a
    <3>1. x - objects \in 1..(alloc_step - 1) /\ x = objects + (x - objects)
      BY <1>2
    <3> QED
      BY <3>1
  <2>2. a \in 1..Len(q[1]) /\ q[1][a] = x
    BY <1>3, <1>5, <2>1
  <2> QED
    BY <1>4, <1>5, <2>2 DEF Has
<1>10. Len(q[1]) <= ALLOCATOR_BLOCK_SIZE
  BY <1>2, <1>3, <1>5, AllocatorAssumption
<1> QED
  BY <1>1, <1>5, <1>7, <1>8, <1>9, <1>10

-----------------------------------------------------------------------------
(* The stack *)

LEMMA SoundRing ==
    ASSUME AllocatorInv
    PROVE  Sound(Ring, Objects) /\ \A o : Has(Ring, o) <=> Has(ring, o)
<1>1. CASE ring # <<>>
  <2>1. Len(ring) > 0
    BY <1>1, EmptySeq DEF AllocatorInv, AllocatorTypeOK
  <2> QED
    BY <1>1, <2>1 DEF Ring, Sound, AllocatorInv, AllocatorTypeOK, RingStacked
<1>2. CASE ring = <<>>
  <2>0. PICK q : q = Grown(ring)
    OBVIOUS
  <2>1. ring \in Seq(Seq(Objects))
    BY DEF AllocatorInv, AllocatorTypeOK
  <2>7. Len(ring) = 0
    BY <1>2, EmptySeq
  <2>2. /\ q \in Seq(Seq(Objects)) /\ Len(q) = Len(ring) + 1
        /\ q[1] = <<>>
        /\ Distinct(ring) => Distinct(q)
        /\ \A o : Has(q, o) <=> Has(ring, o)
    BY ONLY <2>0, <2>1, EmptyBlockInFront
  <2>3. q = Ring
    <3>1. << <<>> >> \in Seq(Seq(Objects))
      BY EmptySeq
    <3> QED
      BY <1>2, <2>0, <3>1, ConcatEmptySeq DEF Ring, Grown
  <2>4. Len(q) = 1 /\ Len(q[1]) = 0
    BY <2>2, <2>7
  <2>5. IsStacked(q)
    <3>1. \A i \in 2..Len(q) : FALSE
      BY <2>4
    <3>2. 1 \in 1..Len(q)
      BY <2>4
    <3> QED
      BY <3>1, <3>2 DEF IsStacked
  <2>6. \A i \in 1..Len(q) : Len(q[i]) <= ALLOCATOR_BLOCK_SIZE
    BY <2>4, AllocatorAssumption
  <2> QED
    BY <2>2, <2>3, <2>4, <2>5, <2>6 DEF Sound, AllocatorInv
<1> QED
  BY <1>1, <1>2

(* The ring an object is taken from: one block back is enough to find one. *)
LEMMA RingForAllocFacts ==
    ASSUME AllocatorInv
    PROVE  /\ Sound(RingForAlloc, Objects)
           /\ \A o : Has(RingForAlloc, o) <=> Has(ring, o)
           /\ RingForAlloc[1] = <<>> =>
                /\ \A i \in 1..Len(RingForAlloc) : RingForAlloc[i] = <<>>
                /\ \A i \in 1..Len(ring) : ring[i] = <<>>
           /\ ring # <<>> => Len(RingForAlloc) = Len(ring)
<1> DEFINE r == Ring
           q == Backward(r)
<1>1. Sound(r, Objects) /\ \A o : Has(r, o) <=> Has(ring, o)
  BY SoundRing
<1>2. \A i \in 1..Len(ring) : ring # <<>> /\ r = ring
  <2>1. ring = <<>> => Len(ring) = 0
    BY EmptySeq
  <2> QED
    BY <2>1 DEF Ring
<1>5. ring # <<>> => r = ring
  BY DEF Ring
<1> HIDE DEF r
<1>3. CASE r[1] # <<>>
  BY <1>1, <1>3 DEF RingForAlloc, Ring, r
<1>4. CASE r[1] = <<>>
  <2>1. RingForAlloc = q
    BY <1>4 DEF RingForAlloc, r
  <2>2. r \in Seq(Seq(Objects)) /\ Len(r) > 0
    BY <1>1 DEF Sound
  <2>3. PICK n \in Nat : n = Len(r) /\ n > 0
    BY <2>2, LenProperties
  <2>4. /\ q \in Seq(Seq(Objects)) /\ Len(q) = n
        /\ \A i \in 1..n : q[i] = IF i = 1 THEN r[n] ELSE r[i - 1]
    BY <2>2, <2>3, BackwardFacts
  <2>5. Distinct(q) /\ \A o : Has(q, o) <=> Has(r, o)
    BY <1>1, <2>2, BackwardSameBlocks DEF Sound
  <2> HIDE DEF q
  <2>6. \A i \in 1..n : \E j \in 1..n : q[i] = r[j]
    <3> SUFFICES ASSUME NEW i \in 1..n PROVE \E j \in 1..n : q[i] = r[j]
      OBVIOUS
    <3>1. CASE i = 1
      <4>1. n \in 1..n /\ q[i] = r[n]
        BY <2>3, <2>4, <3>1
      <4> QED
        BY <4>1
    <3>2. CASE i # 1
      <4>1. i - 1 \in 1..n
        BY <3>2
      <4>2. q[i] = r[i - 1]
        BY <2>4, <3>2
      <4> QED
        BY <4>1, <4>2
    <3> QED
      BY <3>1, <3>2
  <2>7. \A i \in 1..n : Len(q[i]) <= ALLOCATOR_BLOCK_SIZE
    BY <1>1, <2>3, <2>6 DEF Sound
  <2>8. PICK k \in 1..n :
            \A i \in 2..n : IF i <= k THEN r[i] = <<>> ELSE IsFull(r[i])
    BY <1>1, <2>3 DEF Sound, IsStacked
  <2>9. IsStacked(q)
    <3> DEFINE h == IF k < n THEN k + 1 ELSE n
    <3>1. h \in 1..n
      OBVIOUS
    <3>2. ASSUME NEW i \in 2..n
          PROVE  IF i <= h THEN q[i] = <<>> ELSE IsFull(q[i])
      <4>1. q[i] = r[i - 1]
        <5>1. i \in 1..n /\ i # 1
          BY <2>3
        <5> QED
          BY <2>4, <5>1
      <4>2. CASE i = 2
        <5>1. q[i] = r[1] /\ i <= h
          BY <4>1, <4>2
        <5> QED
          BY <1>4, <5>1
      <4>3. CASE i # 2
        <5>1. i - 1 \in 2..n /\ (i <= h <=> i - 1 <= k)
          BY <4>3
        <5> QED
          BY <2>8, <4>1, <5>1
      <4> QED
        BY <4>2, <4>3
    <3> QED
      BY <2>4, <3>1, <3>2 DEF IsStacked
  <2>10. ASSUME q[1] = <<>> PROVE \A i \in 1..n : r[i] = <<>>
    <3>1. r[n] = <<>> /\ Len(r[n]) = 0
      BY <2>3, <2>4, <2>10
    <3>2. ~IsFull(r[n])
      BY <3>1, AllocatorAssumption DEF IsFull
    <3>3. n \in 2..n => n <= k
      BY <2>8, <3>2
    <3> SUFFICES ASSUME NEW i \in 1..n PROVE r[i] = <<>>
      OBVIOUS
    <3>4. CASE i = 1
      BY <1>4, <3>4
    <3>5. CASE i # 1
      <4>1. i \in 2..n /\ n \in 2..n /\ i <= k
        BY <2>3, <3>3, <3>5
      <4> QED
        BY <2>8, <4>1
    <3> QED
      BY <3>4, <3>5
  <2>11. ASSUME q[1] = <<>>
         PROVE  /\ \A i \in 1..Len(q) : q[i] = <<>>
                /\ \A i \in 1..Len(ring) : ring[i] = <<>>
    BY <1>2, <2>3, <2>4, <2>6, <2>10, <2>11
  <2> QED
    BY <1>1, <1>5, <2>1, <2>3, <2>4, <2>5, <2>7, <2>9, <2>11 DEF Sound
<1> QED
  BY <1>3, <1>4

(* The ring an object is put into: its first block has room, and a block is *)
(* added only when all are full.                                           *)
LEMMA RingForFreeFacts ==
    ASSUME AllocatorInv, ring # <<>>
    PROVE  /\ Sound(RingForFree, Objects)
           /\ \A o : Has(RingForFree, o) <=> Has(ring, o)
           /\ ~IsFull(RingForFree[1])
           /\ Len(RingForFree) > Len(ring) => \A i \in 1..Len(ring) : IsFull(ring[i])
<1> DEFINE r == ring
           f == Forward(r)
<1>1. Sound(r, Objects)
  BY SoundRing DEF Ring
<1> HIDE DEF r
<1>2. r \in Seq(Seq(Objects)) /\ Len(r) > 0
  BY <1>1 DEF Sound
<1>3. PICK n \in Nat : n = Len(r) /\ n > 0
  BY <1>2, LenProperties
<1>4. CASE ~IsFull(r[1])
  BY <1>1, <1>3, <1>4 DEF RingForFree, r
<1>5. CASE IsFull(r[1])
  <2>1. /\ f \in Seq(Seq(Objects)) /\ Len(f) = n
        /\ \A i \in 1..n : f[i] = IF i < n THEN r[i + 1] ELSE r[1]
    BY <1>2, <1>3, ForwardFacts
  <2>2. Distinct(f) /\ \A o : Has(f, o) <=> Has(r, o)
    BY <1>1, <1>2, ForwardSameBlocks DEF Sound
  <2> HIDE DEF f
  <2>3. \A i \in 1..n : \E j \in 1..n : f[i] = r[j]
    <3> SUFFICES ASSUME NEW i \in 1..n PROVE \E j \in 1..n : f[i] = r[j]
      OBVIOUS
    <3>1. CASE i < n
      <4>1. i + 1 \in 1..n /\ f[i] = r[i + 1]
        BY <2>1, <3>1
      <4> QED
        BY ONLY <4>1
    <3>2. CASE ~(i < n)
      <4>1. 1 \in 1..n /\ f[i] = r[1]
        BY <1>3, <2>1, <3>2
      <4> QED
        BY ONLY <4>1
    <3> QED
      BY <3>1, <3>2
  <2>4. \A i \in 1..n : Len(f[i]) <= ALLOCATOR_BLOCK_SIZE
    BY <1>1, <1>3, <2>3 DEF Sound
  <2>5. PICK k \in 1..n :
            \A i \in 2..n : IF i <= k THEN r[i] = <<>> ELSE IsFull(r[i])
    BY <1>1, <1>3 DEF Sound, IsStacked
  <2>6. CASE ~IsFull(f[1])
    <3>1. n > 1 /\ f[1] = r[2] /\ k >= 2
      <4>1. n # 1
        <5>1. n = 1 => f[1] = r[1]
          BY <2>1
        <5> QED
          BY <1>5, <2>6, <5>1
      <4>2. n > 1
        BY <1>3, <4>1
      <4>3. f[1] = r[2] /\ 2 \in 2..n
        BY <2>1, <4>2
      <4>4. 2 <= k
        BY <2>5, <2>6, <4>3
      <4> QED
        BY <4>2, <4>3, <4>4
    <3>2. IsStacked(f)
      <4>1. k - 1 \in 1..n
        BY <3>1
      <4>2. ASSUME NEW i \in 2..n
            PROVE  IF i <= k - 1 THEN f[i] = <<>> ELSE IsFull(f[i])
        <5>1. CASE i < n
          <6>1. f[i] = r[i + 1] /\ i + 1 \in 2..n /\ (i <= k - 1 <=> i + 1 <= k)
            BY <2>1, <5>1
          <6> QED
            BY <2>5, <6>1
        <5>2. CASE ~(i < n)
          <6>1. f[i] = r[1] /\ ~(i <= k - 1)
            BY <2>1, <5>2
          <6> QED
            BY <1>5, <6>1
        <5> QED
          BY <5>1, <5>2
      <4> QED
        BY <2>1, <4>1, <4>2 DEF IsStacked
    <3>3. RingForFree = f
      BY <1>5, <2>6 DEF RingForFree, f, r
    <3>4. Sound(f, Objects)
      BY <1>3, <2>1, <2>2, <2>4, <3>2 DEF Sound
    <3> QED
      BY <1>3, <2>1, <2>2, <2>6, <3>3, <3>4 DEF r
  <2>7. CASE IsFull(f[1])
    <3>1. \A i \in 1..n : IsFull(r[i])
      <4> SUFFICES ASSUME NEW i \in 1..n PROVE IsFull(r[i])
        OBVIOUS
      <4>1. CASE i = 1
        BY <1>5, <4>1
      <4>2. CASE i # 1
        <5>1. f[1] = r[2] /\ 2 \in 2..n /\ i \in 2..n
          BY <2>1, <4>2
        <5>2. r[2] # <<>>
          <6>1. Len(r[2]) # 0
            BY <2>7, <5>1, AllocatorAssumption DEF IsFull
          <6> QED
            BY <6>1
        <5>3. ~(2 <= k)
          BY <2>5, <5>1, <5>2
        <5>4. ~(i <= k)
          BY <5>1, <5>3
        <5> QED
          BY <2>5, <5>1, <5>4
      <4> QED
        BY <4>1, <4>2
    <3>10. PICK q : q = Grown(f)
      OBVIOUS
    <3>2. /\ q \in Seq(Seq(Objects)) /\ Len(q) = n + 1
          /\ q[1] = <<>> /\ \A i \in 2..(n + 1) : q[i] = f[i - 1]
          /\ Distinct(q)
          /\ \A o : Has(q, o) <=> Has(r, o)
      <4>1. /\ q \in Seq(Seq(Objects)) /\ Len(q) = Len(f) + 1
            /\ q[1] = <<>> /\ \A i \in 2..Len(q) : q[i] = f[i - 1]
            /\ Distinct(f) => Distinct(q)
            /\ \A o : Has(q, o) <=> Has(f, o)
        BY <2>1, <3>10, EmptyBlockInFront
      <4> QED
        BY <2>1, <2>2, <4>1
    <3>3. \A i \in 2..(n + 1) : IsFull(q[i])
      <4>1. \A i \in 2..(n + 1) : i - 1 \in 1..n
        BY <1>3
      <4> QED
        BY <2>3, <3>1, <3>2, <4>1
    <3>4. Len(q[1]) = 0 /\ ~IsFull(q[1])
      BY <3>2, AllocatorAssumption DEF IsFull
    <3>5. \A i \in 1..Len(q) : Len(q[i]) <= ALLOCATOR_BLOCK_SIZE
      <4> SUFFICES ASSUME NEW i \in 1..(n + 1) PROVE Len(q[i]) <= ALLOCATOR_BLOCK_SIZE
        BY <3>2
      <4>1. CASE i = 1
        BY <3>4, <4>1, AllocatorAssumption
      <4>2. CASE i # 1
        <5>1. i \in 2..(n + 1)
          BY <4>2
        <5> QED
          BY <3>3, <5>1, AllocatorAssumption DEF IsFull
      <4> QED
        BY <4>1, <4>2
    <3>6. IsStacked(q)
      <4>1. 1 \in 1..Len(q) /\ \A i \in 2..Len(q) : ~(i <= 1) /\ IsFull(q[i])
        BY <1>3, <3>2, <3>3
      <4> QED
        BY <4>1 DEF IsStacked
    <3>7. RingForFree = q
      BY <1>5, <2>7, <3>10 DEF RingForFree, Grown, f, r
    <3>8. Sound(q, Objects)
      BY <3>2, <3>5, <3>6 DEF Sound
    <3> QED
      BY <1>3, <3>1, <3>2, <3>4, <3>7, <3>8 DEF r
  <2> QED
    BY <2>6, <2>7
<1> QED
  BY <1>4, <1>5

(* Whether the ring is a stack does not depend on its current block. *)
LEMMA SameRest ==
    ASSUME NEW r, NEW q, IsStacked(r), Len(q) = Len(r), \A i \in 2..Len(r) : q[i] = r[i]
    PROVE  IsStacked(q)
<1>1. PICK k \in 1..Len(r) :
          \A i \in 2..Len(r) : IF i <= k THEN r[i] = <<>> ELSE IsFull(r[i])
  BY DEF IsStacked
<1>2. k \in 1..Len(q) /\ \A i \in 2..Len(q) : IF i <= k THEN q[i] = <<>> ELSE IsFull(q[i])
  BY <1>1
<1> QED
  BY <1>2 DEF IsStacked

-----------------------------------------------------------------------------
(* The steps *)

LEMMA AllocatorInitInv == AllocatorInit => AllocatorInv
<1> SUFFICES ASSUME AllocatorInit PROVE AllocatorInv
  OBVIOUS
<1>1. ring = <<>> /\ ring \in Seq(Seq(Objects)) /\ Len(ring) = 0
  BY EmptySeq DEF AllocatorInit
<1>2. AllocatorTypeOK
  BY <1>1 DEF AllocatorInit, AllocatorTypeOK
<1>3. Distinct(ring) /\ \A o : ~Has(ring, o)
  BY <1>1 DEF Distinct, Has
<1>4. Objects = {}
  BY DEF AllocatorInit, Objects
<1> QED
  BY <1>1, <1>2, <1>3, <1>4 DEF AllocatorInit, AllocatorInv, RingStacked

(* An alloc takes the top of the stack, or new objects when there is none. *)
LEMMA AllocStep ==
    ASSUME AllocatorInv, NEW o, Alloc(o)
    PROVE  /\ AllocatorInv'
           /\ objects' # objects => \A i \in 1..Len(ring) : ring[i] = <<>>
           /\ ring # <<>> => Len(ring') = Len(ring)
<1>1. PICK r : r = RingForAlloc
  OBVIOUS
<1>2. /\ r \in Seq(Seq(Objects)) /\ Len(r) > 0
      /\ \A i \in 1..Len(r) : Len(r[i]) <= ALLOCATOR_BLOCK_SIZE
      /\ Distinct(r) /\ IsStacked(r)
      /\ \A x : Has(r, x) <=> x \in Objects \ used
      /\ ring # <<>> => Len(r) = Len(ring)
  BY <1>1, RingForAllocFacts DEF Sound, AllocatorInv
<1>3. PICK n \in Nat : n = Len(r) /\ n > 0
  BY <1>2, LenProperties
<1>4. objects \in Nat /\ used \in SUBSET Objects
  BY DEF AllocatorInv, AllocatorTypeOK
<1>5. used' = used \cup {o}
  BY DEF Alloc
<1>6. CASE r[1] # <<>>
  <2>1. /\ o = r[1][Len(r[1])]
        /\ ring' = WithTop(r, Pop(r[1]))
        /\ objects' = objects /\ Objects' = Objects
    BY <1>1, <1>6 DEF Alloc, Objects, WithTop
  <2>2. /\ ring' \in Seq(Seq(Objects)) /\ Len(ring') = Len(r)
        /\ \A i \in 2..Len(r) : ring'[i] = r[i]
        /\ Len(ring'[1]) <= Len(r[1])
        /\ Distinct(ring')
        /\ o \in Objects
        /\ \A x : Has(ring', x) <=> Has(r, x) /\ x # o
    BY <1>2, <1>6, <2>1, PopFacts
  <2>3. IsStacked(ring')
    BY <1>2, <2>2, SameRest
  <2>4. \A i \in 1..Len(ring') : Len(ring'[i]) <= ALLOCATOR_BLOCK_SIZE
    <3> SUFFICES ASSUME NEW i \in 1..n PROVE Len(ring'[i]) <= ALLOCATOR_BLOCK_SIZE
      BY <1>3, <2>2
    <3>1. CASE i = 1
      <4>1. 1 \in 1..Len(r) /\ Len(r[1]) \in Nat /\ ring'[1] \in Seq(Objects)
        BY <1>2, <1>3, <2>2, BlockFacts, ElementOfSeq
      <4>2. Len(ring'[1]) \in Nat /\ Len(r[1]) <= ALLOCATOR_BLOCK_SIZE
        BY <1>2, <4>1, LenProperties
      <4> QED
        BY <2>2, <3>1, <4>1, <4>2, AllocatorAssumption
    <3>2. CASE i # 1
      <4>1. i \in 2..Len(r) /\ i \in 1..Len(r)
        BY <1>3, <3>2
      <4> QED
        BY <1>2, <2>2, <4>1
    <3> QED
      BY <3>1, <3>2
  <2>5. AllocatorTypeOK'
    BY <1>4, <1>5, <2>1, <2>2, <2>4 DEF AllocatorTypeOK
  <2>6. \A x : Has(ring', x) <=> x \in Objects' \ used'
    BY <1>2, <1>5, <2>1, <2>2
  <2>7. ring' # <<>>
    BY <1>3, <2>2
  <2>8. AllocatorInv'
    BY <2>2, <2>3, <2>5, <2>6, <2>7 DEF AllocatorInv, RingStacked
  <2> QED
    BY <1>2, <2>1, <2>2, <2>8
<1>7. CASE r[1] = <<>>
  <2>1. /\ o = objects + alloc_step
        /\ ring' = WithTop(r, NewObjects)
        /\ objects' = objects + alloc_step
    BY <1>1, <1>7 DEF Alloc, WithTop
  <2>2. /\ \A i \in 1..Len(r) : r[i] = <<>>
        /\ \A i \in 1..Len(ring) : ring[i] = <<>>
    BY <1>1, <1>7, RingForAllocFacts
  <2>3. alloc_step \in Nat /\ alloc_step > 0
    BY AllocatorAssumption
  <2>4. /\ Objects \subseteq Objects'
        /\ objects + 1..objects + alloc_step \subseteq Objects'
        /\ objects' \in Nat /\ o \in Objects'
        /\ Objects' = Objects \cup (objects + 1..objects + alloc_step)
    BY <1>4, <2>1, <2>3 DEF Objects
  <2>5. /\ ring' \in Seq(Seq(Objects')) /\ Len(ring') = Len(r)
        /\ \A i \in 2..Len(r) : ring'[i] = r[i]
        /\ Len(ring'[1]) <= ALLOCATOR_BLOCK_SIZE
        /\ Distinct(ring')
        /\ \A x : Has(ring', x) <=> x \in (objects + 1)..(objects + alloc_step - 1)
    <3>1. PICK S, q : S = Objects' /\ q = ring'
      OBVIOUS
    <3>2. /\ objects \in Nat /\ Objects \subseteq S
          /\ objects + 1..objects + alloc_step \subseteq S
          /\ r \in Seq(Seq(Objects)) /\ Len(r) > 0
          /\ \A i \in 1..Len(r) : r[i] = <<>>
          /\ q = WithTop(r, NewObjects)
      BY <1>2, <1>4, <2>1, <2>2, <2>4, <3>1
    <3>3. /\ q \in Seq(Seq(S)) /\ Len(q) = Len(r)
          /\ \A i \in 2..Len(r) : q[i] = r[i]
          /\ Len(q[1]) <= ALLOCATOR_BLOCK_SIZE
          /\ Distinct(q)
          /\ \A x : Has(q, x) <=> x \in (objects + 1)..(objects + alloc_step - 1)
      BY ONLY <3>2, MallocFacts, ZenonT(60)
    <3> QED
      BY <3>1, <3>3
  <2>6. IsStacked(ring')
    BY <1>2, <2>5, SameRest
  <2>7. \A i \in 1..Len(ring') : Len(ring'[i]) <= ALLOCATOR_BLOCK_SIZE
    <3> SUFFICES ASSUME NEW i \in 1..n PROVE Len(ring'[i]) <= ALLOCATOR_BLOCK_SIZE
      BY <1>3, <2>5
    <3>1. CASE i # 1
      <4>1. i \in 2..Len(r) /\ i \in 1..Len(r)
        BY <1>3, <3>1
      <4> QED
        BY <1>2, <2>5, <4>1
    <3> QED
      BY <2>5, <3>1
  <2>8. AllocatorTypeOK'
    BY <1>4, <1>5, <2>4, <2>5, <2>7 DEF AllocatorTypeOK
  <2>9. used = Objects
    <3>1. \A x : ~Has(r, x)
      <4>1. \A i \in 1..Len(r) : Len(r[i]) = 0
        BY <2>2
      <4> QED
        BY <4>1 DEF Has
    <3> QED
      BY <1>2, <1>4, <3>1
  <2>10. \A x : Has(ring', x) <=> x \in Objects' \ used'
    <3>1. (objects + 1)..(objects + alloc_step - 1)
            = (objects + 1..objects + alloc_step) \ (Objects \cup {o})
      BY <1>4, <2>1, <2>3 DEF Objects
    <3> QED
      BY <1>5, <2>4, <2>5, <2>9, <3>1
  <2>11. ring' # <<>>
    BY <1>3, <2>5
  <2>12. AllocatorInv'
    BY <2>5, <2>6, <2>8, <2>10, <2>11 DEF AllocatorInv, RingStacked
  <2> QED
    BY <1>2, <2>2, <2>5, <2>12
<1> QED
  BY <1>6, <1>7

(* A free puts the object on the top of the stack. *)
LEMMA FreeStep ==
    ASSUME AllocatorInv, NEW o, Free(o)
    PROVE  /\ AllocatorInv'
           /\ objects' = objects
           /\ Len(ring') > Len(ring) => \A i \in 1..Len(ring) : IsFull(ring[i])
<1>1. PICK r : r = RingForFree
  OBVIOUS
<1>2. /\ o \in Objects /\ o \in used /\ objects' = objects /\ used' = used \ {o}
      /\ objects \in Nat /\ used \in SUBSET Objects
  BY DEF Free, AllocatorInv, AllocatorTypeOK
<1>3. ring # <<>>
  <2>1. objects # 0
    BY <1>2 DEF Objects
  <2> QED
    BY <2>1 DEF AllocatorInv
<1>4. /\ r \in Seq(Seq(Objects)) /\ Len(r) > 0
      /\ \A i \in 1..Len(r) : Len(r[i]) <= ALLOCATOR_BLOCK_SIZE
      /\ Distinct(r) /\ IsStacked(r)
      /\ \A x : Has(r, x) <=> x \in Objects \ used
      /\ ~IsFull(r[1])
      /\ Len(r) > Len(ring) => \A i \in 1..Len(ring) : IsFull(ring[i])
  BY <1>1, <1>3, RingForFreeFacts DEF Sound, AllocatorInv
<1>5. PICK n \in Nat : n = Len(r) /\ n > 0
  BY <1>4, LenProperties
<1>6. ring' = WithTop(r, Append(r[1], o)) /\ Objects' = Objects
  BY <1>1, <1>2 DEF Free, WithTop, Objects
<1>7. ~Has(r, o)
  BY <1>2, <1>4
<1>8. /\ ring' \in Seq(Seq(Objects)) /\ Len(ring') = Len(r)
      /\ \A i \in 2..Len(r) : ring'[i] = r[i]
      /\ Len(ring'[1]) = Len(r[1]) + 1
      /\ Distinct(ring')
      /\ \A x : Has(ring', x) <=> Has(r, x) \/ x = o
  BY <1>2, <1>4, <1>6, <1>7, AppendFacts
<1>9. IsStacked(ring')
  BY <1>4, <1>8, SameRest
<1>10. \A i \in 1..Len(ring') : Len(ring'[i]) <= ALLOCATOR_BLOCK_SIZE
  <2> SUFFICES ASSUME NEW i \in 1..n PROVE Len(ring'[i]) <= ALLOCATOR_BLOCK_SIZE
    BY <1>5, <1>8
  <2>1. CASE i = 1
    <3>1. 1 \in 1..Len(r) /\ Len(r[1]) \in Nat
      BY <1>4, <1>5, BlockFacts
    <3>2. Len(r[1]) <= ALLOCATOR_BLOCK_SIZE /\ Len(r[1]) # ALLOCATOR_BLOCK_SIZE
      BY <1>4, <3>1 DEF IsFull
    <3> QED
      BY <1>8, <2>1, <3>1, <3>2, AllocatorAssumption
  <2>2. CASE i # 1
    <3>1. i \in 2..Len(r) /\ i \in 1..Len(r)
      BY <1>5, <2>2
    <3> QED
      BY <1>4, <1>8, <3>1
  <2> QED
    BY <2>1, <2>2
<1>11. AllocatorTypeOK'
  BY <1>2, <1>6, <1>8, <1>10 DEF AllocatorTypeOK
<1>12. \A x : Has(ring', x) <=> x \in Objects' \ used'
  BY <1>2, <1>4, <1>6, <1>8
<1>13. ring' # <<>>
  BY <1>5, <1>8
<1>14. AllocatorInv'
  BY <1>8, <1>9, <1>11, <1>12, <1>13 DEF AllocatorInv, RingStacked
<1> QED
  BY <1>2, <1>4, <1>8, <1>14

(* Every step keeps the invariant. *)
LEMMA AllocatorStep == AllocatorInv /\ [AllocatorNext]_allocatorVars => AllocatorInv'
<1> SUFFICES ASSUME AllocatorInv, [AllocatorNext]_allocatorVars PROVE AllocatorInv'
  OBVIOUS
<1>1. CASE UNCHANGED allocatorVars
  BY <1>1 DEF allocatorVars, AllocatorInv, AllocatorTypeOK, RingStacked, Objects
<1>2. ASSUME NEW o \in 1..MaxObjects, Alloc(o) PROVE AllocatorInv'
  BY <1>2, AllocStep
<1>3. ASSUME NEW o \in 1..MaxObjects, Free(o) PROVE AllocatorInv'
  BY <1>3, FreeStep
<1> QED
  BY <1>1, <1>2, <1>3 DEF AllocatorNext

-----------------------------------------------------------------------------
(* The allocator: the theorems *)

(* The invariant: whatever the order of type##_alloc and type##_free, the   *)
(* current block splits the ring into full blocks and empty ones, and the   *)
(* ring holds each unused object once.                                      *)
THEOREM AllocatorInvariant == AllocatorSpec => []AllocatorInv
<1> QED
  BY AllocatorInitInv, AllocatorStep, PTL DEF AllocatorSpec

(* Blocks never overflow and hold objects that malloc() gave. *)
THEOREM AllocatorTypeCorrect == AllocatorSpec => []AllocatorTypeOK
<1>1. AllocatorInv => AllocatorTypeOK
  BY DEF AllocatorInv
<1> QED
  BY <1>1, AllocatorInvariant, PTL

(* No object is handed out while somebody has it, and none is lost. *)
THEOREM ObjectsNotSharedOrLost == AllocatorSpec => []NoObjectSharedOrLost
<1>1. ASSUME AllocatorInv PROVE NoObjectSharedOrLost
  <2>1. \A p : p \in Places <=>
            \E i \in 1..Len(ring) : \E a \in 1..Len(ring[i]) : p = <<i, a>>
    BY DEF Places
  <2>2. ASSUME NEW p \in Places, NEW q \in Places, At(p) = At(q) PROVE p = q
    <3>1. PICK i \in 1..Len(ring) : \E a \in 1..Len(ring[i]) : p = <<i, a>>
      BY <2>1
    <3>2. PICK a \in 1..Len(ring[i]) : p = <<i, a>>
      BY <3>1
    <3>3. PICK j \in 1..Len(ring) : \E b \in 1..Len(ring[j]) : q = <<j, b>>
      BY <2>1
    <3>4. PICK b \in 1..Len(ring[j]) : q = <<j, b>>
      BY <3>3
    <3>5. ring[i][a] = ring[j][b]
      BY <2>2, <3>2, <3>4 DEF At
    <3>6. i = j /\ a = b
      BY <1>1, <3>5 DEF AllocatorInv, Distinct
    <3> QED
      BY <3>2, <3>4, <3>6
  <2>3. \A x : Has(ring, x) <=> \E p \in Places : x = At(p)
    <3>1. ASSUME NEW x, Has(ring, x) PROVE \E p \in Places : x = At(p)
      <4>1. PICK i \in 1..Len(ring) : \E a \in 1..Len(ring[i]) : ring[i][a] = x
        BY <3>1 DEF Has
      <4>2. PICK a \in 1..Len(ring[i]) : ring[i][a] = x
        BY <4>1
      <4>3. <<i, a>> \in Places /\ At(<<i, a>>) = x
        BY <2>1, <4>2 DEF At
      <4> QED
        BY <4>3
    <3>2. ASSUME NEW p \in Places PROVE Has(ring, At(p))
      <4>1. PICK i \in 1..Len(ring) : \E a \in 1..Len(ring[i]) : p = <<i, a>>
        BY <2>1
      <4>2. PICK a \in 1..Len(ring[i]) : p = <<i, a>>
        BY <4>1
      <4>3. At(p) = ring[i][a]
        BY <4>2 DEF At
      <4> QED
        BY <4>3 DEF Has
    <3> QED
      BY <3>1, <3>2
  <2>4. {At(p) : p \in Places} = Objects \ used
    BY <1>1, <2>3 DEF AllocatorInv
  <2> QED
    BY <2>2, <2>4 DEF NoObjectSharedOrLost
<1> QED
  BY <1>1, AllocatorInvariant, PTL

(* malloc() is not called while an unused object, or room for one, is left. *)
THEOREM MallocOnlyWhenEmpty == AllocatorSpec => MallocOnlyWhenNeeded
<1>1. ASSUME AllocatorInv, [AllocatorNext]_allocatorVars
      PROVE  [/\ objects' # objects => \A i \in 1..Len(ring) : ring[i] = <<>>
              /\ Len(ring') > Len(ring) /\ ring # <<>> =>
                   \A i \in 1..Len(ring) : IsFull(ring[i])]_allocatorVars
  <2>1. Len(ring) \in Nat
    BY <1>1, LenProperties DEF AllocatorInv, AllocatorTypeOK
  <2>2. ~(Len(ring) > Len(ring))
    BY <2>1
  <2>3. ASSUME NEW o \in 1..MaxObjects, Alloc(o)
        PROVE  /\ objects' # objects => \A i \in 1..Len(ring) : ring[i] = <<>>
               /\ ring # <<>> => ~(Len(ring') > Len(ring))
    BY <1>1, <2>2, <2>3, AllocStep
  <2>4. ASSUME NEW o \in 1..MaxObjects, Free(o)
        PROVE  /\ objects' = objects
               /\ Len(ring') > Len(ring) => \A i \in 1..Len(ring) : IsFull(ring[i])
    BY <1>1, <2>4, FreeStep
  <2> QED
    BY <1>1, <2>3, <2>4 DEF AllocatorNext
<1> QED
  BY <1>1, AllocatorInvariant, PTL DEF AllocatorSpec, MallocOnlyWhenNeeded

-----------------------------------------------------------------------------
(* Walks along pointers *)

(* A fact about numbers holds for all of them if the least one for which it *)
(* does not hold cannot be.                                                *)
LEMMA LeastNumber ==
    ASSUME NEW S \in SUBSET Nat, S # {}
    PROVE  \E x \in S : \A y \in S : x <= y
<1>1. IsWellFoundedOn({ss \in Nat \X Nat : ss[1] < ss[2]}, Nat)
  BY NatLessThanWellFounded DEF OpToRel
<1>2. PICK R : R = {ss \in Nat \X Nat : ss[1] < ss[2]}
  OBVIOUS
<1>3. PICK x \in S : \A y \in S : ~(<<y, x>> \in R)
  <2>1. IsWellFoundedOn(R, Nat)
    BY <1>1, <1>2
  <2> QED
    BY <2>1, WFMin
<1>4. ASSUME NEW y \in S PROVE x <= y
  <2>1. x \in Nat /\ y \in Nat
    OBVIOUS
  <2>2. ~(y < x)
    BY <1>2, <1>3, <2>1
  <2> QED
    BY <2>1, <2>2
<1> QED
  BY <1>4

IsSteps(f, N, x, link) ==
    f = [n \in 0..N |-> IF n = 0 THEN x ELSE link[f[n - 1]]]

LEMMA StepsExist ==
    ASSUME NEW N \in Nat, NEW x, NEW link
    PROVE  \E f : IsSteps(f, N, x, link)
<1>1. SUFFICES ASSUME ~\E f : IsSteps(f, N, x, link) PROVE FALSE
  OBVIOUS
<1>2. PICK S : S = {n \in Nat : ~\E f : IsSteps(f, n, x, link)}
  OBVIOUS
<1>3. PICK m \in S : \A n \in S : m <= n
  BY <1>1, <1>2, LeastNumber
<1>4. m \in Nat /\ ~\E f : IsSteps(f, m, x, link)
  BY <1>2
<1>5. CASE m = 0
  <2>1. PICK f : f = [n \in 0..0 |-> x]
    OBVIOUS
  <2>2. IsSteps(f, 0, x, link)
    BY <2>1 DEF IsSteps
  <2> QED
    BY <1>4, <1>5, <2>2
<1>6. CASE m # 0
  <2>1. m - 1 \in Nat /\ m - 1 \notin S
    BY <1>3, <1>4, <1>6
  <2>2. PICK f : IsSteps(f, m - 1, x, link)
    BY <1>2, <2>1
  <2>3. PICK g : g = [n \in 0..m |-> IF n = m THEN link[f[m - 1]] ELSE f[n]]
    OBVIOUS
  <2>4. ASSUME NEW n \in 0..m PROVE g[n] = IF n = 0 THEN x ELSE link[g[n - 1]]
    <3>1. CASE n = m
      BY <1>4, <1>6, <2>3, <3>1
    <3>2. CASE n # m
      <4>1. n \in 0..(m - 1) /\ g[n] = f[n]
        BY <1>4, <2>3, <3>2
      <4>2. n # 0 => n - 1 \in 0..m /\ n - 1 # m /\ g[n - 1] = f[n - 1]
        BY <1>4, <2>3, <3>2
      <4>3. f[n] = IF n = 0 THEN x ELSE link[f[n - 1]]
        BY <2>2, <4>1 DEF IsSteps
      <4> QED
        BY <4>1, <4>2, <4>3
    <3> QED
      BY <3>1, <3>2
  <2>5. IsSteps(g, m, x, link)
    BY <2>3, <2>4 DEF IsSteps
  <2> QED
    BY <1>4, <2>5
<1> QED
  BY <1>5, <1>6

LEMMA StepsFacts ==
    ASSUME NEW x, NEW link
    PROVE  IsSteps(Steps(x, link), MaxObjects + 1, x, link)
<1>1. MaxObjects + 1 \in Nat
  BY AllocatorAssumption
<1>2. \E f : IsSteps(f, MaxObjects + 1, x, link)
  BY <1>1, StepsExist
<1> QED
  BY <1>2 DEF IsSteps, Steps

-----------------------------------------------------------------------------
(* Rings *)

(* The vertices of a ring from its head l on: the head has the number 0 and *)
(* the number after the last node.                                         *)
Vertex(l, w, i) == IF i \in 1..Len(w) THEN w[i] ELSE l

IsRing(l, w, nx, pv) ==
    /\ w \in Seq(Nodes)
    /\ \A i, j \in 1..Len(w) : w[i] = w[j] => i = j
    /\ \A i \in 0..Len(w) :
        /\ nx[Vertex(l, w, i)] = Vertex(l, w, i + 1)
        /\ pv[Vertex(l, w, i + 1)] = Vertex(l, w, i)

Backwards(w) == [i \in 1..Len(w) |-> w[Len(w) + 1 - i]]

LEMMA VertexFacts ==
    ASSUME NEW l \in Lists, NEW w \in Seq(Nodes)
    PROVE  /\ Len(w) \in Nat
           /\ \A i \in 1..Len(w) : w[i] \in Nodes /\ Vertex(l, w, i) = w[i]
           /\ Vertex(l, w, 0) = l /\ Vertex(l, w, Len(w) + 1) = l
           /\ l \notin Nodes
<1>1. Len(w) \in Nat
  BY LenProperties
<1>2. \A i \in 1..Len(w) : w[i] \in Nodes
  BY ElementOfSeq
<1>3. 0 \notin 1..Len(w) /\ Len(w) + 1 \notin 1..Len(w)
  BY <1>1
<1> QED
  BY <1>1, <1>2, <1>3, ListAssumption DEF Vertex

(* The nodes of a ring differ, so there are not more than there are nodes. *)
LEMMA RingFits ==
    ASSUME NEW w \in Seq(Nodes), \A i, j \in 1..Len(w) : w[i] = w[j] => i = j
    PROVE  Len(w) <= MaxObjects
<1>1. Len(w) \in Nat /\ w \in [1..Len(w) -> Nodes] /\ MaxObjects \in Nat
  BY LenProperties, AllocatorAssumption
<1>2. w \in Injection(1..Len(w), Nodes)
  BY <1>1 DEF Injection, IsInjective
<1>3. /\ IsFiniteSet(Nodes) /\ Cardinality(Nodes) = MaxObjects
      /\ Cardinality(1..Len(w)) = Len(w)
  <2>1. ASSUME NEW n \in Nat PROVE IsFiniteSet(1..n) /\ Cardinality(1..n) = n
    <3>1. /\ IsFiniteSet(1..n)
          /\ Cardinality(1..n) = IF 1 > n THEN 0 ELSE n - 1 + 1
      BY FS_Interval
    <3> QED
      BY <3>1
  <2> QED
    BY <1>1, <2>1 DEF Nodes
<1>4. Cardinality(1..Len(w)) <= Cardinality(Nodes)
  BY <1>2, <1>3, FS_Injection
<1> QED
  BY <1>3, <1>4

(* Steps along the pointers of a ring meet its nodes in their order. *)
LEMMA StepsAroundRing ==
    ASSUME NEW l \in Lists, NEW w, NEW nx, NEW pv, IsRing(l, w, nx, pv),
           NEW n \in 0..(Len(w) + 1)
    PROVE  Steps(l, nx)[n] = Vertex(l, w, n)
<1>1. w \in Seq(Nodes) /\ Len(w) \in Nat /\ Len(w) <= MaxObjects /\ MaxObjects \in Nat
  BY VertexFacts, RingFits, AllocatorAssumption DEF IsRing
<1>2. PICK f : f = Steps(l, nx)
  OBVIOUS
<1>3. \A i \in 0..(MaxObjects + 1) : f[i] = IF i = 0 THEN l ELSE nx[f[i - 1]]
  <2>1. IsSteps(f, MaxObjects + 1, l, nx)
    BY <1>2, StepsFacts
  <2> QED
    BY <2>1 DEF IsSteps
<1>4. SUFFICES ASSUME f[n] # Vertex(l, w, n) PROVE FALSE
  BY <1>2
<1>5. PICK S : S = {i \in 0..(Len(w) + 1) : f[i] # Vertex(l, w, i)}
  OBVIOUS
<1>6. n \in S /\ S \in SUBSET Nat
  BY <1>4, <1>5
<1>7. PICK m \in S : \A i \in S : m <= i
  BY <1>6, LeastNumber
<1>8. m \in 0..(Len(w) + 1) /\ f[m] # Vertex(l, w, m)
  BY <1>5
<1>9. m # 0
  <2>1. f[0] = l
    BY <1>1, <1>3
  <2> QED
    BY <1>1, <1>8, <2>1, VertexFacts
<1>10. m - 1 \in 0..Len(w) /\ m - 1 \notin S /\ m \in 0..(MaxObjects + 1) /\ m - 1 + 1 = m
  BY <1>1, <1>7, <1>8, <1>9
<1>11. f[m - 1] = Vertex(l, w, m - 1)
  BY <1>1, <1>5, <1>10
<1>12. nx[Vertex(l, w, m - 1)] = Vertex(l, w, m)
  BY <1>10 DEF IsRing
<1> QED
  BY <1>3, <1>8, <1>9, <1>10, <1>11, <1>12

(* So a walk gives the nodes of the ring. *)
LEMMA WalkAroundRing ==
    ASSUME NEW l \in Lists, NEW w, NEW nx, NEW pv, IsRing(l, w, nx, pv)
    PROVE  Chain(l, nx) = w
<1>1. /\ w \in Seq(Nodes) /\ Len(w) \in Nat /\ Len(w) <= MaxObjects /\ MaxObjects \in Nat
      /\ w \in [1..Len(w) -> Nodes]
  BY VertexFacts, RingFits, AllocatorAssumption, LenProperties DEF IsRing
<1>2. PICK x : x = Steps(l, nx)
  OBVIOUS
<1>3. PICK k \in Nat : k = Len(w)
  BY <1>1
<1>4. /\ \A n \in 1..k : x[n] = w[n] /\ x[n] \in Nodes
      /\ x[k + 1] \notin Nodes
  <2>1. \A n \in 0..(k + 1) : x[n] = Vertex(l, w, n)
    BY <1>2, <1>3, StepsAroundRing
  <2>2. k + 1 \in 0..(k + 1) /\ \A n \in 1..k : n \in 0..(k + 1)
    OBVIOUS
  <2> QED
    BY <1>1, <1>3, <2>1, <2>2, VertexFacts
<1> DEFINE Ends(n) ==
        /\ n = MaxObjects \/ x[n + 1] \notin Nodes
        /\ \A m \in 1..n : x[m] \in Nodes
<1>5. k \in 0..MaxObjects /\ Ends(k)
  <2>1. k \in 0..MaxObjects
    BY <1>1, <1>3
  <2> QED
    BY <1>4, <2>1
<1>6. ASSUME NEW n \in 0..MaxObjects, Ends(n) PROVE n = k
  <2>1. CASE n < k
    <3>1. n + 1 \in 1..k /\ n # MaxObjects
      BY <1>1, <1>3, <2>1
    <3> QED
      BY <1>4, <1>6, <3>1
  <2>2. CASE n > k
    <3>1. k + 1 \in 1..n
      BY <2>2
    <3> QED
      BY <1>4, <1>6, <3>1
  <2> QED
    BY <2>1, <2>2
<1>7. (CHOOSE n \in 0..MaxObjects : Ends(n)) = k
  BY <1>5, <1>6
<1>8. Chain(l, nx) = [n \in 1..k |-> x[n]]
  BY <1>2, <1>7 DEF Chain
<1> QED
  BY <1>1, <1>3, <1>4, <1>8

(* Read backwards, a ring is the ring of the other pointers. *)
LEMMA RingBackwards ==
    ASSUME NEW l \in Lists, NEW w, NEW nx, NEW pv, IsRing(l, w, nx, pv)
    PROVE  IsRing(l, Backwards(w), pv, nx)
<1>1. PICK b : b = Backwards(w)
  OBVIOUS
<1>2. w \in Seq(Nodes) /\ Len(w) \in Nat
  BY VertexFacts DEF IsRing
<1>3. PICK k \in Nat : k = Len(w)
  BY <1>2
<1>4. \A i \in 1..k : k + 1 - i \in 1..k /\ w[k + 1 - i] \in Nodes
  BY <1>2, <1>3, VertexFacts
<1>5. b \in Seq(Nodes) /\ Len(b) = k /\ \A i \in 1..k : b[i] = w[k + 1 - i]
  <2>1. b = [i \in 1..k |-> w[k + 1 - i]]
    BY <1>1, <1>3 DEF Backwards
  <2> QED
    BY <1>4, <2>1
<1>6. \A i, j \in 1..k : b[i] = b[j] => i = j
  <2> SUFFICES ASSUME NEW i \in 1..k, NEW j \in 1..k, b[i] = b[j] PROVE i = j
    OBVIOUS
  <2>1. PICK c \in 1..k : c = k + 1 - i
    BY <1>4
  <2>2. PICK d \in 1..k : d = k + 1 - j
    BY <1>4
  <2>3. w[c] = w[d]
    BY <1>5, <2>1, <2>2
  <2>4. c = d
    BY <1>3, <2>3 DEF IsRing
  <2> QED
    BY <2>1, <2>2, <2>4
<1>7. ASSUME NEW i \in 0..(k + 1) PROVE Vertex(l, b, i) = Vertex(l, w, k + 1 - i)
  <2>1. CASE i \in 1..k
    BY <1>3, <1>4, <1>5, <2>1 DEF Vertex
  <2>2. CASE i \notin 1..k
    <3>1. k + 1 - i \notin 1..k
      BY <2>2
    <3> QED
      BY <1>3, <1>5, <2>2, <3>1 DEF Vertex
  <2> QED
    BY <2>1, <2>2
<1>8. ASSUME NEW i \in 0..k
      PROVE  /\ pv[Vertex(l, b, i)] = Vertex(l, b, i + 1)
             /\ nx[Vertex(l, b, i + 1)] = Vertex(l, b, i)
  <2>1. PICK j \in 0..k : j = k - i
    OBVIOUS
  <2>2. /\ k + 1 - i = j + 1 /\ k + 1 - (i + 1) = j
        /\ i \in 0..(k + 1) /\ i + 1 \in 0..(k + 1)
    BY <2>1
  <2>3. Vertex(l, b, i) = Vertex(l, w, j + 1) /\ Vertex(l, b, i + 1) = Vertex(l, w, j)
    BY <1>7, <2>2
  <2> QED
    BY <1>3, <2>3 DEF IsRing
<1> QED
  BY <1>1, <1>5, <1>6, <1>8 DEF IsRing

(* The vertices differ, the head counted once. *)
LEMMA VerticesDiffer ==
    ASSUME NEW l \in Lists, NEW w, NEW nx, NEW pv, IsRing(l, w, nx, pv)
    PROVE  /\ \A i, j \in 0..Len(w) : Vertex(l, w, i) = Vertex(l, w, j) => i = j
           /\ \A i, j \in 1..(Len(w) + 1) : Vertex(l, w, i) = Vertex(l, w, j) => i = j
           /\ \A i \in 0..(Len(w) + 1) : Vertex(l, w, i) \in Lists \cup Nodes
<1>1. w \in Seq(Nodes) /\ \A i, j \in 1..Len(w) : w[i] = w[j] => i = j
  BY DEF IsRing
<1>2. PICK k \in Nat : k = Len(w)
  BY <1>1, LenProperties
<1>3. /\ \A i \in 1..k : w[i] \in Nodes /\ Vertex(l, w, i) = w[i] /\ w[i] # l
      /\ \A i \in Nat : i \notin 1..k => Vertex(l, w, i) = l
  BY <1>1, <1>2, VertexFacts DEF Vertex
<1>4. ASSUME NEW i \in 0..k, NEW j \in 0..k, Vertex(l, w, i) = Vertex(l, w, j) PROVE i = j
  BY <1>1, <1>2, <1>3, <1>4
<1>5. ASSUME NEW i \in 1..(k + 1), NEW j \in 1..(k + 1), Vertex(l, w, i) = Vertex(l, w, j)
      PROVE  i = j
  BY <1>1, <1>2, <1>3, <1>5
<1>6. \A i \in 0..(k + 1) : Vertex(l, w, i) \in Lists \cup Nodes
  BY <1>3
<1> QED
  BY <1>2, <1>4, <1>5, <1>6

(* The pointers have not changed at the vertices of a ring. *)
LEMMA RingUntouched ==
    ASSUME NEW l \in Lists, NEW w, NEW nx, NEW pv, IsRing(l, w, nx, pv), NEW nx2, NEW pv2,
           \A i \in 0..Len(w) : LET x == Vertex(l, w, i)
                                IN  nx2[x] = nx[x] /\ pv2[x] = pv[x]
    PROVE  IsRing(l, w, nx2, pv2)
<1>1. w \in Seq(Nodes) /\ Len(w) \in Nat
  BY VertexFacts DEF IsRing
<1>2. ASSUME NEW i \in 0..Len(w)
      PROVE  /\ nx2[Vertex(l, w, i)] = Vertex(l, w, i + 1)
             /\ pv2[Vertex(l, w, i + 1)] = Vertex(l, w, i)
  <2>1. nx[Vertex(l, w, i)] = Vertex(l, w, i + 1) /\ pv[Vertex(l, w, i + 1)] = Vertex(l, w, i)
    BY DEF IsRing
  <2>2. CASE i < Len(w)
    <3>1. i + 1 \in 0..Len(w)
      BY <1>1, <2>2
    <3> QED
      BY <2>1, <3>1
  <2>3. CASE i = Len(w)
    <3>1. Vertex(l, w, i + 1) = Vertex(l, w, 0) /\ 0 \in 0..Len(w)
      BY <1>1, <2>3, VertexFacts
    <3> QED
      BY <2>1, <3>1
  <2> QED
    BY <1>1, <2>2, <2>3
<1> QED
  BY <1>2 DEF IsRing

Ins(w, i, n) ==
    [j \in 1..(Len(w) + 1) |-> IF j < i THEN w[j] ELSE IF j = i THEN n ELSE w[j - 1]]

Del(w, i) == [j \in 1..(Len(w) - 1) |-> IF j < i THEN w[j] ELSE w[j + 1]]

LEMMA InsFacts ==
    ASSUME NEW S, NEW w \in Seq(S), NEW i \in 1..(Len(w) + 1), NEW n \in S
    PROVE  /\ Ins(w, i, n) \in Seq(S) /\ Len(Ins(w, i, n)) = Len(w) + 1
           /\ \A j \in 1..(Len(w) + 1) :
                Ins(w, i, n)[j] = IF j < i THEN w[j] ELSE IF j = i THEN n ELSE w[j - 1]
<1>1. PICK k \in Nat : k = Len(w)
  BY LenProperties
<1>2. ASSUME NEW j \in 1..(k + 1)
      PROVE  (IF j < i THEN w[j] ELSE IF j = i THEN n ELSE w[j - 1]) \in S
  <2>1. CASE j < i
    <3>1. j \in 1..Len(w)
      BY <1>1, <2>1
    <3> QED
      BY <2>1, <3>1, ElementOfSeq
  <2>2. CASE j = i
    BY <2>2
  <2>3. CASE j > i
    <3>1. j - 1 \in 1..Len(w)
      BY <1>1, <2>3
    <3> QED
      BY <2>3, <3>1, ElementOfSeq
  <2> QED
    BY <1>1, <2>1, <2>2, <2>3
<1>3. Ins(w, i, n) =
        [j \in 1..(k + 1) |-> IF j < i THEN w[j] ELSE IF j = i THEN n ELSE w[j - 1]]
  BY <1>1 DEF Ins
<1>4. k + 1 \in Nat
  OBVIOUS
<1> QED
  BY <1>1, <1>2, <1>3, <1>4

LEMMA DelFacts ==
    ASSUME NEW S, NEW w \in Seq(S), NEW i \in 1..Len(w)
    PROVE  /\ Del(w, i) \in Seq(S) /\ Len(Del(w, i)) = Len(w) - 1
           /\ \A j \in 1..(Len(w) - 1) : Del(w, i)[j] = IF j < i THEN w[j] ELSE w[j + 1]
<1>1. PICK k \in Nat : k = Len(w) - 1
  BY LenProperties
<1>2. ASSUME NEW j \in 1..k PROVE (IF j < i THEN w[j] ELSE w[j + 1]) \in S
  <2>1. j \in 1..Len(w) /\ j + 1 \in 1..Len(w)
    BY <1>1, LenProperties
  <2> QED
    BY <2>1, ElementOfSeq
<1>3. Del(w, i) = [j \in 1..k |-> IF j < i THEN w[j] ELSE w[j + 1]]
  BY <1>1 DEF Del
<1> QED
  BY <1>1, <1>2, <1>3

(* What list_insert does to the pointers. *)
Linked(nx, pv, pos, node, nx2, pv2) ==
    /\ nx2[node] = pos /\ nx2[pv[pos]] = node
    /\ pv2[node] = pv[pos] /\ pv2[pos] = node
    /\ \A x \in Lists \cup Nodes :
        /\ x # node /\ x # pv[pos] => nx2[x] = nx[x]
        /\ x # node /\ x # pos => pv2[x] = pv[x]

(* What list_erase does to them. *)
Unlinked(nx, pv, it, nx2, pv2) ==
    /\ nx2[pv[it]] = nx[it] /\ pv2[nx[it]] = pv[it]
    /\ \A x \in Lists \cup Nodes :
        /\ x # it /\ x # pv[it] => nx2[x] = nx[x]
        /\ x # it /\ x # nx[it] => pv2[x] = pv[x]

(* An insert before the vertex i makes the node the vertex i of the ring. *)
LEMMA InsertIntoRing ==
    ASSUME NEW l \in Lists, NEW w, NEW nx, NEW pv, IsRing(l, w, nx, pv),
           NEW i \in 1..(Len(w) + 1),
           NEW node \in Nodes, \A j \in 1..Len(w) : w[j] # node,
           NEW nx2, NEW pv2, Linked(nx, pv, Vertex(l, w, i), node, nx2, pv2)
    PROVE  IsRing(l, Ins(w, i, node), nx2, pv2)
<1>1. w \in Seq(Nodes) /\ l \notin Nodes
  BY VertexFacts DEF IsRing
<1>2. PICK k \in Nat : k = Len(w)
  BY <1>1, LenProperties
<1>3. PICK u : u = Ins(w, i, node)
  OBVIOUS
<1>4. /\ u \in Seq(Nodes) /\ Len(u) = k + 1
      /\ \A j \in 1..(k + 1) : u[j] = IF j < i THEN w[j] ELSE IF j = i THEN node ELSE w[j - 1]
  BY <1>1, <1>2, <1>3, InsFacts
<1>5. \A a, b \in 1..(k + 1) : u[a] = u[b] => a = b
  <2>1. \A a, b \in 1..k : w[a] = w[b] => a = b
    BY <1>2 DEF IsRing
  <2>2. \A a \in 1..(k + 1) : a < i => a \in 1..k
    BY <1>2
  <2>3. \A a \in 1..(k + 1) : ~(a < i) /\ a # i => a - 1 \in 1..k /\ a - 1 >= i
    BY <1>2
  <2> SUFFICES ASSUME NEW a \in 1..(k + 1), NEW b \in 1..(k + 1), u[a] = u[b], a < b
               PROVE  FALSE
    OBVIOUS
  <2>4. CASE b = i
    BY <1>2, <1>4, <2>2, <2>4
  <2>5. CASE a = i
    BY <1>2, <1>4, <2>3, <2>5
  <2>6. CASE b < i
    BY <1>2, <1>4, <2>1, <2>2, <2>6
  <2>7. CASE a > i
    <3>1. w[a - 1] = w[b - 1] /\ a - 1 \in 1..k /\ b - 1 \in 1..k
      BY <1>2, <1>4, <2>3, <2>7
    <3>2. a - 1 = b - 1
      BY <2>1, <3>1
    <3> QED
      BY <3>2
  <2>8. CASE a < i /\ b > i
    <3>1. w[a] = w[b - 1] /\ a \in 1..k /\ b - 1 \in 1..k
      BY <1>2, <1>4, <2>2, <2>3, <2>8
    <3>2. a = b - 1
      BY <2>1, <3>1
    <3> QED
      BY <2>8, <3>2
  <2> QED
    BY <1>2, <2>4, <2>5, <2>6, <2>7, <2>8
(* The vertices of the new ring are those of the old one, and the node. *)
<1>6. /\ \A j \in 0..(i - 1) : Vertex(l, u, j) = Vertex(l, w, j)
      /\ Vertex(l, u, i) = node
      /\ \A j \in (i + 1)..(k + 2) : Vertex(l, u, j) = Vertex(l, w, j - 1)
  <2>1. ASSUME NEW j \in 0..(i - 1) PROVE Vertex(l, u, j) = Vertex(l, w, j)
    <3>1. j \in 1..Len(u) => j \in 1..Len(w) /\ u[j] = w[j]
      BY <1>2, <1>4
    <3>2. j \notin 1..Len(u) => j \notin 1..Len(w)
      BY <1>2, <1>4
    <3> QED
      BY <3>1, <3>2 DEF Vertex
  <2>2. Vertex(l, u, i) = node
    BY <1>2, <1>4 DEF Vertex
  <2>3. ASSUME NEW j \in (i + 1)..(k + 2) PROVE Vertex(l, u, j) = Vertex(l, w, j - 1)
    <3>1. CASE j = k + 2
      <4>1. j \notin 1..Len(u) /\ j - 1 \notin 1..Len(w)
        BY <1>2, <1>4, <3>1
      <4> QED
        BY <4>1 DEF Vertex
    <3>2. CASE j # k + 2
      <4>1. /\ j \in 1..(k + 1) /\ j - 1 \in 1..k /\ ~(j < i) /\ j # i
        BY <1>2, <3>2
      <4>2. j \in 1..Len(u) /\ j - 1 \in 1..Len(w) /\ u[j] = w[j - 1]
        BY <1>2, <1>4, <4>1
      <4> QED
        BY <4>2 DEF Vertex
    <3> QED
      BY <3>1, <3>2
  <2> QED
    BY <2>1, <2>2, <2>3
<1>7. PICK pos, bef : pos = Vertex(l, w, i) /\ bef = Vertex(l, w, i - 1)
  OBVIOUS
<1>8. pv[pos] = bef
  <2>1. i - 1 \in 0..Len(w) /\ i - 1 + 1 = i
    BY <1>2
  <2> QED
    BY <1>7, <2>1 DEF IsRing
<1>9. /\ nx2[node] = pos /\ nx2[bef] = node
      /\ pv2[node] = bef /\ pv2[pos] = node
      /\ \A x \in Lists \cup Nodes :
            /\ x # node /\ x # bef => nx2[x] = nx[x]
            /\ x # node /\ x # pos => pv2[x] = pv[x]
  BY <1>7, <1>8 DEF Linked
<1>10. /\ \A a, b \in 0..k : Vertex(l, w, a) = Vertex(l, w, b) => a = b
       /\ \A a, b \in 1..(k + 1) : Vertex(l, w, a) = Vertex(l, w, b) => a = b
       /\ \A a \in 0..(k + 1) : Vertex(l, w, a) \in Lists \cup Nodes /\ Vertex(l, w, a) # node
  <2>1. ASSUME NEW a \in 0..(k + 1) PROVE Vertex(l, w, a) # node
    BY <1>1, <1>2 DEF Vertex
  <2> QED
    BY <1>2, <2>1, VerticesDiffer
<1>11. \A a \in 0..k : /\ nx[Vertex(l, w, a)] = Vertex(l, w, a + 1)
                       /\ pv[Vertex(l, w, a + 1)] = Vertex(l, w, a)
  BY <1>2 DEF IsRing
<1>12. ASSUME NEW j \in 0..(k + 1)
       PROVE  nx2[Vertex(l, u, j)] = Vertex(l, u, j + 1)
  <2>1. CASE j < i - 1
    <3>1. /\ j \in 0..(i - 1) /\ j + 1 \in 0..(i - 1)
          /\ j \in 0..k /\ i - 1 \in 0..k /\ j # i - 1 /\ j \in 0..(k + 1)
      BY <1>2, <2>1
    <3>2. nx2[Vertex(l, w, j)] = nx[Vertex(l, w, j)]
      BY <1>7, <1>9, <1>10, <3>1
    <3> QED
      BY <1>6, <1>11, <3>1, <3>2
  <2>2. CASE j = i - 1
    <3>1. j \in 0..(i - 1) /\ j + 1 = i
      BY <1>2, <2>2
    <3> QED
      BY <1>6, <1>7, <1>9, <2>2, <3>1
  <2>3. CASE j = i
    <3>1. j + 1 \in (i + 1)..(k + 2) /\ j + 1 - 1 = i
      BY <1>2, <2>3
    <3> QED
      BY <1>6, <1>7, <1>9, <2>3, <3>1
  <2>4. CASE j > i
    <3>1. PICK a \in 0..k : a = j - 1
      BY <1>2, <2>4
    <3>2. /\ j \in (i + 1)..(k + 2) /\ j + 1 \in (i + 1)..(k + 2)
          /\ i - 1 \in 0..k /\ a # i - 1 /\ a \in 0..(k + 1) /\ j + 1 - 1 = a + 1
      BY <1>2, <2>4, <3>1
    <3>3. nx2[Vertex(l, w, a)] = nx[Vertex(l, w, a)]
      BY <1>7, <1>9, <1>10, <3>2
    <3> QED
      BY <1>6, <1>11, <3>1, <3>2, <3>3
  <2> QED
    BY <1>2, <2>1, <2>2, <2>3, <2>4
<1>13. ASSUME NEW j \in 0..(k + 1)
       PROVE  pv2[Vertex(l, u, j + 1)] = Vertex(l, u, j)
  <2>1. CASE j < i - 1
    <3>1. /\ j \in 0..(i - 1) /\ j + 1 \in 0..(i - 1)
          /\ j \in 0..k /\ j + 1 \in 1..(k + 1) /\ i \in 1..(k + 1) /\ j + 1 # i
          /\ j + 1 \in 0..(k + 1)
      BY <1>2, <2>1
    <3>2. pv2[Vertex(l, w, j + 1)] = pv[Vertex(l, w, j + 1)]
      BY <1>7, <1>9, <1>10, <3>1
    <3> QED
      BY <1>6, <1>11, <3>1, <3>2
  <2>2. CASE j = i - 1
    <3>1. j \in 0..(i - 1) /\ j + 1 = i
      BY <1>2, <2>2
    <3> QED
      BY <1>6, <1>7, <1>9, <2>2, <3>1
  <2>3. CASE j = i
    <3>1. j + 1 \in (i + 1)..(k + 2) /\ j + 1 - 1 = i
      BY <1>2, <2>3
    <3> QED
      BY <1>6, <1>7, <1>9, <2>3, <3>1
  <2>4. CASE j > i
    <3>1. PICK a \in 0..k : a = j - 1
      BY <1>2, <2>4
    <3>2. /\ j \in (i + 1)..(k + 2) /\ j + 1 \in (i + 1)..(k + 2)
          /\ a + 1 # i /\ a + 1 \in 1..(k + 1) /\ i \in 1..(k + 1)
          /\ a + 1 \in 0..(k + 1) /\ j + 1 - 1 = a + 1
      BY <1>2, <2>4, <3>1
    <3>3. pv2[Vertex(l, w, a + 1)] = pv[Vertex(l, w, a + 1)]
      BY <1>7, <1>9, <1>10, <3>2
    <3> QED
      BY <1>6, <1>11, <3>1, <3>2, <3>3
  <2> QED
    BY <1>2, <2>1, <2>2, <2>3, <2>4
<1> QED
  BY <1>3, <1>4, <1>5, <1>12, <1>13 DEF IsRing

(* An erase takes the vertex i out of the ring. *)
LEMMA EraseFromRing ==
    ASSUME NEW l \in Lists, NEW w, NEW nx, NEW pv, IsRing(l, w, nx, pv),
           NEW i \in 1..Len(w),
           NEW nx2, NEW pv2, Unlinked(nx, pv, w[i], nx2, pv2)
    PROVE  IsRing(l, Del(w, i), nx2, pv2)
<1>1. w \in Seq(Nodes) /\ l \notin Nodes
  BY VertexFacts DEF IsRing
<1>2. PICK k \in Nat : k = Len(w)
  BY <1>1, LenProperties
<1>3. PICK u : u = Del(w, i)
  OBVIOUS
<1>4. /\ u \in Seq(Nodes) /\ Len(u) = k - 1 /\ i \in 1..k
      /\ \A j \in 1..(k - 1) : u[j] = IF j < i THEN w[j] ELSE w[j + 1]
  BY <1>1, <1>2, <1>3, DelFacts
<1>5. \A a, b \in 1..(k - 1) : u[a] = u[b] => a = b
  <2>1. \A a, b \in 1..k : w[a] = w[b] => a = b
    BY <1>2 DEF IsRing
  <2> SUFFICES ASSUME NEW a \in 1..(k - 1), NEW b \in 1..(k - 1), u[a] = u[b], a < b
               PROVE  FALSE
    OBVIOUS
  <2>2. PICK c \in 1..k : c = (IF a < i THEN a ELSE a + 1) /\ u[a] = w[c]
    <3>1. a \in 1..k /\ a + 1 \in 1..k
      BY <1>2
    <3> QED
      BY <1>4, <3>1
  <2>3. PICK d \in 1..k : d = (IF b < i THEN b ELSE b + 1) /\ u[b] = w[d]
    <3>1. b \in 1..k /\ b + 1 \in 1..k
      BY <1>2
    <3> QED
      BY <1>4, <3>1
  <2>4. c = d
    BY <2>1, <2>2, <2>3
  <2> QED
    BY <1>2, <2>2, <2>3, <2>4
<1>6. /\ \A j \in 0..(i - 1) : Vertex(l, u, j) = Vertex(l, w, j)
      /\ \A j \in i..k : Vertex(l, u, j) = Vertex(l, w, j + 1)
  <2>1. ASSUME NEW j \in 0..(i - 1) PROVE Vertex(l, u, j) = Vertex(l, w, j)
    <3>1. CASE j = 0
      <4>1. j \notin 1..Len(u) /\ j \notin 1..Len(w)
        BY <3>1
      <4> QED
        BY <4>1 DEF Vertex
    <3>2. CASE j # 0
      <4>1. j \in 1..(k - 1) /\ j \in 1..k /\ j < i
        BY <1>2, <1>4, <3>2
      <4>2. u[j] = w[j] /\ j \in 1..Len(u) /\ j \in 1..Len(w)
        BY <1>2, <1>4, <4>1
      <4> QED
        BY <4>2 DEF Vertex
    <3> QED
      BY <3>1, <3>2
  <2>2. ASSUME NEW j \in i..k PROVE Vertex(l, u, j) = Vertex(l, w, j + 1)
    <3>1. CASE j = k
      <4>1. j \notin 1..Len(u) /\ j + 1 \notin 1..Len(w)
        BY <1>2, <1>4, <3>1
      <4> QED
        BY <4>1 DEF Vertex
    <3>2. CASE j # k
      <4>1. j \in 1..(k - 1) /\ j + 1 \in 1..k /\ ~(j < i)
        BY <1>2, <1>4, <3>2
      <4>2. u[j] = w[j + 1] /\ j \in 1..Len(u) /\ j + 1 \in 1..Len(w)
        BY <1>2, <1>4, <4>1
      <4> QED
        BY <4>2 DEF Vertex
    <3> QED
      BY <3>1, <3>2
  <2> QED
    BY <2>1, <2>2
<1>7. PICK it, bef, aft : it = w[i] /\ bef = Vertex(l, w, i - 1) /\ aft = Vertex(l, w, i + 1)
  OBVIOUS
<1>8. it = Vertex(l, w, i) /\ pv[it] = bef /\ nx[it] = aft
  <2>1. it = Vertex(l, w, i)
    BY <1>7 DEF Vertex
  <2>2. i - 1 \in 0..Len(w) /\ i \in 0..Len(w) /\ i - 1 + 1 = i
    BY <1>2, <1>4
  <2> QED
    BY <1>7, <2>1, <2>2 DEF IsRing
<1>9. /\ nx2[bef] = aft /\ pv2[aft] = bef
      /\ \A x \in Lists \cup Nodes :
            /\ x # it /\ x # bef => nx2[x] = nx[x]
            /\ x # it /\ x # aft => pv2[x] = pv[x]
  BY <1>7, <1>8 DEF Unlinked
<1>10. /\ \A a, b \in 0..k : Vertex(l, w, a) = Vertex(l, w, b) => a = b
       /\ \A a, b \in 1..(k + 1) : Vertex(l, w, a) = Vertex(l, w, b) => a = b
       /\ \A a \in 0..(k + 1) : Vertex(l, w, a) \in Lists \cup Nodes
  BY <1>2, VerticesDiffer
<1>11. \A a \in 0..k : /\ nx[Vertex(l, w, a)] = Vertex(l, w, a + 1)
                       /\ pv[Vertex(l, w, a + 1)] = Vertex(l, w, a)
  BY <1>2 DEF IsRing
<1>12. ASSUME NEW j \in 0..(k - 1)
       PROVE  nx2[Vertex(l, u, j)] = Vertex(l, u, j + 1)
  <2>1. CASE j < i - 1
    <3>1. /\ j \in 0..(i - 1) /\ j + 1 \in 0..(i - 1) /\ i \in 0..k
          /\ j \in 0..k /\ i - 1 \in 0..k /\ j # i - 1 /\ j # i /\ j \in 0..(k + 1)
      BY <1>4, <2>1
    <3>2. nx2[Vertex(l, w, j)] = nx[Vertex(l, w, j)]
      BY <1>7, <1>8, <1>9, <1>10, <3>1
    <3> QED
      BY <1>6, <1>11, <3>1, <3>2
  <2>2. CASE j = i - 1
    <3>1. j \in 0..(i - 1) /\ j + 1 = i /\ i \in i..k
      BY <1>4, <2>2
    <3> QED
      BY <1>6, <1>7, <1>9, <2>2, <3>1
  <2>3. CASE j >= i
    <3>1. PICK a \in 0..k : a = j + 1
      BY <1>4, <2>3
    <3>2. /\ j \in i..k /\ j + 1 \in i..k /\ a # i /\ a # i - 1
          /\ i \in 0..k /\ i - 1 \in 0..k /\ a \in 0..(k + 1)
      BY <1>4, <2>3, <3>1
    <3>3. nx2[Vertex(l, w, a)] = nx[Vertex(l, w, a)]
      BY <1>7, <1>8, <1>9, <1>10, <3>2
    <3> QED
      BY <1>6, <1>11, <3>1, <3>2, <3>3
  <2> QED
    BY <1>4, <2>1, <2>2, <2>3
<1>13. ASSUME NEW j \in 0..(k - 1)
       PROVE  pv2[Vertex(l, u, j + 1)] = Vertex(l, u, j)
  <2>1. CASE j < i - 1
    <3>1. /\ j \in 0..(i - 1) /\ j + 1 \in 0..(i - 1) /\ j \in 0..k
          /\ j + 1 \in 1..(k + 1) /\ i \in 1..(k + 1) /\ i + 1 \in 1..(k + 1)
          /\ j + 1 # i /\ j + 1 # i + 1 /\ j + 1 \in 0..(k + 1)
      BY <1>4, <2>1
    <3>2. pv2[Vertex(l, w, j + 1)] = pv[Vertex(l, w, j + 1)]
      BY <1>7, <1>8, <1>9, <1>10, <3>1
    <3> QED
      BY <1>6, <1>11, <3>1, <3>2
  <2>2. CASE j = i - 1
    <3>1. j \in 0..(i - 1) /\ j + 1 = i /\ i \in i..k
      BY <1>4, <2>2
    <3> QED
      BY <1>6, <1>7, <1>9, <2>2, <3>1
  <2>3. CASE j >= i
    <3>1. PICK a \in 0..k : a = j + 1
      BY <1>4, <2>3
    <3>2. /\ j \in i..k /\ j + 1 \in i..k /\ a + 1 # i /\ a + 1 # i + 1
          /\ i \in 1..(k + 1) /\ i + 1 \in 1..(k + 1)
          /\ a + 1 \in 1..(k + 1) /\ a + 1 \in 0..(k + 1)
      BY <1>4, <2>3, <3>1
    <3>3. pv2[Vertex(l, w, a + 1)] = pv[Vertex(l, w, a + 1)]
      BY <1>7, <1>8, <1>9, <1>10, <3>2
    <3> QED
      BY <1>6, <1>11, <3>1, <3>2, <3>3
  <2> QED
    BY <1>4, <2>1, <2>2, <2>3
<1> QED
  BY <1>3, <1>4, <1>5, <1>12, <1>13 DEF IsRing

Members(w) == {w[j] : j \in DOMAIN w}

LEMMA InsMembers ==
    ASSUME NEW S, NEW w \in Seq(S), NEW i \in 1..(Len(w) + 1), NEW n \in S
    PROVE  Members(Ins(w, i, n)) = Members(w) \cup {n}
<1>1. PICK k \in Nat : k = Len(w) /\ DOMAIN w = 1..k
  BY LenProperties
<1>2. PICK u : u = Ins(w, i, n)
  OBVIOUS
<1>3. /\ DOMAIN u = 1..(k + 1)
      /\ \A j \in 1..(k + 1) : u[j] = IF j < i THEN w[j] ELSE IF j = i THEN n ELSE w[j - 1]
  BY <1>1, <1>2 DEF Ins
<1>4. ASSUME NEW j \in 1..(k + 1) PROVE u[j] \in Members(w) \cup {n}
  <2>1. CASE j < i
    <3>1. j \in 1..k
      BY <1>1, <2>1
    <3> QED
      BY <1>1, <1>3, <2>1, <3>1 DEF Members
  <2>2. CASE j > i
    <3>1. j - 1 \in 1..k /\ ~(j < i) /\ j # i
      BY <1>1, <2>2
    <3> QED
      BY <1>1, <1>3, <3>1 DEF Members
  <2> QED
    BY <1>1, <1>3, <2>1, <2>2
<1>5. ASSUME NEW j \in 1..k PROVE w[j] \in Members(u)
  <2>1. CASE j < i
    <3>1. j \in 1..(k + 1)
      OBVIOUS
    <3> QED
      BY <1>3, <2>1, <3>1 DEF Members
  <2>2. CASE ~(j < i)
    <3>1. PICK e \in 1..(k + 1) : e = j + 1 /\ ~(e < i) /\ e # i /\ e - 1 = j
      BY <1>1, <2>2
    <3>2. u[e] = w[j]
      BY <1>3, <3>1
    <3> QED
      BY <1>3, <3>2 DEF Members
  <2> QED
    BY <2>1, <2>2
<1>6. n \in Members(u)
  <2>1. i \in 1..(k + 1) /\ ~(i < i)
    BY <1>1
  <2> QED
    BY <1>3, <2>1 DEF Members
<1>7. Members(u) \subseteq Members(w) \cup {n}
  BY <1>3, <1>4 DEF Members
<1>8. Members(w) \subseteq Members(u)
  BY <1>1, <1>5 DEF Members
<1> QED
  BY <1>2, <1>6, <1>7, <1>8

LEMMA DelMembers ==
    ASSUME NEW S, NEW w \in Seq(S), NEW i \in 1..Len(w),
           \A a, b \in 1..Len(w) : w[a] = w[b] => a = b
    PROVE  Members(Del(w, i)) = Members(w) \ {w[i]}
<1>1. PICK k \in Nat : k = Len(w) /\ DOMAIN w = 1..k
  BY LenProperties
<1>2. PICK u : u = Del(w, i)
  OBVIOUS
<1>3. /\ DOMAIN u = 1..(k - 1)
      /\ \A j \in 1..(k - 1) : u[j] = IF j < i THEN w[j] ELSE w[j + 1]
  BY <1>1, <1>2 DEF Del
<1>4. ASSUME NEW j \in 1..(k - 1) PROVE u[j] \in Members(w) \ {w[i]}
  <2>1. CASE j < i
    <3>1. j \in 1..k /\ j # i
      BY <1>1, <2>1
    <3> QED
      BY <1>1, <1>3, <2>1, <3>1 DEF Members
  <2>2. CASE ~(j < i)
    <3>1. j + 1 \in 1..k /\ j + 1 # i
      BY <1>1, <2>2
    <3> QED
      BY <1>1, <1>3, <2>2, <3>1 DEF Members
  <2> QED
    BY <2>1, <2>2
<1>5. ASSUME NEW j \in 1..k, j # i PROVE w[j] \in Members(u)
  <2>1. CASE j < i
    <3>1. j \in 1..(k - 1)
      BY <1>1, <2>1
    <3> QED
      BY <1>3, <2>1, <3>1 DEF Members
  <2>2. CASE j > i
    <3>1. j - 1 \in 1..(k - 1) /\ ~(j - 1 < i) /\ j - 1 + 1 = j
      BY <1>1, <2>2
    <3> QED
      BY <1>3, <3>1 DEF Members
  <2> QED
    BY <1>1, <1>5, <2>1, <2>2
<1>6. Members(u) \subseteq Members(w) \ {w[i]}
  BY <1>3, <1>4 DEF Members
<1>7. Members(w) \ {w[i]} \subseteq Members(u)
  BY <1>1, <1>5 DEF Members
<1> QED
  BY <1>2, <1>6, <1>7

-----------------------------------------------------------------------------
(* The invariant of the lists *)

Pointers == Lists \cup Nodes \cup {NULL}

ListTypes ==
    /\ next \in [Pointers -> Pointers]
    /\ prev \in [Pointers -> Pointers]
    /\ value \in [Nodes -> Values \cup {NULL}]

(* The walks are rings, and the rings share the nodes in use between them. *)
ListInv ==
    /\ AllocatorInv
    /\ ListTypes
    /\ \A l \in Lists : IsRing(l, Walk(l), next, prev)
    /\ \A l, m \in Lists : l # m => NodesOf(l) \cap NodesOf(m) = {}
    /\ UNION {NodesOf(l) : l \in Lists} = used
    /\ \A n \in used : value[n] \in Values

LEMMA AllocFresh ==
    ASSUME AllocatorInv, NEW o, Alloc(o)
    PROVE  AllocatorInv' /\ o \notin used /\ used' = used \cup {o}
<1>1. AllocatorInv' /\ used' = used \cup {o}
  BY AllocStep DEF Alloc
<1>2. PICK r : r = RingForAlloc
  OBVIOUS
<1>3. CASE r[1] = <<>>
  <2>1. o = objects + alloc_step /\ objects \in Nat /\ alloc_step \in Nat /\ alloc_step > 0
    BY <1>2, <1>3, AllocatorAssumption DEF Alloc, AllocatorInv, AllocatorTypeOK
  <2>2. o \notin Objects
    BY <2>1 DEF Objects
  <2> QED
    BY <1>1, <2>2 DEF AllocatorInv, AllocatorTypeOK
<1>4. CASE r[1] # <<>>
  <2>1. o = r[1][Len(r[1])]
    BY <1>2, <1>4 DEF Alloc
  <2>2. r \in Seq(Seq(Objects)) /\ 1 \in 1..Len(r)
    <3>1. Sound(r, Objects)
      BY <1>2, RingForAllocFacts
    <3> QED
      BY <3>1, LenProperties DEF Sound
  <2>3. Len(r[1]) \in 1..Len(r[1])
    <3>1. r[1] \in Seq(Objects)
      BY <2>2, ElementOfSeq
    <3>2. Len(r[1]) \in Nat \ {0}
      BY <1>4, <3>1, EmptySeq
    <3> QED
      BY <3>2
  <2>4. Has(r, o)
    BY <2>1, <2>2, <2>3 DEF Has
  <2>5. Has(ring, o)
    BY <1>2, <2>4, RingForAllocFacts
  <2> QED
    BY <1>1, <2>5 DEF AllocatorInv
<1> QED
  BY <1>3, <1>4

(* What the invariant says of one list. *)
LEMMA ListFacts ==
    ASSUME ListInv, NEW l \in Lists
    PROVE  /\ Walk(l) \in Seq(Nodes) /\ Len(Walk(l)) \in Nat
           /\ DOMAIN Walk(l) = 1..Len(Walk(l))
           /\ IsRing(l, Walk(l), next, prev)
           /\ NodesOf(l) = Members(Walk(l))
           /\ NodesOf(l) \subseteq used
           /\ \A j \in 1..Len(Walk(l)) : Walk(l)[j] \in Nodes /\ Walk(l)[j] \in NodesOf(l)
           /\ \A i, j \in 1..Len(Walk(l)) : Walk(l)[i] = Walk(l)[j] => i = j
           /\ \A x \in NodesOf(l) : \E j \in 1..Len(Walk(l)) : x = Walk(l)[j]
<1>1. IsRing(l, Walk(l), next, prev)
  BY DEF ListInv
<1>2. /\ Walk(l) \in Seq(Nodes)
      /\ \A i, j \in 1..Len(Walk(l)) : Walk(l)[i] = Walk(l)[j] => i = j
  BY <1>1 DEF IsRing
<1>3. /\ Len(Walk(l)) \in Nat /\ DOMAIN Walk(l) = 1..Len(Walk(l))
      /\ \A j \in 1..Len(Walk(l)) : Walk(l)[j] \in Nodes
  BY <1>2, LenProperties, ElementOfSeq
<1>4. NodesOf(l) = Members(Walk(l))
  BY DEF NodesOf, Members
<1>5. NodesOf(l) \subseteq used
  BY DEF ListInv
<1> QED
  BY <1>1, <1>2, <1>3, <1>4, <1>5 DEF Members

(* Pointers that changed at other vertices leave a list as it is. *)
LEMMA OtherListUntouched ==
    ASSUME ListInv, NEW l \in Lists, NEW nx2, NEW pv2,
           \A x \in NodesOf(l) \cup {l} : nx2[x] = next[x] /\ pv2[x] = prev[x]
    PROVE  IsRing(l, Walk(l), nx2, pv2) /\ Chain(l, nx2) = Walk(l)
<1>1. PICK w : w = Walk(l)
  OBVIOUS
<1>2. IsRing(l, w, next, prev)
  BY <1>1, ListFacts
<1>3. \A i \in 0..Len(w) : Vertex(l, w, i) \in NodesOf(l) \cup {l}
  BY <1>1, ListFacts DEF Vertex
<1>4. \A i \in 0..Len(w) : LET x == Vertex(l, w, i)
                           IN  nx2[x] = next[x] /\ pv2[x] = prev[x]
  BY <1>3
<1>5. IsRing(l, w, nx2, pv2)
  BY <1>2, <1>4, RingUntouched
<1> QED
  BY <1>1, <1>5, WalkAroundRing

-----------------------------------------------------------------------------
(* The operations *)

LEMMA WalkAfter == \A m \in Lists : Walk(m)' = Chain(m, next')
  BY DEF Walk

(* The invariant after a step, list by list. *)
LEMMA ListInvAfter ==
    ASSUME AllocatorInv', ListTypes',
           \A m \in Lists : IsRing(m, Chain(m, next'), next', prev'),
           \A m, n \in Lists :
             m # n => Members(Chain(m, next')) \cap Members(Chain(n, next')) = {},
           UNION {Members(Chain(m, next')) : m \in Lists} = used',
           \A n \in used' : value'[n] \in Values
    PROVE  ListInv'
<1>1. \A m \in Lists : Walk(m)' = Chain(m, next')
  BY WalkAfter
<1>2. \A m \in Lists : NodesOf(m)' = Members(Chain(m, next'))
  BY <1>1 DEF NodesOf, Members
<1>3. \A m \in Lists : IsRing(m, Walk(m)', next', prev')
  BY <1>1
<1>4. \A m, n \in Lists : m # n => NodesOf(m)' \cap NodesOf(n)' = {}
  BY <1>2
<1>5. UNION {NodesOf(m)' : m \in Lists} = used'
  BY <1>2
<1> QED
  BY <1>3, <1>4, <1>5 DEF ListInv

(* The list l has the node more, before its vertex i. *)
InsertDone(l, i, node, v) ==
    /\ node \in Nodes \ used /\ used' = used \cup {node}
    /\ Chain(l, next') = Ins(Walk(l), i, node)
    /\ \A m \in Lists \ {l} : Chain(m, next') = Walk(m)
    /\ value' = [value EXCEPT ![node] = v]

LEMMA InsertStep ==
    ASSUME ListInv, NEW l \in Lists, NEW i \in 1..(Len(Walk(l)) + 1),
           NEW node \in Nodes, NEW v \in Values,
           list_insert(Vertex(l, Walk(l), i), node, v)
    PROVE  ListInv' /\ InsertDone(l, i, node, v)
<1>1. AllocatorInv' /\ node \notin used /\ used' = used \cup {node}
  BY AllocFresh DEF list_insert, ListInv
<1>2. PICK w : w = Walk(l)
  OBVIOUS
<1>3. /\ w \in Seq(Nodes) /\ Len(w) \in Nat /\ IsRing(l, w, next, prev)
      /\ Members(w) = NodesOf(l) /\ NodesOf(l) \subseteq used
      /\ \A j \in 1..Len(w) : w[j] \in Nodes /\ w[j] \in NodesOf(l)
  BY <1>2, ListFacts
<1>4. PICK k \in Nat : k = Len(w) /\ i \in 1..(k + 1)
  BY <1>2, <1>3
<1>5. PICK pos : pos = Vertex(l, w, i)
  OBVIOUS
<1>6. PICK before : before = Vertex(l, w, i - 1)
  OBVIOUS
<1>7. prev[pos] = before
  <2>1. i - 1 \in 0..k /\ i - 1 + 1 = i
    BY <1>4
  <2>2. prev[Vertex(l, w, i - 1 + 1)] = Vertex(l, w, i - 1)
    BY <1>3, <1>4, <2>1 DEF IsRing
  <2> QED
    BY <1>5, <1>6, <2>1, <2>2
<1>8. /\ pos \in NodesOf(l) \cup {l} /\ before \in NodesOf(l) \cup {l}
      /\ pos \in Lists \cup Nodes /\ before \in Lists \cup Nodes
  BY <1>3, <1>5, <1>6 DEF Vertex
<1>9. pos # node /\ before # node
  BY <1>1, <1>3, <1>8, ListAssumption
<1>10. /\ next' = [next EXCEPT ![node] = pos, ![before] = node]
       /\ prev' = [prev EXCEPT ![node] = before, ![pos] = node]
       /\ value' = [value EXCEPT ![node] = v]
  BY <1>2, <1>5, <1>7 DEF list_insert, InsertNode
<1>11. /\ next \in [Pointers -> Pointers] /\ prev \in [Pointers -> Pointers]
       /\ value \in [Nodes -> Values \cup {NULL}]
  BY DEF ListInv, ListTypes
<1>12. ListTypes'
  <2>1. /\ pos \in Pointers /\ before \in Pointers /\ node \in Pointers
    BY <1>8 DEF Pointers
  <2> QED
    BY <1>10, <1>11, <2>1 DEF ListTypes
<1>13. /\ next'[node] = pos /\ next'[before] = node
       /\ prev'[node] = before /\ prev'[pos] = node
       /\ \A x \in Lists \cup Nodes :
            /\ x # node /\ x # before => next'[x] = next[x]
            /\ x # node /\ x # pos => prev'[x] = prev[x]
  BY <1>8, <1>9, <1>10, <1>11 DEF Pointers
<1>14. Linked(next, prev, pos, node, next', prev')
  BY <1>7, <1>13 DEF Linked
<1>15. \A j \in 1..Len(w) : w[j] # node
  BY <1>1, <1>3
<1>16. i \in 1..(Len(w) + 1)
  BY <1>4
<1>17. IsRing(l, Ins(w, i, node), next', prev')
  BY <1>3, <1>5, <1>14, <1>15, <1>16, InsertIntoRing
<1>18. Chain(l, next') = Ins(w, i, node)
  BY <1>17, WalkAroundRing
<1>19. ASSUME NEW m \in Lists \ {l}
       PROVE  IsRing(m, Walk(m), next', prev') /\ Chain(m, next') = Walk(m)
  <2>1. NodesOf(m) \subseteq used /\ NodesOf(m) \cap NodesOf(l) = {} /\ used \subseteq Nodes
    <3>1. NodesOf(m) \subseteq used /\ NodesOf(m) \cap NodesOf(l) = {}
      BY ListFacts DEF ListInv
    <3>2. \A n \in Lists : NodesOf(n) \subseteq Nodes
      BY ListFacts
    <3> QED
      BY <3>1, <3>2 DEF ListInv
  <2>2. l \notin Nodes /\ m \notin Nodes
    BY ListAssumption
  <2>3. ASSUME NEW x \in NodesOf(m) \cup {m} PROVE next'[x] = next[x] /\ prev'[x] = prev[x]
    <3>1. x # node /\ x # pos /\ x # before
      BY <1>1, <1>3, <1>8, <2>1, <2>2
    <3>2. x \in Lists \cup Nodes
      BY <2>1
    <3> QED
      BY <1>13, <3>1, <3>2
  <2> QED
    BY <2>3, OtherListUntouched
<1>20. InsertDone(l, i, node, v)
  BY <1>1, <1>2, <1>10, <1>18, <1>19 DEF InsertDone
<1>21. Members(Chain(l, next')) = NodesOf(l) \cup {node}
  BY <1>3, <1>16, <1>18, InsMembers
<1>22. \A m \in Lists \ {l} : Members(Chain(m, next')) = NodesOf(m)
  BY <1>19, ListFacts
<1>23. \A m \in Lists : IsRing(m, Chain(m, next'), next', prev')
  BY <1>17, <1>18, <1>19
<1>24. \A m, n \in Lists :
         m # n => Members(Chain(m, next')) \cap Members(Chain(n, next')) = {}
  <2>1. /\ \A m, n \in Lists : m # n => NodesOf(m) \cap NodesOf(n) = {}
        /\ \A m \in Lists : NodesOf(m) \subseteq used
    BY DEF ListInv
  <2> QED
    BY <1>1, <1>21, <1>22, <2>1
<1>25. UNION {Members(Chain(m, next')) : m \in Lists} = used'
  <2>1. UNION {NodesOf(m) : m \in Lists} = used
    BY DEF ListInv
  <2> QED
    BY <1>1, <1>21, <1>22, <2>1
<1>26. \A n \in used' : value'[n] \in Values
  <2>1. \A n \in used : n \in Nodes /\ value[n] \in Values
    <3>1. \A m \in Lists : NodesOf(m) \subseteq Nodes
      BY ListFacts
    <3> QED
      BY <3>1 DEF ListInv
  <2> QED
    BY <1>1, <1>10, <1>11, <2>1
<1>27. ListInv'
  BY <1>1, <1>12, <1>23, <1>24, <1>25, <1>26, ListInvAfter
<1> QED
  BY <1>20, <1>27

(* The list l has its node i less. *)
EraseDone(l, i) ==
    LET node == Walk(l)[i]
    IN  /\ used' = used \ {node}
        /\ Chain(l, next') = Del(Walk(l), i)
        /\ \A m \in Lists \ {l} : Chain(m, next') = Walk(m)
        /\ value' = [value EXCEPT ![node] = NULL]

LEMMA EraseStep ==
    ASSUME ListInv, NEW l \in Lists, NEW i \in 1..Len(Walk(l)), list_erase(Walk(l)[i])
    PROVE  ListInv' /\ EraseDone(l, i)
<1>1. PICK w : w = Walk(l)
  OBVIOUS
<1>2. /\ w \in Seq(Nodes) /\ Len(w) \in Nat /\ IsRing(l, w, next, prev)
      /\ Members(w) = NodesOf(l) /\ NodesOf(l) \subseteq used
      /\ \A j \in 1..Len(w) : w[j] \in Nodes /\ w[j] \in NodesOf(l)
      /\ \A a, b \in 1..Len(w) : w[a] = w[b] => a = b
  BY <1>1, ListFacts
<1>3. PICK k \in Nat : k = Len(w) /\ i \in 1..k
  BY <1>1, <1>2
<1>4. PICK node : node = w[i]
  OBVIOUS
<1>5. node \in Nodes /\ node \in NodesOf(l) /\ node \in used
  BY <1>2, <1>3, <1>4
<1>6. AllocatorInv' /\ used' = used \ {node}
  BY <1>1, <1>4, FreeStep DEF list_erase, ListInv, Free
<1>7. PICK before : before = Vertex(l, w, i - 1)
  OBVIOUS
<1>8. PICK after : after = Vertex(l, w, i + 1)
  OBVIOUS
<1>9. prev[node] = before /\ next[node] = after
  <2>1. i \in 0..k /\ i - 1 \in 0..k /\ i - 1 + 1 = i
    BY <1>3
  <2>2. Vertex(l, w, i) = node
    BY <1>3, <1>4 DEF Vertex
  <2>3. next[Vertex(l, w, i)] = Vertex(l, w, i + 1)
    BY <1>2, <1>3, <2>1 DEF IsRing
  <2>4. prev[Vertex(l, w, i - 1 + 1)] = Vertex(l, w, i - 1)
    BY <1>2, <1>3, <2>1 DEF IsRing
  <2> QED
    BY <1>7, <1>8, <2>1, <2>2, <2>3, <2>4
<1>10. /\ after \in NodesOf(l) \cup {l} /\ before \in NodesOf(l) \cup {l}
       /\ after \in Lists \cup Nodes /\ before \in Lists \cup Nodes
  BY <1>2, <1>7, <1>8 DEF Vertex
<1>11. after # node /\ before # node
  <2>1. /\ \A a, b \in 0..k : Vertex(l, w, a) = Vertex(l, w, b) => a = b
        /\ \A a, b \in 1..(k + 1) : Vertex(l, w, a) = Vertex(l, w, b) => a = b
    BY <1>2, <1>3, VerticesDiffer
  <2>2. /\ i - 1 \in 0..k /\ i \in 0..k /\ i - 1 # i
        /\ i + 1 \in 1..(k + 1) /\ i \in 1..(k + 1) /\ i + 1 # i
    BY <1>3
  <2>3. Vertex(l, w, i) = node
    BY <1>3, <1>4 DEF Vertex
  <2>4. Vertex(l, w, i - 1) # Vertex(l, w, i) /\ Vertex(l, w, i + 1) # Vertex(l, w, i)
    BY <2>1, <2>2
  <2> QED
    BY <1>7, <1>8, <2>3, <2>4
<1>12. /\ next' = [next EXCEPT ![before] = after, ![node] = NULL]
       /\ prev' = [prev EXCEPT ![after] = before, ![node] = NULL]
       /\ value' = [value EXCEPT ![node] = NULL]
  BY <1>1, <1>4, <1>9 DEF list_erase
<1>13. /\ next \in [Pointers -> Pointers] /\ prev \in [Pointers -> Pointers]
       /\ value \in [Nodes -> Values \cup {NULL}]
  BY DEF ListInv, ListTypes
<1>14. ListTypes'
  <2>1. /\ after \in Pointers /\ before \in Pointers /\ NULL \in Pointers
    BY <1>10 DEF Pointers
  <2> QED
    BY <1>12, <1>13, <2>1 DEF ListTypes
<1>15. /\ next'[before] = after /\ prev'[after] = before
       /\ \A x \in Lists \cup Nodes :
            /\ x # node /\ x # before => next'[x] = next[x]
            /\ x # node /\ x # after => prev'[x] = prev[x]
  BY <1>10, <1>11, <1>12, <1>13 DEF Pointers
<1>16. Unlinked(next, prev, w[i], next', prev')
  BY <1>4, <1>9, <1>15 DEF Unlinked
<1>17. i \in 1..Len(w)
  BY <1>3
<1>18. IsRing(l, Del(w, i), next', prev')
  BY <1>2, <1>16, <1>17, EraseFromRing
<1>19. Chain(l, next') = Del(w, i)
  BY <1>18, WalkAroundRing
<1>20. ASSUME NEW m \in Lists \ {l}
       PROVE  IsRing(m, Walk(m), next', prev') /\ Chain(m, next') = Walk(m)
  <2>1. /\ NodesOf(m) \cap NodesOf(l) = {}
        /\ NodesOf(m) \subseteq Nodes /\ NodesOf(l) \subseteq Nodes
    <3>1. \A n \in Lists : NodesOf(n) \subseteq Nodes
      BY ListFacts
    <3> QED
      BY <3>1 DEF ListInv
  <2>2. l \notin Nodes /\ m \notin Nodes
    BY ListAssumption
  <2>3. ASSUME NEW x \in NodesOf(m) \cup {m} PROVE next'[x] = next[x] /\ prev'[x] = prev[x]
    <3>1. x # node /\ x # after /\ x # before
      BY <1>2, <1>5, <1>10, <2>1, <2>2
    <3>2. x \in Lists \cup Nodes
      BY <2>1
    <3> QED
      BY <1>15, <3>1, <3>2
  <2> QED
    BY <2>3, OtherListUntouched
<1>21. EraseDone(l, i)
  BY <1>1, <1>4, <1>6, <1>12, <1>19, <1>20 DEF EraseDone
<1>22. Members(Chain(l, next')) = NodesOf(l) \ {node}
  BY <1>2, <1>4, <1>17, <1>19, DelMembers
<1>23. \A m \in Lists \ {l} : Members(Chain(m, next')) = NodesOf(m)
  BY <1>20, ListFacts
<1>24. \A m \in Lists : IsRing(m, Chain(m, next'), next', prev')
  BY <1>18, <1>19, <1>20
<1>25. \A m, n \in Lists : m # n => NodesOf(m) \cap NodesOf(n) = {}
  BY DEF ListInv
<1>26. \A m, n \in Lists :
         m # n => Members(Chain(m, next')) \cap Members(Chain(n, next')) = {}
  BY <1>22, <1>23, <1>25
<1>27. UNION {Members(Chain(m, next')) : m \in Lists} = used'
  <2>1. UNION {NodesOf(m) : m \in Lists} = used
    BY DEF ListInv
  <2>2. \A m \in Lists \ {l} : node \notin NodesOf(m)
    BY <1>5, <1>25
  <2>3. \A m \in Lists : Members(Chain(m, next')) = NodesOf(m) \ {node}
    BY <1>22, <1>23, <2>2
  <2> QED
    BY <1>6, <2>1, <2>3
<1>28. \A n \in used' : value'[n] \in Values
  <2>1. \A n \in used : n \in Nodes /\ value[n] \in Values
    <3>1. \A m \in Lists : NodesOf(m) \subseteq Nodes
      BY ListFacts
    <3> QED
      BY <3>1 DEF ListInv
  <2> QED
    BY <1>6, <1>12, <1>13, <2>1
<1>29. ListInv'
  BY <1>6, <1>14, <1>24, <1>26, <1>27, <1>28, ListInvAfter
<1> QED
  BY <1>21, <1>29

(* A node that a list holds is one of its vertices. *)
LEMMA EraseListed ==
    ASSUME ListInv, NEW l \in Lists, NEW n \in NodesOf(l), list_erase(n)
    PROVE  \E i \in 1..Len(Walk(l)) : n = Walk(l)[i] /\ ListInv' /\ EraseDone(l, i)
<1>1. PICK i \in 1..Len(Walk(l)) : n = Walk(l)[i]
  BY ListFacts
<1>2. list_erase(Walk(l)[i])
  BY <1>1
<1> QED
  BY <1>1, <1>2, EraseStep

(* The ends of a list. *)
LEMMA Ends ==
    ASSUME ListInv, NEW l \in Lists
    PROVE  /\ next[l] = Vertex(l, Walk(l), 1) /\ prev[l] = Vertex(l, Walk(l), Len(Walk(l)))
           /\ next[l] \in NodesOf(l) \cup {l} /\ prev[l] \in NodesOf(l) \cup {l}
           /\ next[l] = l <=> Walk(l) = <<>>
           /\ prev[l] = l <=> Walk(l) = <<>>
<1>1. PICK w : w = Walk(l)
  OBVIOUS
<1>2. /\ w \in Seq(Nodes) /\ IsRing(l, w, next, prev)
      /\ \A j \in 1..Len(w) : w[j] \in Nodes /\ w[j] \in NodesOf(l)
  BY <1>1, ListFacts
<1>3. PICK k \in Nat : k = Len(w)
  BY <1>2, LenProperties
<1>4. 0 \in 0..k /\ k \in 0..k /\ 0 + 1 = 1 /\ 1 \in 1..(k + 1)
  BY <1>3
<1>5. Vertex(l, w, 0) = l /\ Vertex(l, w, k + 1) = l /\ l \notin Nodes
  BY <1>2, <1>3, VertexFacts
<1>6. next[Vertex(l, w, 0)] = Vertex(l, w, 0 + 1) /\ prev[Vertex(l, w, k + 1)] = Vertex(l, w, k)
  BY <1>2, <1>3, <1>4 DEF IsRing
<1>7. next[l] = Vertex(l, w, 1) /\ prev[l] = Vertex(l, w, k)
  BY <1>4, <1>5, <1>6
<1>8. CASE k = 0
  <2>1. w = <<>>
    BY <1>2, <1>3, <1>8, EmptySeq
  <2>2. 1 \notin 1..k /\ k \notin 1..k
    BY <1>8
  <2> QED
    BY <1>1, <1>3, <1>7, <2>1, <2>2 DEF Vertex
<1>9. CASE k # 0
  <2>1. w # <<>>
    BY <1>2, <1>3, <1>9, EmptySeq
  <2>2. 1 \in 1..k /\ k \in 1..k
    BY <1>9
  <2>3. Vertex(l, w, 1) = w[1] /\ Vertex(l, w, k) = w[k]
    BY <1>3, <2>2 DEF Vertex
  <2> QED
    BY <1>1, <1>2, <1>3, <1>5, <1>7, <2>1, <2>2, <2>3
<1> QED
  BY <1>8, <1>9

Inserts(l) ==
    \E i \in 1..(Len(Walk(l)) + 1), node \in Nodes, v \in Values : InsertDone(l, i, node, v)

Erases(l) == \E i \in 1..Len(Walk(l)) : EraseDone(l, i)

(* Each operation inserts or erases one node of its list. *)
LEMMA ListStepFacts ==
    ASSUME ListInv, NEW l \in Lists, NEW S \in SUBSET Values, ListStep(l, S)
    PROVE  ListInv' /\ (Inserts(l) \/ Erases(l))
<1>1. Len(Walk(l)) \in Nat /\ 1 \in 1..(Len(Walk(l)) + 1)
      /\ Len(Walk(l)) + 1 \in 1..(Len(Walk(l)) + 1)
  BY ListFacts
<1>2. ASSUME NEW n \in NodesOf(l), list_erase(n) PROVE ListInv' /\ Erases(l)
  BY <1>2, EraseListed DEF Erases
<1>3. ASSUME NEW i \in 1..(Len(Walk(l)) + 1), NEW node \in Nodes, NEW v \in Values,
             list_insert(Vertex(l, Walk(l), i), node, v)
      PROVE  ListInv' /\ Inserts(l)
  BY <1>3, InsertStep DEF Inserts
<1>4. CASE list_pop_front(l)
  <2>1. next[l] \in NodesOf(l)
    BY <1>4, Ends DEF list_pop_front, list_empty
  <2> QED
    BY <1>2, <1>4, <2>1 DEF list_pop_front
<1>5. CASE list_pop_back(l)
  <2>1. prev[l] \in NodesOf(l)
    BY <1>5, Ends DEF list_pop_back, list_empty
  <2> QED
    BY <1>2, <1>5, <2>1 DEF list_pop_back
<1>6. ASSUME NEW it \in NodesOf(l), list_erase(it) PROVE ListInv' /\ Erases(l)
  BY <1>2, <1>6
<1>7. ASSUME NEW node \in Nodes, NEW v \in S, list_push_back(l, node, v)
      PROVE  ListInv' /\ Inserts(l)
  <2>1. Vertex(l, Walk(l), Len(Walk(l)) + 1) = l
    BY ListFacts, VertexFacts
  <2> QED
    BY <1>1, <1>3, <1>7, <2>1 DEF list_push_back
<1>8. ASSUME NEW node \in Nodes, NEW v \in S, list_push_front(l, node, v)
      PROVE  ListInv' /\ Inserts(l)
  <2>1. Vertex(l, Walk(l), 1) = next[l]
    BY Ends
  <2> QED
    BY <1>1, <1>3, <1>8, <2>1 DEF list_push_front
<1>9. ASSUME NEW node \in Nodes, NEW v \in S, NEW pos \in NodesOf(l), list_insert(pos, node, v)
      PROVE  ListInv' /\ Inserts(l)
  <2>1. PICK i \in 1..Len(Walk(l)) : pos = Walk(l)[i]
    BY ListFacts
  <2>2. i \in 1..(Len(Walk(l)) + 1)
    BY <1>1
  <2>3. pos = Vertex(l, Walk(l), i)
    BY <2>1 DEF Vertex
  <2> QED
    BY <1>3, <1>9, <2>2, <2>3
<1> QED
  BY <1>4, <1>5, <1>6, <1>7, <1>8, <1>9 DEF ListStep

(* A list that only its head is on. *)
LEMMA EmptyRing ==
    ASSUME NEW l \in Lists, NEW nx, NEW pv, nx[l] = l, pv[l] = l
    PROVE  IsRing(l, <<>>, nx, pv) /\ Chain(l, nx) = <<>>
<1>1. PICK w : w = <<>>
  OBVIOUS
<1>2. w \in Seq(Nodes) /\ Len(w) = 0
  BY <1>1, EmptySeq
<1>3. \A i : Vertex(l, w, i) = l
  BY <1>2 DEF Vertex
<1>4. IsRing(l, w, nx, pv)
  BY <1>2, <1>3 DEF IsRing
<1> QED
  BY <1>1, <1>4, WalkAroundRing

LEMMA ListInitInv == ListInit => ListInv /\ \A l \in Lists : Walk(l) = <<>>
<1> SUFFICES ASSUME ListInit PROVE ListInv /\ \A l \in Lists : Walk(l) = <<>>
  OBVIOUS
<1>1. AllocatorInv /\ used = {}
  BY AllocatorInitInv DEF ListInit, AllocatorInit
<1>2. /\ next = [x \in Pointers |-> IF x \in Lists THEN x ELSE NULL]
      /\ prev = next /\ value = [x \in Nodes |-> NULL]
  BY DEF ListInit, Pointers
<1>3. ListTypes
  BY <1>2 DEF ListTypes, Pointers
<1>4. ASSUME NEW l \in Lists
      PROVE  IsRing(l, Walk(l), next, prev) /\ Walk(l) = <<>>
  <2>1. next[l] = l /\ prev[l] = l
    BY <1>2 DEF Pointers
  <2>2. IsRing(l, <<>>, next, prev) /\ Chain(l, next) = <<>>
    BY <2>1, EmptyRing
  <2> QED
    BY <2>2 DEF Walk
<1>5. \A l \in Lists : NodesOf(l) = {}
  BY <1>4, EmptySeq DEF NodesOf
<1> QED
  BY <1>1, <1>3, <1>4, <1>5 DEF ListInv

LEMMA ListUnchanged == ListInv /\ UNCHANGED listVars => ListInv'
<1> SUFFICES ASSUME ListInv, UNCHANGED listVars PROVE ListInv'
  OBVIOUS
<1>1. next' = next /\ prev' = prev /\ value' = value /\ used' = used
      /\ UNCHANGED allocatorVars
  BY DEF listVars, allocatorVars
<1>2. AllocatorInv'
  BY <1>1, AllocatorStep DEF ListInv
<1>3. ListTypes'
  BY <1>1 DEF ListInv, ListTypes
<1>4. \A m \in Lists : Chain(m, next') = Walk(m) /\ Members(Walk(m)) = NodesOf(m)
  BY <1>1, ListFacts DEF Walk
<1> QED
  BY <1>1, <1>2, <1>3, <1>4, ListInvAfter DEF ListInv

(* Whatever is done to the lists: they are rings and share no node, and a   *)
(* node in use is on one of them.                                          *)
THEOREM ListsInvariant == ListSpec => []ListInv
<1>1. ListInit => ListInv
  BY ListInitInv
<1>2. ListInv /\ [ListNext]_listVars => ListInv'
  BY ListStepFacts, ListUnchanged DEF ListNext
<1> QED
  BY <1>1, <1>2, PTL DEF ListSpec

(* The way back meets the nodes of the way forth in the reverse order. *)
LEMMA WalkBackFacts ==
    ASSUME ListInv, NEW l \in Lists
    PROVE  WalkBack(l) = Backwards(Walk(l))
<1>1. IsRing(l, Backwards(Walk(l)), prev, next)
  BY ListFacts, RingBackwards
<1> QED
  BY <1>1, WalkAroundRing DEF WalkBack

LEMMA ListInvRingsClosed == ListInv => RingsClosed
<1> SUFFICES ASSUME ListInv PROVE RingsClosed
  OBVIOUS
<1>1. ASSUME NEW l \in Lists, NEW w, w = Walk(l), NEW b, b = WalkBack(l)
      PROVE  /\ Len(b) = Len(w)
             /\ \A n \in DOMAIN w : b[Len(w) + 1 - n] = w[n]
             /\ next[IF w = <<>> THEN l ELSE w[Len(w)]] = l
             /\ prev[IF w = <<>> THEN l ELSE w[1]] = l
  <2>1. w \in Seq(Nodes) /\ IsRing(l, w, next, prev)
    BY <1>1, ListFacts
  <2>2. PICK k \in Nat : k = Len(w) /\ DOMAIN w = 1..k
    BY <2>1, LenProperties
  <2>3. b = [i \in 1..k |-> w[k + 1 - i]]
    BY <1>1, <2>2, WalkBackFacts DEF Backwards
  <2>4. Len(b) = k
    BY <2>3
  <2>5. ASSUME NEW n \in 1..k PROVE b[k + 1 - n] = w[n]
    <3>1. PICK e \in 1..k : e = k + 1 - n /\ k + 1 - e = n
      OBVIOUS
    <3>2. b[e] = w[k + 1 - e]
      BY <2>3
    <3> QED
      BY <3>1, <3>2
  <2>6. next[Vertex(l, w, k)] = Vertex(l, w, k + 1) /\ prev[Vertex(l, w, 0 + 1)] = Vertex(l, w, 0)
    <3>1. k \in 0..Len(w) /\ 0 \in 0..Len(w)
      BY <2>2
    <3> QED
      BY <2>1, <3>1 DEF IsRing
  <2>7. Vertex(l, w, k + 1) = l /\ Vertex(l, w, 0) = l /\ 0 + 1 = 1
    BY <2>1, <2>2, VertexFacts
  <2>8. CASE k = 0
    <3>1. w = <<>> /\ Vertex(l, w, 0) = l /\ Vertex(l, w, 1) = l
      BY <2>1, <2>2, <2>7, <2>8, EmptySeq
    <3> QED
      BY <2>2, <2>4, <2>5, <2>6, <2>7, <2>8, <3>1
  <2>9. CASE k # 0
    <3>1. w # <<>> /\ k \in 1..k /\ 1 \in 1..k
      BY <2>1, <2>2, <2>9, EmptySeq
    <3>2. Vertex(l, w, k) = w[k] /\ Vertex(l, w, 1) = w[1]
      BY <2>2, <3>1 DEF Vertex
    <3> QED
      BY <2>2, <2>4, <2>5, <2>6, <2>7, <3>1, <3>2
  <2> QED
    BY <2>8, <2>9
<1> QED
  BY <1>1 DEF ListInv, RingsClosed

(* However the operations of the lists follow each other, every list is one *)
(* ring, the way back reverses the way forth, and no node is on two lists   *)
(* or on one after it was freed.                                           *)
THEOREM RingsAlwaysClosed == ListSpec => []RingsClosed
  BY ListsInvariant, ListInvRingsClosed, PTL

(* Each operation of a list allocates or frees one node, and frees only      *)
(* what the list has.                                                      *)
THEOREM ListsUseAllocator == ListSpec => AllocatorSpec
<1>1. ListInit => AllocatorInit
  BY DEF ListInit
<1>2. ASSUME ListInv, NEW l \in Lists, ListStep(l, Values) PROVE AllocatorNext
  <2>1. \A pos, v : \A node \in Nodes : list_insert(pos, node, v) => AllocatorNext
    BY DEF list_insert, AllocatorNext, Nodes
  <2>2. \A n \in NodesOf(l) : list_erase(n) => AllocatorNext
    <3>1. NodesOf(l) \subseteq Nodes
      BY <1>2, ListFacts
    <3> QED
      BY <3>1 DEF list_erase, AllocatorNext, Nodes
  <2>3. list_pop_front(l) \/ list_pop_back(l) => AllocatorNext
    <3>1. /\ next[l] # l => next[l] \in NodesOf(l)
          /\ prev[l] # l => prev[l] \in NodesOf(l)
          /\ next[l] = l <=> prev[l] = l
      BY <1>2, Ends
    <3> QED
      BY <2>2, <3>1 DEF list_pop_front, list_pop_back, list_empty
  <2> QED
    BY <1>2, <2>1, <2>2, <2>3 DEF ListStep, list_push_back, list_push_front
<1>3. ListInv /\ [ListNext]_listVars => [AllocatorNext]_allocatorVars
  BY <1>2 DEF ListNext, listVars
<1> QED
  BY <1>1, <1>3, ListsInvariant, PTL DEF ListSpec, AllocatorSpec

-----------------------------------------------------------------------------
(* The lists as sequences of values *)

LEMMA RemoveAtDel ==
    ASSUME NEW S, NEW s \in Seq(S), NEW i \in 1..Len(s)
    PROVE  V!RemoveAt(s, i) = Del(s, i)
<1>1. PICK k \in Nat : k = Len(s) /\ i \in 1..k
  BY LenProperties
<1>2. PICK a : a = SubSeq(s, 1, i - 1)
  OBVIOUS
<1>3. PICK b : b = SubSeq(s, i + 1, k)
  OBVIOUS
<1>4. /\ a \in Seq(S) /\ Len(a) = i - 1
      /\ \A j \in 1..(i - 1) : a[j] = s[j]
  BY <1>1, <1>2
<1>5. /\ b \in Seq(S) /\ Len(b) = k - i
      /\ \A j \in 1..(k - i) : b[j] = s[i + j]
  BY <1>1, <1>3
<1>6. PICK c : c = a \o b
  OBVIOUS
<1>7. /\ c \in Seq(S) /\ Len(c) = Len(a) + Len(b)
      /\ \A j \in 1..(Len(a) + Len(b)) : c[j] = IF j <= Len(a) THEN a[j] ELSE b[j - Len(a)]
  BY <1>4, <1>5, <1>6, ConcatProperties
<1>8. Len(a) + Len(b) = k - 1
  BY <1>1, <1>4, <1>5
<1>9. ASSUME NEW j \in 1..(k - 1) PROVE c[j] = IF j < i THEN s[j] ELSE s[j + 1]
  <2>1. CASE j < i
    <3>1. j \in 1..(i - 1) /\ j <= i - 1
      BY <1>1, <2>1
    <3>2. c[j] = a[j]
      BY <1>4, <1>7, <1>8, <3>1
    <3> QED
      BY <1>4, <2>1, <3>1, <3>2
  <2>2. CASE ~(j < i)
    <3>1. PICK e \in 1..(k - i) : e = j - (i - 1) /\ i + e = j + 1 /\ ~(j <= i - 1)
      BY <1>1, <2>2
    <3>2. c[j] = b[e]
      BY <1>4, <1>7, <1>8, <3>1
    <3> QED
      BY <1>5, <2>2, <3>1, <3>2
  <2> QED
    BY <2>1, <2>2
<1>10. c = [j \in 1..(k - 1) |-> IF j < i THEN s[j] ELSE s[j + 1]]
  <2>1. c = [j \in 1..Len(c) |-> c[j]]
    BY <1>7, LenProperties
  <2> QED
    BY <1>7, <1>8, <1>9, <2>1
<1> QED
  BY <1>1, <1>2, <1>3, <1>6, <1>10 DEF V!RemoveAt, Del

LEMMA DelIns ==
    ASSUME NEW S, NEW s \in Seq(S), NEW i \in 1..(Len(s) + 1), NEW v \in S
    PROVE  Del(Ins(s, i, v), i) = s
<1>1. PICK k \in Nat : k = Len(s) /\ i \in 1..(k + 1)
  BY LenProperties
<1>2. PICK t : t = Ins(s, i, v)
  OBVIOUS
<1>3. /\ t \in Seq(S) /\ Len(t) = k + 1
      /\ \A j \in 1..(k + 1) : t[j] = IF j < i THEN s[j] ELSE IF j = i THEN v ELSE s[j - 1]
  BY <1>1, <1>2, InsFacts
<1>4. ASSUME NEW j \in 1..k PROVE (IF j < i THEN t[j] ELSE t[j + 1]) = s[j]
  <2>1. CASE j < i
    <3>1. j \in 1..(k + 1)
      OBVIOUS
    <3> QED
      BY <1>3, <2>1, <3>1
  <2>2. CASE ~(j < i)
    <3>1. PICK e \in 1..(k + 1) : e = j + 1 /\ ~(e < i) /\ e # i /\ e - 1 = j
      BY <1>1, <2>2
    <3>2. t[e] = s[j]
      BY <1>3, <3>1
    <3> QED
      BY <2>2, <3>1, <3>2
  <2> QED
    BY <2>1, <2>2
<1>5. Del(t, i) = [j \in 1..k |-> IF j < i THEN t[j] ELSE t[j + 1]]
  BY <1>3 DEF Del
<1>6. s = [j \in 1..k |-> s[j]]
  BY <1>1, LenProperties
<1> QED
  BY <1>2, <1>4, <1>5, <1>6

(* The values at the nodes of a walk, after a step too. *)
ValuesAt(w, val) == [n \in DOMAIN w |-> val[w[n]]]

LEMMA SequenceFacts ==
    ASSUME ListInv, NEW l \in Lists
    PROVE  /\ Sequence(l) \in Seq(Values) /\ Len(Sequence(l)) = Len(Walk(l))
           /\ Sequence(l) = ValuesAt(Walk(l), value)
<1>1. PICK w : w = Walk(l)
  OBVIOUS
<1>2. PICK k \in Nat : k = Len(w) /\ DOMAIN w = 1..k
  BY <1>1, ListFacts
<1>3. \A n \in 1..k : value[w[n]] \in Values
  BY <1>1, <1>2, ListFacts DEF ListInv
<1>4. Sequence(l) = [n \in 1..k |-> value[w[n]]]
  BY <1>1, <1>2 DEF Sequence
<1> QED
  BY <1>1, <1>2, <1>3, <1>4 DEF ValuesAt

LEMMA SequenceAfter ==
    \A m \in Lists : Sequence(m)' = ValuesAt(Chain(m, next'), value')
  BY WalkAfter DEF Sequence, ValuesAt

LEMMA InsValues ==
    ASSUME ListInv, NEW l \in Lists, NEW i \in 1..(Len(Walk(l)) + 1),
           NEW node \in Nodes, NEW v \in Values, InsertDone(l, i, node, v)
    PROVE  /\ Sequence(l)' = Ins(Sequence(l), i, v)
           /\ \A m \in Lists \ {l} : Sequence(m)' = Sequence(m)
<1>1. /\ node \notin used /\ Chain(l, next') = Ins(Walk(l), i, node)
      /\ \A m \in Lists \ {l} : Chain(m, next') = Walk(m)
      /\ value' = [value EXCEPT ![node] = v] /\ value \in [Nodes -> Values \cup {NULL}]
  BY DEF InsertDone, ListInv, ListTypes
<1>2. ASSUME NEW m \in Lists, NEW j \in 1..Len(Walk(m))
      PROVE  value'[Walk(m)[j]] = value[Walk(m)[j]]
  <2>1. Walk(m)[j] \in Nodes /\ Walk(m)[j] # node
    BY <1>1, ListFacts
  <2> QED
    BY <1>1, <2>1
<1>3. ASSUME NEW m \in Lists \ {l} PROVE Sequence(m)' = Sequence(m)
  BY <1>1, <1>2, SequenceAfter, SequenceFacts, ListFacts DEF ValuesAt
<1>4. PICK w : w = Walk(l)
  OBVIOUS
<1>5. PICK k \in Nat : k = Len(w) /\ DOMAIN w = 1..k /\ i \in 1..(k + 1)
  BY <1>4, ListFacts
<1>6. PICK u : u = Ins(w, i, node)
  OBVIOUS
<1>7. /\ DOMAIN u = 1..(k + 1)
      /\ \A j \in 1..(k + 1) : u[j] = IF j < i THEN w[j] ELSE IF j = i THEN node ELSE w[j - 1]
  BY <1>5, <1>6 DEF Ins
<1>8. PICK s : s = Sequence(l)
  OBVIOUS
<1>9. Len(s) = k /\ \A j \in 1..k : s[j] = value'[w[j]]
  BY <1>2, <1>4, <1>5, <1>8, SequenceFacts DEF ValuesAt
<1>10. ASSUME NEW j \in 1..(k + 1)
       PROVE  value'[u[j]] = IF j < i THEN s[j] ELSE IF j = i THEN v ELSE s[j - 1]
  <2>1. CASE j < i
    <3>1. j \in 1..k
      BY <1>5, <2>1
    <3> QED
      BY <1>7, <1>9, <2>1, <3>1
  <2>2. CASE j = i
    BY <1>1, <1>7, <2>2
  <2>3. CASE j > i
    <3>1. PICK e \in 1..k : e = j - 1 /\ ~(j < i) /\ j # i
      BY <1>5, <2>3
    <3>2. u[j] = w[e] /\ s[e] = value'[w[e]]
      BY <1>7, <1>9, <3>1
    <3> QED
      BY <3>1, <3>2
  <2> QED
    BY <1>5, <2>1, <2>2, <2>3
<1>11. Sequence(l)' = [j \in 1..(k + 1) |-> value'[u[j]]]
  BY <1>1, <1>4, <1>6, <1>7, SequenceAfter DEF ValuesAt
<1>12. Sequence(l)' = Ins(s, i, v)
  BY <1>9, <1>10, <1>11 DEF Ins
<1> QED
  BY <1>3, <1>8, <1>12

LEMMA DelValues ==
    ASSUME ListInv, NEW l \in Lists, NEW i \in 1..Len(Walk(l)), EraseDone(l, i)
    PROVE  /\ Sequence(l)' = Del(Sequence(l), i)
           /\ \A m \in Lists \ {l} : Sequence(m)' = Sequence(m)
<1>1. PICK w : w = Walk(l)
  OBVIOUS
<1>2. PICK k \in Nat : k = Len(w) /\ DOMAIN w = 1..k /\ i \in 1..k
  BY <1>1, ListFacts
<1>3. PICK node : node = w[i]
  OBVIOUS
<1>4. /\ Chain(l, next') = Del(w, i)
      /\ \A m \in Lists \ {l} : Chain(m, next') = Walk(m)
      /\ value' = [value EXCEPT ![node] = NULL] /\ value \in [Nodes -> Values \cup {NULL}]
  BY <1>1, <1>3 DEF EraseDone, ListInv, ListTypes
<1>5. node \in NodesOf(l) /\ \A j \in 1..k : j # i => w[j] # node /\ w[j] \in Nodes
  BY <1>1, <1>2, <1>3, ListFacts
<1>6. ASSUME NEW m \in Lists \ {l} PROVE Sequence(m)' = Sequence(m)
  <2>1. \A j \in 1..Len(Walk(m)) : Walk(m)[j] \in Nodes /\ Walk(m)[j] # node
    BY <1>5, ListFacts DEF ListInv
  <2>2. \A j \in 1..Len(Walk(m)) : value'[Walk(m)[j]] = value[Walk(m)[j]]
    BY <1>4, <2>1
  <2> QED
    BY <1>4, <2>2, SequenceAfter, SequenceFacts, ListFacts DEF ValuesAt
<1>7. PICK u : u = Del(w, i)
  OBVIOUS
<1>8. DOMAIN u = 1..(k - 1) /\ \A j \in 1..(k - 1) : u[j] = IF j < i THEN w[j] ELSE w[j + 1]
  BY <1>2, <1>7 DEF Del
<1>9. PICK s : s = Sequence(l)
  OBVIOUS
<1>10. Len(s) = k /\ \A j \in 1..k : j # i => s[j] = value'[w[j]]
  BY <1>1, <1>2, <1>4, <1>5, <1>9, SequenceFacts DEF ValuesAt
<1>11. ASSUME NEW j \in 1..(k - 1) PROVE value'[u[j]] = IF j < i THEN s[j] ELSE s[j + 1]
  <2>1. CASE j < i
    <3>1. j \in 1..k /\ j # i
      BY <1>2, <2>1
    <3> QED
      BY <1>8, <1>10, <2>1, <3>1
  <2>2. CASE ~(j < i)
    <3>1. PICK e \in 1..k : e = j + 1 /\ e # i
      BY <1>2, <2>2
    <3>2. u[j] = w[e] /\ s[e] = value'[w[e]]
      BY <1>8, <1>10, <2>2, <3>1
    <3> QED
      BY <2>2, <3>1, <3>2
  <2> QED
    BY <2>1, <2>2
<1>12. Sequence(l)' = [j \in 1..(k - 1) |-> value'[u[j]]]
  BY <1>4, <1>7, <1>8, SequenceAfter DEF ValuesAt
<1>13. Sequence(l)' = Del(s, i)
  BY <1>10, <1>11, <1>12 DEF Del
<1> QED
  BY <1>6, <1>9, <1>13

Abstract == [l \in Lists |-> Sequence(l)]

LEMMA OneListChanged ==
    ASSUME NEW l \in Lists, Sequence(l)' # Sequence(l),
           \A m \in Lists \ {l} : Sequence(m)' = Sequence(m),
           V!Inserted(Sequence(l), Sequence(l)') \/ V!Inserted(Sequence(l)', Sequence(l))
    PROVE  V!Next
<1>1. V!Changed = {m \in Lists : Sequence(m)' # Sequence(m)}
  BY DEF V!Changed
<1>2. V!Changed = {l}
  BY <1>1
<1> QED
  BY <1>2 DEF V!Next

LEMMA ListStepImplements ==
    ASSUME ListInv, NEW l \in Lists, NEW S \in SUBSET Values, ListStep(l, S)
    PROVE  V!Next
<1>1. Sequence(l) \in Seq(Values) /\ Len(Sequence(l)) = Len(Walk(l)) /\ Len(Walk(l)) \in Nat
  BY SequenceFacts, ListFacts
<1>2. PICK s : s = Sequence(l)
  OBVIOUS
<1>3. PICK k \in Nat : k = Len(s) /\ k = Len(Walk(l))
  BY <1>1, <1>2
<1>4. ASSUME NEW i \in 1..(Len(Walk(l)) + 1), NEW node \in Nodes, NEW v \in Values,
             InsertDone(l, i, node, v)
      PROVE  V!Next
  <2>1. PICK t : t = Ins(s, i, v)
    OBVIOUS
  <2>2. i \in 1..(k + 1)
    BY <1>3
  <2>3. t \in Seq(Values) /\ Len(t) = k + 1 /\ t[i] = v /\ Del(t, i) = s
    BY <1>1, <1>2, <1>3, <2>1, <2>2, InsFacts, DelIns
  <2>4. Sequence(l)' = t /\ \A m \in Lists \ {l} : Sequence(m)' = Sequence(m)
    BY <1>2, <1>4, <2>1, InsValues
  <2>5. i \in DOMAIN t /\ V!RemoveAt(t, i) = s /\ t # s
    <3>1. i \in 1..Len(t) /\ DOMAIN t = 1..Len(t)
      BY <2>2, <2>3, LenProperties
    <3>2. V!RemoveAt(t, i) = s
      BY <2>3, <3>1, RemoveAtDel
    <3>3. k + 1 # k
      BY <1>3
    <3>4. t # s
      BY ONLY <1>3, <2>3, <3>3
    <3> QED
      BY <3>1, <3>2, <3>4
  <2>6. V!Inserted(s, t)
    BY <2>3, <2>5 DEF V!Inserted
  <2> QED
    BY <1>2, <2>4, <2>5, <2>6, OneListChanged
<1>5. ASSUME NEW i \in 1..Len(Walk(l)), EraseDone(l, i) PROVE V!Next
  <2>1. PICK t : t = Del(s, i)
    OBVIOUS
  <2>2. i \in 1..k
    BY <1>3
  <2>3. t \in Seq(Values) /\ Len(t) = k - 1 /\ s[i] \in Values
    BY <1>1, <1>2, <1>3, <2>1, <2>2, DelFacts, ElementOfSeq
  <2>4. Sequence(l)' = t /\ \A m \in Lists \ {l} : Sequence(m)' = Sequence(m)
    BY <1>2, <1>5, <2>1, DelValues
  <2>5. i \in DOMAIN s /\ V!RemoveAt(s, i) = t
    <3>1. i \in 1..Len(s) /\ DOMAIN s = 1..Len(s) /\ s \in Seq(Values)
      BY <1>1, <1>2, <1>3, <2>2, LenProperties
    <3>2. V!RemoveAt(s, i) = Del(s, i)
      BY <3>1, RemoveAtDel
    <3> QED
      BY <2>1, <3>1, <3>2
  <2>6. k - 1 # k
    BY <1>3
  <2>7. t # s
    BY ONLY <1>3, <2>3, <2>6
  <2>8. V!Inserted(t, s)
    BY <2>3, <2>5 DEF V!Inserted
  <2> QED
    BY <1>2, <2>4, <2>7, <2>8, OneListChanged
<1> QED
  BY <1>4, <1>5, ListStepFacts DEF Inserts, Erases

LEMMA ListInitImplements == ListInit => V!Init
<1> SUFFICES ASSUME ListInit PROVE V!Init
  OBVIOUS
<1>1. \A l \in Lists : Walk(l) = <<>>
  BY ListInitInv
<1>2. \A l \in Lists : Sequence(l) = <<>>
  BY <1>1 DEF Sequence
<1> QED
  BY <1>2 DEF V!Init

LEMMA ListStutter == UNCHANGED listVars => UNCHANGED Abstract
  BY DEF listVars, Abstract, Sequence, Walk

(* The lists as the rest of the program sees them: an operation inserts or  *)
(* removes one value at one place in one list and leaves the others alone,  *)
(* whichever nodes were freed and given out again before.                  *)
THEOREM ListsAreSequences == ListSpec => ImplementsValueLists
<1>1. ListInit => V!Init
  BY ListInitImplements
<1>2. ListInv /\ [ListNext]_listVars => [V!Next]_Abstract
  BY ListStepImplements, ListStutter DEF ListNext
<1> QED
  BY <1>1, <1>2, ListsInvariant, PTL DEF ListSpec, ImplementsValueLists, V!Spec, Abstract

=============================================================================
