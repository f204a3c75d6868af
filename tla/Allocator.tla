----------------------------- MODULE Allocator -----------------------------
(***************************************************************************)
(* The allocator of src/src/allocator.h for one type: unused objects are   *)
(* kept on a stack that is cut into blocks, the blocks form a ring, and     *)
(* objects come from malloc() a number at a time.                           *)
(*                                                                         *)
(* The ring is written from the current block on: ring[1] is the block that *)
(* _allocator_buffer points to, ring[2] its next, the last one its prev.    *)
(* A block is the sequence objs[0..size-1].  malloc() gives the objects     *)
(* 1, 2, 3 and so on.                                                       *)
(***************************************************************************)
EXTENDS Naturals, Sequences, FiniteSets

CONSTANTS
    ALLOCATOR_BLOCK_SIZE,   \* objects a block has room for
    alloc_step,             \* objects that one malloc() is made for
    MaxObjects              \* bound: objects ever taken from malloc()

ASSUME AllocatorAssumption ==
    /\ ALLOCATOR_BLOCK_SIZE \in Nat \ {0}
    /\ alloc_step \in 1..ALLOCATOR_BLOCK_SIZE
    /\ MaxObjects \in Nat

VARIABLES
    ring,       \* the blocks; empty before the first alloc
    objects,    \* the number of objects taken from malloc()
    used        \* the objects the program has been given and not freed

allocatorVars == <<ring, objects, used>>

Objects == 1..objects

-----------------------------------------------------------------------------
(* The ring *)

(* The buffer is made by the first alloc. *)
Ring == IF ring = <<>> THEN << <<>> >> ELSE ring

(* The pointer goes to the next block. *)
Forward(r) == Append(Tail(r), Head(r))

(* The pointer goes to the block before. *)
Backward(r) == <<r[Len(r)]>> \o SubSeq(r, 1, Len(r) - 1)

IsFull(block) == Len(block) = ALLOCATOR_BLOCK_SIZE

Pop(block) == SubSeq(block, 1, Len(block) - 1)

(* Mutant: the object handed out is kept too. *)
AllNewObjects == [i \in 1..alloc_step |-> objects + i]

(* The objects of a malloc(), all but the last, which is handed out. *)
NewObjects == [i \in 1..(alloc_step - 1) |-> objects + i]

(* Mutant: the block before is not tried. *)
CurrentForAlloc == Ring

(* The ring an object is taken from. *)
RingForAlloc == IF Ring[1] = <<>> THEN Backward(Ring) ELSE Ring

(* Mutant: the next block is used whether it is full or not. *)
NextForFree == IF IsFull(ring[1]) THEN Forward(ring) ELSE ring

(* The ring an object is put into; a new block goes before the next one. *)
RingForFree ==
    IF ~IsFull(ring[1])                 THEN ring
    ELSE IF ~IsFull(Forward(ring)[1])   THEN Forward(ring)
    ELSE << <<>> >> \o Forward(ring)

-----------------------------------------------------------------------------
(* type##_alloc gives the object o. *)
Alloc(o) ==
    /\ LET r == RingForAlloc
       IN  IF r[1] = <<>>
           THEN /\ objects + alloc_step <= MaxObjects
                /\ o = objects + alloc_step
                /\ objects' = objects + alloc_step
                /\ ring' = [r EXCEPT ![1] = NewObjects]
           ELSE /\ o = r[1][Len(r[1])]
                /\ ring' = [r EXCEPT ![1] = Pop(r[1])]
                /\ UNCHANGED objects
    /\ used' = used \cup {o}

(* type##_free of an object the program was given. *)
Free(o) ==
    /\ o \in used
    /\ ring' = [RingForFree EXCEPT ![1] = Append(@, o)]
    /\ used' = used \ {o}
    /\ UNCHANGED objects

AllocatorInit ==
    /\ ring = <<>>
    /\ objects = 0
    /\ used = {}

AllocatorNext == \E o \in 1..MaxObjects : Alloc(o) \/ Free(o)

AllocatorSpec == AllocatorInit /\ [][AllocatorNext]_allocatorVars

-----------------------------------------------------------------------------
(* Properties *)

AllocatorTypeOK ==
    /\ ring \in Seq(Seq(Objects))
    /\ \A i \in 1..Len(ring) : Len(ring[i]) <= ALLOCATOR_BLOCK_SIZE
    /\ objects \in Nat
    /\ used \in SUBSET Objects

(* The places where an unused object may lie. *)
Places == UNION {{i} \X (1..Len(ring[i])) : i \in 1..Len(ring)}

At(p) == ring[p[1]][p[2]]

(* No object is in two places of the ring, or in the ring while the program *)
(* has it, and none that malloc() gave is lost: whatever the order of       *)
(* allocs and frees at the borders of the blocks.                           *)
NoObjectSharedOrLost ==
    /\ \A p, q \in Places : At(p) = At(q) => p = q
    /\ {At(p) : p \in Places} = Objects \ used

(* The pointer is at the top of the stack: going back from it the blocks    *)
(* are full, and then empty.                                                *)
IsStacked(r) ==
    \E k \in 1..Len(r) :
        \A i \in 2..Len(r) : IF i <= k THEN r[i] = <<>> ELSE IsFull(r[i])

RingStacked == ring # <<>> => IsStacked(ring)

(* malloc() is called for objects only when no block of the ring has one,   *)
(* and for a block only when every block is full, although only two blocks  *)
(* are looked at.                                                           *)
MallocOnlyWhenNeeded ==
    [][/\ objects' # objects => \A i \in 1..Len(ring) : ring[i] = <<>>
       /\ Len(ring') > Len(ring) /\ ring # <<>> =>
            \A i \in 1..Len(ring) : IsFull(ring[i])]_allocatorVars

=============================================================================
