---------------------------- MODULE SocketProofs ----------------------------
(***************************************************************************)
(* The safety properties of Socket for buffers of any number and length.   *)
(* They are inductive together: bytes are taken in order because the queue *)
(* goes on where the wire ends, and that only while the socket is open,    *)
(* which the status of a socket that flushes implies.                      *)
(***************************************************************************)
EXTENDS Socket, SequenceTheorems, TLAPS

SocketInv ==
    /\ TypeOK
    /\ StatusMatchesFd
    /\ BytesInOrder
    /\ NothingLost
    /\ NoLostWakeup
    /\ NeverDeaf

USE DEF SocketStatus

LEMMA NoItems ==
    ASSUME NEW q, q = <<>>
    PROVE  /\ q \in Seq(QueueItem) /\ q \in Seq(Nat) /\ Len(q) = 0
           /\ \A i \in 1..Len(q) : q[i].offset < q[i].len
<1>1. q \in Seq(QueueItem) /\ q \in Seq(Nat) /\ Len(q) = 0
  BY EmptySeq
<1>2. 1..Len(q) = {}
  BY <1>1
<1> QED
  BY <1>1, <1>2

LEMMA SocketInit == Init => SocketInv
<1> SUFFICES ASSUME Init PROVE SocketInv
  OBVIOUS
<1>1. TypeOK
  <2>1. /\ output_queue \in Seq(QueueItem) /\ wire \in Seq(Nat)
        /\ \A i \in 1..Len(output_queue) : output_queue[i].offset < output_queue[i].len
    BY NoItems DEF Init
  <2> QED
    BY <2>1 DEF Init, TypeOK
<1>2. BytesInOrder /\ NothingLost
  BY NoItems DEF Init, BytesInOrder, NothingLost
<1>3. StatusMatchesFd /\ NoLostWakeup /\ NeverDeaf
  BY DEF Init, StatusMatchesFd, NoLostWakeup, NeverDeaf
<1> QED
  BY <1>1, <1>2, <1>3 DEF SocketInv

(* sock_close leaves an IDLE socket with an empty queue, of which nothing  *)
(* more is asked.                                                          *)
LEMMA CloseKeepsInv ==
    ASSUME SocketInv, fd = "open", SockClose,
           flushing' = FALSE, UNCHANGED <<data_callback, dataVars, crashed>>
    PROVE  SocketInv'
<1>1. /\ fd' = "closed" /\ status' = "IDLE" /\ events' = {} /\ output_queue' = <<>>
      /\ UNCHANGED <<data_callback, corked, written, wire, crashed>>
  BY DEF SockClose, dataVars
<1>2. TypeOK'
  <2>1. /\ output_queue' \in Seq(QueueItem)
        /\ \A i \in 1..Len(output_queue') : output_queue'[i].offset < output_queue'[i].len
    BY <1>1, NoItems
  <2> QED
    BY <1>1, <2>1 DEF SocketInv, TypeOK
<1>3. BytesInOrder'
  BY <1>1 DEF SocketInv, BytesInOrder
<1>4. (StatusMatchesFd /\ NothingLost /\ NoLostWakeup /\ NeverDeaf)'
  BY <1>1 DEF StatusMatchesFd, NothingLost, NoLostWakeup, NeverDeaf
<1> QED
  BY <1>2, <1>3, <1>4 DEF SocketInv

(* A step that leaves the data alone keeps what is said of the data.       *)
LEMMA QueueUntouched ==
    ASSUME SocketInv, UNCHANGED <<output_queue, written, wire>>,
           fd' \in {"new", "open"} => fd \in {"new", "open"}
    PROVE  (BytesInOrder /\ NothingLost)'
  BY DEF SocketInv, BytesInOrder, NothingLost, NextByte, LastByte

-----------------------------------------------------------------------------
(* The owner's calls *)

LEMMA ConnectKeepsInv ==
    ASSUME SocketInv, SockConnect
    PROVE  SocketInv'
<1>1. UNCHANGED <<output_queue, data_callback, flushing, corked, written, wire, crashed>>
  BY DEF SockConnect, dataVars
<1>2. fd = "new" /\ ~flushing /\ status = "IDLE" /\ events = {}
  BY DEF SockConnect, OwnerRuns, SocketInv, StatusMatchesFd, TypeOK
<1>3. \/ fd' = "open" /\ status' = "CONNECTING" /\ events' = {"OUT"}
      \/ UNCHANGED <<fd, status, events>>
      \/ fd' = "stale" /\ UNCHANGED <<status, events>>
  BY DEF SockConnect
<1>4. TypeOK'
  BY <1>1, <1>2, <1>3 DEF SocketInv, TypeOK
<1>5. (BytesInOrder /\ NothingLost)'
  BY <1>1, <1>2, QueueUntouched
<1>6. (StatusMatchesFd /\ NoLostWakeup /\ NeverDeaf)'
  BY <1>1, <1>2, <1>3 DEF StatusMatchesFd, NoLostWakeup, NeverDeaf
<1> QED
  BY <1>4, <1>5, <1>6 DEF SocketInv

LEMMA AcceptKeepsInv ==
    ASSUME SocketInv, SockAccept
    PROVE  SocketInv'
<1>1. /\ UNCHANGED <<output_queue, data_callback, events, flushing>>
      /\ UNCHANGED <<corked, written, wire, crashed>>
      /\ fd = "new" /\ fd' = "open" /\ status' = "CONNECTED"
      /\ output_queue = <<>> /\ ~data_callback /\ ~flushing
  BY DEF SockAccept, OwnerRuns, dataVars
<1>2. TypeOK'
  BY <1>1 DEF SocketInv, TypeOK
<1>3. (BytesInOrder /\ NothingLost)'
  BY <1>1, QueueUntouched
<1>4. (StatusMatchesFd /\ NoLostWakeup /\ NeverDeaf)'
  BY <1>1 DEF StatusMatchesFd, NoLostWakeup, NeverDeaf
<1> QED
  BY <1>2, <1>3, <1>4 DEF SocketInv

LEMMA SetDataCallbackKeepsInv ==
    ASSUME SocketInv, SockSetDataCallback
    PROVE  SocketInv'
<1>1. /\ UNCHANGED <<fd, status, output_queue, flushing>>
      /\ UNCHANGED <<corked, written, wire, crashed>>
      /\ data_callback' = TRUE
      /\ events' = IF status = "CONNECTED" THEN events \cup {"IN"} ELSE events
  BY DEF SockSetDataCallback, dataVars
<1>2. TypeOK'
  BY <1>1 DEF SocketInv, TypeOK
<1>3. (BytesInOrder /\ NothingLost)'
  BY <1>1, QueueUntouched
<1>4. (StatusMatchesFd /\ NoLostWakeup /\ NeverDeaf)'
  BY <1>1 DEF SocketInv, StatusMatchesFd, NoLostWakeup, NeverDeaf
<1> QED
  BY <1>2, <1>3, <1>4 DEF SocketInv

(* A new buffer begins where the last one ended.                           *)
LEMMA SendKeepsInv ==
    ASSUME SocketInv, NEW len \in 0..MaxLen, NEW more \in BOOLEAN, SockSend(len, more)
    PROVE  SocketInv'
<1> DEFINE item == [first |-> written + 1, len |-> len, offset |-> 0]
<1>1. /\ UNCHANGED <<fd, status, data_callback, events, wire, crashed>>
      /\ written' = written + len
      /\ corked' = more
      /\ flushing' = (status = "CONNECTED" /\ ~more)
      /\ len > 0 => output_queue' = Append(output_queue, item)
      /\ len = 0 => output_queue' = output_queue
      /\ ~flushing
  BY DEF SockSend, OwnerRuns, PushBack
<1>2. written \in Nat /\ len \in Nat /\ output_queue \in Seq(QueueItem) /\ wire \in Seq(Nat)
  BY SocketAssumption DEF SocketInv, TypeOK
<1>3. /\ output_queue' \in Seq(QueueItem)
      /\ \A i \in 1..Len(output_queue') : output_queue'[i].offset < output_queue'[i].len
  <2>1. CASE len = 0
    BY <2>1, <1>1 DEF SocketInv, TypeOK
  <2>2. CASE len > 0
    <3>1. item \in QueueItem
      BY <2>2, <1>2 DEF QueueItem
    <3>2. output_queue' = Append(output_queue, item)
      BY <2>2, <1>1
    <3>3. output_queue' \in Seq(QueueItem)
      BY <3>1, <3>2, <1>2, AppendProperties
    <3>4. \A i \in 1..Len(output_queue') : output_queue'[i].offset < output_queue'[i].len
      BY <3>2, <2>2, <1>2 DEF SocketInv, TypeOK
    <3> QED
      BY <3>3, <3>4
  <2> QED
    BY <2>1, <2>2, <1>2
<1>4. TypeOK'
  BY <1>1, <1>2, <1>3 DEF SocketInv, TypeOK
<1>5. BytesInOrder'
  BY <1>1 DEF SocketInv, BytesInOrder
<1>6. NothingLost'
  <2> SUFFICES ASSUME fd \in {"new", "open"}
               PROVE  NothingLost'
    BY <1>1 DEF NothingLost
  <2>1. CASE len = 0
    <3>1. UNCHANGED <<output_queue, written, wire, fd>>
      BY <2>1, <1>1, <1>2
    <3> QED
      BY <3>1, QueueUntouched
  <2>2. CASE len > 0
    <3>1. output_queue' = Append(output_queue, item)
      BY <2>2, <1>1
    <3>2. /\ output_queue' # <<>>
          /\ Len(output_queue') = Len(output_queue) + 1
          /\ output_queue'[Len(output_queue')] = item
          /\ \A i \in 1..Len(output_queue) : output_queue'[i] = output_queue[i]
      BY <3>1, <1>2, AppendProperties
    <3>3. LastByte(Len(output_queue))' = written'
      BY <3>2, <1>1, <1>2 DEF LastByte
    <3>4. CASE output_queue = <<>>
      BY <3>2, <3>3, <3>4, <1>1, <1>2 DEF SocketInv, NothingLost, NextByte, LastByte
    <3>5. CASE output_queue # <<>>
      <4>1. Len(output_queue) \in Nat \ {0}
        BY <3>5, <1>2, EmptySeq
      <4>2. NextByte(1)' = NextByte(1) /\ NextByte(1) = Len(wire) + 1
        BY <3>2, <3>5, <4>1 DEF SocketInv, NothingLost, NextByte
      <4>3. \A i \in 1..Len(output_queue) : output_queue'[i + 1].first + output_queue'[i + 1].offset
                        = output_queue'[i].first + output_queue'[i].len - 1 + 1
        <5> TAKE i \in 1..Len(output_queue)
        <5>1. CASE i = Len(output_queue)
          <6>1. output_queue[i].first + output_queue[i].len - 1 = written
            BY <5>1, <3>5 DEF SocketInv, NothingLost, LastByte
          <6>2. output_queue'[i + 1] = item /\ output_queue'[i] = output_queue[i]
            BY <5>1, <3>2, <4>1
          <6> QED
            BY <6>1, <6>2, <1>2
        <5>2. CASE i # Len(output_queue)
          <6>1. i \in 1..(Len(output_queue) - 1) /\ i + 1 \in 1..Len(output_queue)
            BY <5>2, <4>1
          <6>2. NextByte(i + 1) = LastByte(i) + 1
            BY <6>1, <3>5 DEF SocketInv, NothingLost
          <6> QED
            BY <6>1, <6>2, <3>2 DEF NextByte, LastByte
        <5> QED
          BY <5>1, <5>2
      <4> QED
        BY <3>2, <3>3, <4>1, <4>2, <4>3, <1>1, <1>2 DEF NothingLost, NextByte, LastByte
    <3> QED
      BY <3>4, <3>5
  <2> QED
    BY <2>1, <2>2, <1>2
<1>7. (StatusMatchesFd /\ NoLostWakeup /\ NeverDeaf)'
  BY <1>1 DEF SocketInv, StatusMatchesFd, NoLostWakeup, NeverDeaf
<1> QED
  BY <1>4, <1>5, <1>6, <1>7 DEF SocketInv

LEMMA DeleteKeepsInv ==
    ASSUME SocketInv, SockDelete
    PROVE  SocketInv'
<1>1. CASE fd = "stale"
  <2>1. crashed' = TRUE /\ UNCHANGED <<ownVars, dataVars>>
    BY <1>1 DEF SockDelete
  <2> QED
    BY <2>1 DEF ownVars, dataVars, SocketInv, TypeOK, StatusMatchesFd, BytesInOrder,
                NothingLost, NoLostWakeup, NeverDeaf, NextByte, LastByte
<1>2. CASE fd # "stale"
  <2>1. /\ fd' = "new" /\ status' = "IDLE" /\ output_queue' = <<>>
        /\ data_callback' = FALSE /\ events' = {} /\ flushing' = FALSE
        /\ corked' = FALSE /\ written' = 0 /\ wire' = <<>> /\ UNCHANGED crashed
    BY <1>2 DEF SockDelete
  <2>2. TypeOK'
    <3>1. /\ output_queue' \in Seq(QueueItem) /\ wire' \in Seq(Nat)
          /\ \A i \in 1..Len(output_queue') : output_queue'[i].offset < output_queue'[i].len
      BY <2>1, NoItems
    <3> QED
      BY <2>1, <3>1 DEF SocketInv, TypeOK
  <2>3. (BytesInOrder /\ NothingLost)'
    BY <2>1, NoItems DEF BytesInOrder, NothingLost
  <2>4. (StatusMatchesFd /\ NoLostWakeup /\ NeverDeaf)'
    BY <2>1 DEF StatusMatchesFd, NoLostWakeup, NeverDeaf
  <2> QED
    BY <2>2, <2>3, <2>4 DEF SocketInv
<1> QED
  BY <1>1, <1>2

-----------------------------------------------------------------------------
(* sock_flush_data *)

LEMMA SendSomeKeepsInv ==
    ASSUME SocketInv, SendSome
    PROVE  SocketInv'
<1> DEFINE item == Head(output_queue)
<1>1. PICK n \in 1..item.len :
            /\ item.offset + n <= item.len
            /\ wire' = wire \o [i \in 1..n |-> item.first + item.offset + i - 1]
            /\ output_queue' =
                    IF item.offset + n < item.len
                    THEN [output_queue EXCEPT ![1] = Take(item, n)]
                    ELSE Tail(output_queue)
  BY DEF SendSome
<1>2. /\ UNCHANGED <<fd, status, data_callback, events, flushing, corked, written, crashed>>
      /\ flushing /\ output_queue # <<>>
  BY DEF SendSome
<1>3. /\ output_queue \in Seq(QueueItem) /\ wire \in Seq(Nat) /\ written \in Nat
      /\ Len(output_queue) \in Nat \ {0}
  BY <1>2, EmptySeq DEF SocketInv, TypeOK
<1>4. item = output_queue[1] /\ item \in QueueItem /\ item.offset < item.len
  BY <1>2, <1>3 DEF SocketInv, TypeOK
<1>5. /\ item.first \in Nat \ {0} /\ item.len \in Nat \ {0} /\ item.offset \in Nat
      /\ n \in Nat \ {0}
  BY <1>1, <1>4 DEF QueueItem
<1>6. fd = "open" /\ status = "CONNECTED"
  BY <1>2 DEF SocketInv, StatusMatchesFd
<1>7. /\ item.first + item.offset = Len(wire) + 1
      /\ LastByte(Len(output_queue)) = written
      /\ \A i \in 1..(Len(output_queue) - 1) : NextByte(i + 1) = LastByte(i) + 1
  BY <1>2, <1>4, <1>6 DEF SocketInv, NothingLost, NextByte
<1> DEFINE taken == [i \in 1..n |-> item.first + item.offset + i - 1]
<1>8. taken \in Seq(Nat) /\ Len(taken) = n
  BY <1>5
<1>9. /\ wire' = wire \o taken
      /\ wire' \in Seq(Nat)
      /\ Len(wire') = Len(wire) + n
      /\ \A i \in 1..Len(wire') :
            wire'[i] = IF i <= Len(wire) THEN wire[i] ELSE taken[i - Len(wire)]
  BY <1>1, <1>3, <1>8, ConcatProperties
<1>10. BytesInOrder'
  <2> SUFFICES ASSUME NEW i \in 1..Len(wire')
               PROVE  wire'[i] = i
    BY DEF BytesInOrder
  <2>1. CASE i <= Len(wire)
    BY <2>1, <1>9, <1>3 DEF SocketInv, BytesInOrder
  <2>2. CASE ~(i <= Len(wire))
    <3>1. i - Len(wire) \in 1..n
      BY <2>2, <1>9, <1>3, <1>5
    <3>2. taken[i - Len(wire)] = item.first + item.offset + (i - Len(wire)) - 1
      BY <3>1
    <3>3. wire'[i] = taken[i - Len(wire)]
      BY <2>2, <1>9
    <3> QED
      BY <3>2, <3>3, <1>7, <1>5, <1>3
  <2> QED
    BY <2>1, <2>2
<1>11. CASE item.offset + n < item.len
  <2>1. output_queue' = [output_queue EXCEPT ![1] = Take(item, n)]
    BY <1>1, <1>11
  <2>2. Take(item, n) = [first |-> item.first, len |-> item.len, offset |-> item.offset + n]
    BY <1>4 DEF Take, QueueItem
  <2>3. Take(item, n) \in QueueItem
    BY <2>2, <1>5 DEF QueueItem
  <2>4. /\ output_queue' \in Seq(QueueItem)
        /\ Len(output_queue') = Len(output_queue)
        /\ output_queue'[1] = Take(item, n)
        /\ \A i \in 2..Len(output_queue) : output_queue'[i] = output_queue[i]
    BY <2>1, <2>3, <1>3, ExceptSeq
  <2>5. \A i \in 1..Len(output_queue') : output_queue'[i].offset < output_queue'[i].len
    BY <2>2, <2>4, <1>3, <1>11 DEF SocketInv, TypeOK
  <2>6. output_queue' # <<>>
    BY <2>4, <1>3
  <2>7. NothingLost'
    <3>1. NextByte(1)' = Len(wire') + 1
      <4>1. output_queue'[1].first + output_queue'[1].offset = item.first + item.offset + n
        BY <2>2, <2>4, <1>5
      <4>2. Len(wire) \in Nat
        BY <1>3
      <4> QED
        BY <4>1, <4>2, <1>5, <1>7, <1>9 DEF NextByte
    <3>2. \A i \in 1..Len(output_queue) :
                /\ output_queue'[i].first = output_queue[i].first
                /\ output_queue'[i].len = output_queue[i].len
      BY <2>2, <2>4, <1>4
    <3>3. LastByte(Len(output_queue))' = written'
      BY <3>2, <2>4, <1>2, <1>3, <1>7 DEF LastByte
    <3>4. \A i \in 1..(Len(output_queue) - 1) : NextByte(i + 1)' = LastByte(i)' + 1
      BY <3>2, <2>4, <1>3, <1>7 DEF NextByte, LastByte
    <3> QED
      BY <3>1, <3>3, <3>4, <2>4, <2>6 DEF NothingLost
  <2> QED
    BY <2>4, <2>5, <2>7, <1>2, <1>9, <1>10, <1>6
       DEF SocketInv, TypeOK, StatusMatchesFd, NoLostWakeup, NeverDeaf
<1>12. CASE ~(item.offset + n < item.len)
  <2>1. output_queue' = Tail(output_queue)
    BY <1>1, <1>12
  <2>2. /\ output_queue' \in Seq(QueueItem)
        /\ Len(output_queue') = Len(output_queue) - 1
        /\ \A i \in 1..Len(output_queue') : output_queue'[i] = output_queue[i + 1]
    BY <2>1, <1>2, <1>3, HeadTailProperties
  <2>3. \A i \in 1..Len(output_queue') : output_queue'[i].offset < output_queue'[i].len
    BY <2>2, <1>3 DEF SocketInv, TypeOK
  <2>4. LastByte(1) = Len(wire')
    <3>1. item.offset + n = item.len /\ Len(wire) \in Nat
      <4>1. item.offset + n <= item.len /\ ~(item.offset + n < item.len)
        BY <1>1, <1>12
      <4>2. item.offset + n \in Nat
        BY <1>5
      <4> QED
        BY <4>1, <4>2, <1>3, <1>5
    <3>2. Len(wire') = item.first + item.len - 1
      <4>1. Len(wire') = Len(wire) + n /\ item.first + item.offset = Len(wire) + 1
        BY <1>7, <1>9
      <4>2. item.first \in Nat /\ item.offset \in Nat /\ item.len \in Nat
        BY <1>5
      <4> HIDE DEF item
      <4>3. PICK f, d, l, w \in Nat :
                f = item.first /\ d = item.offset /\ l = item.len /\ w = Len(wire)
        BY <4>2, <3>1
      <4>4. f + d = w + 1 /\ d + n = l
        BY <4>1, <4>3, <3>1
      <4>5. w + n = f + l - 1
        BY ONLY <4>4, n \in Nat, f \in Nat, d \in Nat, l \in Nat, w \in Nat
      <4> QED
        BY <4>1, <4>3, <4>5
    <3> QED
      BY <3>2, <1>4 DEF LastByte
  <2>5. NothingLost'
    <3>1. CASE Len(output_queue) = 1
      <4>1. output_queue' = <<>>
        BY <3>1, <2>2, EmptySeq
      <4>2. Len(wire') = written'
        BY <3>1, <2>4, <1>7, <1>2
      <4> QED
        BY <4>1, <4>2 DEF NothingLost
    <3>2. CASE Len(output_queue) # 1
      <4>1. output_queue' # <<>> /\ Len(output_queue') \in Nat \ {0}
        BY <3>2, <2>2, <1>3
      <4>2. NextByte(1)' = Len(wire') + 1
        <5>1. NextByte(2) = LastByte(1) + 1
          <6>1. 1 \in 1..(Len(output_queue) - 1)
            <7>1. Len(output_queue) \in Nat /\ Len(output_queue) # 0 /\ Len(output_queue) # 1
              BY <3>2, <1>3
            <7>2. \A k \in Nat : k # 0 /\ k # 1 => 1 \in 1..(k - 1)
              OBVIOUS
            <7> QED
              BY <7>1, <7>2, Zenon
          <6>2. NextByte(1 + 1) = LastByte(1) + 1
            BY <6>1, <1>7
          <6> QED
            BY <6>2
        <5> QED
          BY <5>1, <2>2, <2>4, <4>1 DEF NextByte
      <4>3. LastByte(Len(output_queue))' = written'
        BY <2>2, <4>1, <1>7, <1>2, <1>3 DEF LastByte
      <4>4. \A i \in 1..(Len(output_queue') - 1) : NextByte(i + 1)' = LastByte(i)' + 1
        <5> TAKE i \in 1..(Len(output_queue') - 1)
        <5>1. i + 1 \in 1..(Len(output_queue) - 1) /\ i \in Nat
          BY <2>2, <1>3
        <5>2. NextByte((i + 1) + 1) = LastByte(i + 1) + 1
          BY <5>1, <1>7
        <5>3. output_queue'[i] = output_queue[i + 1]
              /\ output_queue'[i + 1] = output_queue[(i + 1) + 1]
          <6>1. i \in 1..Len(output_queue') /\ i + 1 \in 1..Len(output_queue')
            BY <5>1, <2>2, <1>3
          <6> QED
            BY <6>1, <2>2
        <5> QED
          BY <5>2, <5>3 DEF NextByte, LastByte
      <4> QED
        BY <4>1, <4>2, <4>3, <4>4 DEF NothingLost
    <3> QED
      BY <3>1, <3>2
  <2> QED
    BY <2>2, <2>3, <2>5, <1>2, <1>9, <1>10, <1>6
       DEF SocketInv, TypeOK, StatusMatchesFd, NoLostWakeup, NeverDeaf
<1> QED
  BY <1>11, <1>12

LEMMA FlushEndKeepsInv ==
    ASSUME SocketInv, SendBlocks \/ SendFails \/ AllSent
    PROVE  SocketInv'
<1>1. CASE SendFails
  <2>1. /\ fd = "open" /\ SockClose /\ flushing' = FALSE
        /\ UNCHANGED <<data_callback, dataVars, crashed>>
    BY <1>1 DEF SendFails, SocketInv, StatusMatchesFd
  <2> QED
    BY <2>1, CloseKeepsInv
<1>2. CASE SendBlocks \/ AllSent
  <2>1. /\ UNCHANGED <<fd, status, output_queue, data_callback, crashed>>
        /\ UNCHANGED <<corked, written, wire>>
        /\ flushing /\ flushing' = FALSE
        /\ \/ events' = events \cup {"OUT"}
           \/ output_queue = <<>> /\ events' = events \ {"OUT"}
    BY <1>2 DEF SendBlocks, AllSent, dataVars
  <2>2. fd = "open" /\ status = "CONNECTED"
    BY <2>1 DEF SocketInv, StatusMatchesFd
  <2>3. TypeOK'
    BY <2>1 DEF SocketInv, TypeOK
  <2>4. (BytesInOrder /\ NothingLost)'
    BY <2>1, QueueUntouched
  <2>5. (StatusMatchesFd /\ NoLostWakeup /\ NeverDeaf)'
    BY <2>1, <2>2 DEF SocketInv, StatusMatchesFd, NoLostWakeup, NeverDeaf
  <2> QED
    BY <2>3, <2>4, <2>5 DEF SocketInv
<1> QED
  BY <1>1, <1>2

-----------------------------------------------------------------------------
(* socket_callback *)

LEMMA CallbackKeepsInv ==
    ASSUME SocketInv, CallbackStep
    PROVE  SocketInv'
<1>1. fd = "open" /\ ~flushing /\ ~corked
  BY DEF CallbackStep, OnError, OnConnected, OnWritable, OnReadable, Called, OwnerRuns
<1>2. CASE SockClose /\ UNCHANGED <<data_callback, flushing, dataVars, crashed>>
  <2>1. flushing' = FALSE
    BY <1>1, <1>2 DEF SocketInv, TypeOK
  <2> QED
    BY <2>1, <1>1, <1>2, CloseKeepsInv
<1>3. CASE OnConnected
  <2>1. /\ UNCHANGED <<fd, output_queue, data_callback, flushing, crashed>>
        /\ UNCHANGED <<corked, written, wire>>
        /\ status = "CONNECTING" /\ status' \in {"IDLE", "CONNECTED"}
        /\ events' = IF status' = "CONNECTED" /\ data_callback
                     THEN events \cup {"IN"} ELSE events
    BY <1>3 DEF OnConnected, dataVars
  <2>2. TypeOK'
    BY <2>1 DEF SocketInv, TypeOK
  <2>3. (BytesInOrder /\ NothingLost)'
    BY <2>1, QueueUntouched
  <2>4. (StatusMatchesFd /\ NoLostWakeup /\ NeverDeaf)'
    BY <2>1, <1>1 DEF SocketInv, StatusMatchesFd, NoLostWakeup, NeverDeaf
  <2> QED
    BY <2>2, <2>3, <2>4 DEF SocketInv
<1>4. CASE OnWritable
  <2>1. /\ UNCHANGED <<fd, status, output_queue, data_callback, events, crashed>>
        /\ UNCHANGED <<corked, written, wire>>
        /\ status = "CONNECTED" /\ flushing' = TRUE
    BY <1>4 DEF OnWritable, dataVars
  <2>2. TypeOK'
    BY <2>1 DEF SocketInv, TypeOK
  <2>3. (BytesInOrder /\ NothingLost)'
    BY <2>1, QueueUntouched
  <2>4. (StatusMatchesFd /\ NoLostWakeup /\ NeverDeaf)'
    BY <2>1, <1>1 DEF SocketInv, StatusMatchesFd, NoLostWakeup, NeverDeaf
  <2> QED
    BY <2>2, <2>3, <2>4 DEF SocketInv
<1>5. CASE OnReadable /\ ~SockClose
  <2>1. /\ UNCHANGED <<fd, status, output_queue, data_callback, flushing, crashed>>
        /\ UNCHANGED <<corked, written, wire>>
        /\ events' = IF data_callback THEN events ELSE events \ {"IN"}
    BY <1>5 DEF OnReadable, dataVars
  <2>2. TypeOK'
    BY <2>1 DEF SocketInv, TypeOK
  <2>3. (BytesInOrder /\ NothingLost)'
    BY <2>1, QueueUntouched
  <2>4. (StatusMatchesFd /\ NoLostWakeup /\ NeverDeaf)'
    BY <2>1, <1>1 DEF SocketInv, StatusMatchesFd, NoLostWakeup, NeverDeaf
  <2> QED
    BY <2>2, <2>3, <2>4 DEF SocketInv
<1> QED
  BY <1>2, <1>3, <1>4, <1>5 DEF CallbackStep, OnError, OnReadable

-----------------------------------------------------------------------------
LEMMA SocketStep == SocketInv /\ [Next]_vars => SocketInv'
<1> SUFFICES ASSUME SocketInv, [Next]_vars PROVE SocketInv'
  OBVIOUS
<1>1. CASE OwnerStep
  BY <1>1, ConnectKeepsInv, AcceptKeepsInv, SetDataCallbackKeepsInv, SendKeepsInv,
     DeleteKeepsInv DEF OwnerStep
<1>2. CASE FlushStep
  BY <1>2, SendSomeKeepsInv, FlushEndKeepsInv DEF FlushStep
<1>3. CASE CallbackStep
  BY <1>3, CallbackKeepsInv
<1>4. CASE UNCHANGED vars
  BY <1>4 DEF vars, ownVars, dataVars, SocketInv, TypeOK, StatusMatchesFd, BytesInOrder,
              NothingLost, NoLostWakeup, NeverDeaf, NextByte, LastByte
<1> QED
  BY <1>1, <1>2, <1>3, <1>4 DEF Next

(* The conjunction of all that follows is invariant.                       *)
THEOREM SocketAlwaysRight == Spec => []SocketInv
  BY SocketInit, SocketStep, PTL DEF Spec

(* Type correctness of the socket, its queue included.                     *)
THEOREM SocketTypeCorrect == Spec => []TypeOK
<1>1. SocketInv => TypeOK
  BY DEF SocketInv
<1> QED
  BY <1>1, SocketAlwaysRight, PTL

(* A socket with a status other than IDLE has its descriptor and its       *)
(* SocketInfo: no call dereferences the NULL that sock_close leaves.       *)
THEOREM StatusAlwaysMatchesFd == Spec => []StatusMatchesFd
<1>1. SocketInv => StatusMatchesFd
  BY DEF SocketInv
<1> QED
  BY <1>1, SocketAlwaysRight, PTL

(* The peer gets the owner's bytes in order, each once, for any buffers    *)
(* and any split by the kernel.                                            *)
THEOREM BytesAlwaysInOrder == Spec => []BytesInOrder
<1>1. SocketInv => BytesInOrder
  BY DEF SocketInv
<1> QED
  BY <1>1, SocketAlwaysRight, PTL

(* No byte that sock_send took is lost while the socket is open.           *)
THEOREM NothingEverLost == Spec => []NothingLost
<1>1. SocketInv => NothingLost
  BY DEF SocketInv
<1> QED
  BY <1>1, SocketAlwaysRight, PTL

(* Data that waits in the queue is always watched for.                     *)
THEOREM NoWakeupEverLost == Spec => []NoLostWakeup
<1>1. SocketInv => NoLostWakeup
  BY DEF SocketInv
<1> QED
  BY <1>1, SocketAlwaysRight, PTL

(* A connected socket with a callback always watches for the peer's data.  *)
THEOREM NeverGoesDeaf == Spec => []NeverDeaf
<1>1. SocketInv => NeverDeaf
  BY DEF SocketInv
<1> QED
  BY <1>1, SocketAlwaysRight, PTL

=============================================================================
