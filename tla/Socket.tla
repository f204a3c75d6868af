------------------------------- MODULE Socket -------------------------------
(***************************************************************************)
(* One Socket of src/src/socket.c: its status, the queue of what its owner *)
(* has sent and the kernel has not taken yet, and the events it asks the   *)
(* monitor for.  Its owner is an HttpConnection or a JabberClient; sockets *)
(* that listen have no data and are left out.                              *)
(*                                                                         *)
(* Bytes are numbered in the order the owner sends them, from 1.  Each     *)
(* send() of sock_flush_data is a step of its own, in which the kernel     *)
(* takes some bytes, none, or fails; the owner does nothing in between.    *)
(***************************************************************************)
EXTENDS Naturals, Sequences

CONSTANTS
    MaxBytes,       \* bound: bytes sent by the owner
    MaxLen,         \* bound: bytes of one buffer
    MayRefuse,      \* may the kernel refuse a connect() at once?
    StaleEvents     \* may sm_poll deliver an event the socket did not ask for?

ASSUME SocketAssumption ==
    /\ MaxBytes \in Nat
    /\ MaxLen \in Nat
    /\ MayRefuse \in BOOLEAN
    /\ StaleEvents \in BOOLEAN

VARIABLES
    \* struct Socket.  fd is "new" or "closed" for -1, "open", or "stale" when
    \* it is the number of a descriptor that was closed
    fd, status, output_queue, data_callback,
    events,         \* si->events, what epoll watches
    flushing,       \* is sock_flush_data running?
    corked,         \* was the owner's last sock_send one with more to come?
    written,        \* the number of bytes passed to sock_send
    wire,           \* the bytes the kernel has taken
    crashed         \* sm_del_socket was called with a SocketInfo never made

ownVars  == <<fd, status, output_queue, data_callback, events, flushing>>
dataVars == <<corked, written, wire>>
vars     == <<ownVars, dataVars, crashed>>

SocketStatus == {"IDLE", "CONNECTING", "CONNECTED"}

(* A buffer of the owner: the number of its first byte, len, and offset.   *)
QueueItem == [first : Nat \ {0}, len : Nat \ {0}, offset : Nat]

(* The owner's turn: at start, in a timeout, or in a callback.             *)
OwnerRuns == ~flushing /\ ~crashed

-----------------------------------------------------------------------------
(* Helpers *)

(* Mutant: the status is left. *)
CloseKeepingStatus ==
    /\ fd' = IF fd = "open" THEN "closed" ELSE fd
    /\ events' = {}
    /\ output_queue' = <<>>
    /\ UNCHANGED status

SockClose ==
    /\ fd' = IF fd = "open" THEN "closed" ELSE fd
    /\ events' = {}
    /\ output_queue' = <<>>
    /\ status' = "IDLE"

(* Mutant: the buffer is sent from its start again. *)
TakeForgettingOffset(item, n) == [item EXCEPT !.offset = 0]

(* Mutant: one byte too many is counted. *)
TakeOneMore(item, n) == [item EXCEPT !.offset = @ + n + 1]

(* item->offset += ret *)
Take(item, n) == [item EXCEPT !.offset = @ + n]

(* Mutant: the new buffer goes to the front of the queue. *)
PushFront(item) == output_queue' = <<item>> \o output_queue

PushBack(item) == output_queue' = Append(output_queue, item)

-----------------------------------------------------------------------------
(* What the owner calls *)

(* sock_connect on a socket just made; the kernel accepts the request, has *)
(* no descriptor or address to offer, or refuses at once.                  *)
SockConnect ==
    /\ OwnerRuns
    /\ fd = "new"
    /\ \/ /\ fd' = "open"
          /\ status' = "CONNECTING"
          /\ events' = {"OUT"}
       \/ UNCHANGED <<fd, status, events>>
       \/ /\ MayRefuse
          /\ fd' = "stale"
          /\ UNCHANGED <<status, events>>
    /\ UNCHANGED <<output_queue, data_callback, flushing, dataVars, crashed>>

(* sock_accept *)
SockAccept ==
    /\ OwnerRuns
    /\ fd = "new"
    /\ output_queue = <<>> /\ ~data_callback
    /\ fd' = "open"
    /\ status' = "CONNECTED"
    /\ UNCHANGED <<output_queue, data_callback, events, flushing, dataVars, crashed>>

SockSetDataCallback ==
    /\ OwnerRuns
    /\ data_callback' = TRUE
    /\ events' = IF status = "CONNECTED" THEN events \cup {"IN"} ELSE events
    /\ UNCHANGED <<fd, status, output_queue, flushing, dataVars, crashed>>

(* sock_send; len is 0 for a NULL buffer.                                  *)
SockSend(len, more) ==
    /\ OwnerRuns
    /\ written + len <= MaxBytes
    /\ IF len > 0
       THEN PushBack([first |-> written + 1, len |-> len, offset |-> 0])
       ELSE UNCHANGED output_queue
    /\ written' = written + len
    /\ corked' = more
    /\ flushing' = (status = "CONNECTED" /\ ~more)
    /\ UNCHANGED <<fd, status, data_callback, events, wire, crashed>>

(* sock_delete, after which the struct may be used for a new socket.       *)
SockDelete ==
    /\ OwnerRuns
    /\ IF fd = "stale"
       THEN /\ crashed' = TRUE
            /\ UNCHANGED <<ownVars, dataVars>>
       ELSE /\ fd' = "new"
            /\ status' = "IDLE"
            /\ output_queue' = <<>>
            /\ data_callback' = FALSE
            /\ events' = {}
            /\ flushing' = FALSE
            /\ corked' = FALSE
            /\ written' = 0
            /\ wire' = <<>>
            /\ UNCHANGED crashed

-----------------------------------------------------------------------------
(* sock_flush_data *)

(* send() takes n bytes of the first buffer, which goes when it is done.   *)
SendSome ==
    /\ flushing
    /\ output_queue # <<>>
    /\ LET item == Head(output_queue) IN
       \E n \in 1..item.len :
            /\ item.offset + n <= item.len
            /\ wire' = wire \o [i \in 1..n |-> item.first + item.offset + i - 1]
            /\ output_queue' =
                    IF item.offset + n < item.len
                    THEN [output_queue EXCEPT ![1] = Take(item, n)]
                    ELSE Tail(output_queue)
    /\ UNCHANGED <<fd, status, data_callback, events, flushing, corked, written, crashed>>

(* Mutant: the loop is left without a request for EPOLLOUT. *)
BlockSilently ==
    /\ flushing
    /\ output_queue # <<>>
    /\ flushing' = FALSE
    /\ UNCHANGED <<fd, status, output_queue, data_callback, events, dataVars, crashed>>

(* send() would block. *)
SendBlocks ==
    /\ flushing
    /\ output_queue # <<>>
    /\ flushing' = FALSE
    /\ events' = events \cup {"OUT"}
    /\ UNCHANGED <<fd, status, output_queue, data_callback, dataVars, crashed>>

(* send() fails: the socket is closed, and the caller not told. *)
SendFails ==
    /\ flushing
    /\ output_queue # <<>>
    /\ flushing' = FALSE
    /\ SockClose
    /\ UNCHANGED <<data_callback, dataVars, crashed>>

AllSent ==
    /\ flushing
    /\ output_queue = <<>>
    /\ flushing' = FALSE
    /\ events' = events \ {"OUT"}
    /\ UNCHANGED <<fd, status, output_queue, data_callback, dataVars, crashed>>

-----------------------------------------------------------------------------
(* socket_callback, the branch taken for an event; the owner's callback    *)
(* that follows is among the owner's calls above.                          *)

(* The owner always ends with a sock_send that has nothing more to come    *)
(* before it returns to sm_poll.                                           *)
Called == OwnerRuns /\ fd = "open" /\ ~corked

Reported(e) == e \in events \/ StaleEvents

(* EPOLLERR or EPOLLHUP, watched always *)
OnError ==
    /\ Called
    /\ SockClose
    /\ UNCHANGED <<data_callback, flushing, dataVars, crashed>>

(* Mutant: the data callback set during the connection is not looked at. *)
ConnectedDeaf ==
    /\ Called
    /\ Reported("OUT")
    /\ status = "CONNECTING"
    /\ status' \in {"IDLE", "CONNECTED"}
    /\ UNCHANGED <<fd, output_queue, data_callback, events, flushing, dataVars, crashed>>

(* EPOLLOUT while connecting: SO_ERROR tells how it went.                  *)
OnConnected ==
    /\ Called
    /\ Reported("OUT")
    /\ status = "CONNECTING"
    /\ status' \in {"IDLE", "CONNECTED"}
    /\ events' = IF status' = "CONNECTED" /\ data_callback
                 THEN events \cup {"IN"} ELSE events
    /\ UNCHANGED <<fd, output_queue, data_callback, flushing, dataVars, crashed>>

(* EPOLLOUT on a connected socket *)
OnWritable ==
    /\ Called
    /\ Reported("OUT")
    /\ status = "CONNECTED"
    /\ flushing' = TRUE
    /\ UNCHANGED <<fd, status, output_queue, data_callback, events, dataVars, crashed>>

(* EPOLLIN alone: the owner's sock_recv gets data or finds the connection  *)
(* closed; without a callback the event is turned off.                     *)
OnReadable ==
    /\ Called
    /\ Reported("IN")
    /\ status = "CONNECTED"
    /\ IF data_callback
       THEN SockClose \/ UNCHANGED <<fd, status, output_queue, events>>
       ELSE /\ events' = events \ {"IN"}
            /\ UNCHANGED <<fd, status, output_queue>>
    /\ UNCHANGED <<data_callback, flushing, dataVars, crashed>>

-----------------------------------------------------------------------------
Init ==
    /\ fd = "new"
    /\ status = "IDLE"
    /\ output_queue = <<>>
    /\ data_callback = FALSE
    /\ events = {}
    /\ flushing = FALSE
    /\ corked = FALSE
    /\ written = 0
    /\ wire = <<>>
    /\ crashed = FALSE

OwnerStep ==
    \/ SockConnect
    \/ SockAccept
    \/ SockSetDataCallback
    \/ \E len \in 0..MaxLen, more \in BOOLEAN : SockSend(len, more)
    \/ SockDelete

FlushStep == SendSome \/ SendBlocks \/ SendFails \/ AllSent

CallbackStep == OnError \/ OnConnected \/ OnWritable \/ OnReadable

Next == OwnerStep \/ FlushStep \/ CallbackStep \/ (crashed /\ UNCHANGED vars)

Spec == Init /\ [][Next]_vars

(* The owner's call that ends a sequence of sock_sends with more to come.  *)
Uncork == corked /\ \E len \in 0..MaxLen : SockSend(len, FALSE)

(* The owner deletes a socket whose connection was not made.               *)
GiveUp == fd = "open" /\ status = "IDLE" /\ SockDelete

(* A flush and the owner's callbacks run to their end; the kernel ends an  *)
(* attempt to connect; a socket that is writable and asked for it is       *)
(* called (stale events are possible, never counted on); and a peer that   *)
(* goes on reading makes the kernel take bytes.                            *)
Fairness ==
    /\ WF_vars(FlushStep)
    /\ WF_vars(Uncork)
    /\ WF_vars(GiveUp)
    /\ SF_vars("OUT" \in events /\ OnConnected)
    /\ SF_vars("OUT" \in events /\ OnWritable)
    /\ SF_vars(SendSome)

FairSpec == Spec /\ Fairness

-----------------------------------------------------------------------------
(* Properties *)

(* Every variable has its type; a buffer in the queue has bytes to send.   *)
TypeOK ==
    /\ fd \in {"new", "open", "closed", "stale"}
    /\ status \in SocketStatus
    /\ output_queue \in Seq(QueueItem)
    /\ \A i \in 1..Len(output_queue) : output_queue[i].offset < output_queue[i].len
    /\ data_callback \in BOOLEAN
    /\ events \in SUBSET {"IN", "OUT"}
    /\ flushing \in BOOLEAN
    /\ corked \in BOOLEAN
    /\ written \in Nat
    /\ wire \in Seq(Nat)
    /\ crashed \in BOOLEAN

(* Whenever the status would let sock_flush_data or sm_add_events use the  *)
(* SocketInfo there is one, and a closed socket watches nothing.           *)
StatusMatchesFd ==
    /\ status # "IDLE" => fd = "open"
    /\ flushing => status = "CONNECTED"
    /\ fd # "open" => events = {}

(* What the peer gets is what the owner sent, in order: no byte is sent    *)
(* twice or left out however the kernel splits the buffers.                *)
BytesInOrder == \A i \in 1..Len(wire) : wire[i] = i

(* The first byte of output_queue[i] that is not sent. *)
NextByte(i) == output_queue[i].first + output_queue[i].offset

LastByte(i) == output_queue[i].first + output_queue[i].len - 1

(* Until the socket is closed nothing is lost: what the kernel has taken,  *)
(* followed by the queue, is all that the owner has sent.                  *)
NothingLost ==
    fd \in {"new", "open"} =>
        IF output_queue = <<>>
        THEN Len(wire) = written
        ELSE /\ NextByte(1) = Len(wire) + 1
             /\ LastByte(Len(output_queue)) = written
             /\ \A i \in 1..(Len(output_queue) - 1) :
                    NextByte(i + 1) = LastByte(i) + 1

(* Data that waits is data epoll will ask for: the queue of a socket that  *)
(* is connecting or connected is watched, also when the data was queued    *)
(* before the connection was made.                                         *)
NoLostWakeup ==
    /\ status = "CONNECTING" => "OUT" \in events
    /\ status = "CONNECTED" /\ output_queue # <<>> /\ ~flushing /\ ~corked
            => "OUT" \in events

(* Whether the data callback was set before the connection or after it, a  *)
(* connected socket reads.                                                 *)
NeverDeaf == status = "CONNECTED" /\ data_callback => "IN" \in events

(* Every byte the owner sends is taken by the kernel, also when it was      *)
(* queued before the connection was made and whatever is queued after it,  *)
(* as long as the peer reads and the socket is not closed.                 *)
EveryByteSent ==
    \A n \in 1..MaxBytes :
        status # "IDLE" /\ written >= n ~> Len(wire) >= n \/ status = "IDLE"

=============================================================================
