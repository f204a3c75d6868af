--------------------------- MODULE HttpConnection ---------------------------
(***************************************************************************)
(* How hc_read and hc_process of src/src/http_server.c cut the bytes of a  *)
(* connection into requests: the buffer, the header that has been parsed   *)
(* while its content is still to come, and the requests handed to the      *)
(* callback of the server.  The web client's bytes reach hc_read in pieces *)
(* that the network chooses.                                               *)
(*                                                                         *)
(* A byte is the request it belongs to and its place in it; the last byte  *)
(* of a header ends the blank line that http_parse and hc_process look for. *)
(* What Content-Length says of the content is for the client to choose:    *)
(* atoi() makes an int of it that nobody checks.                           *)
(***************************************************************************)
EXTENDS Integers, Sequences, FiniteSetsExt

CONSTANTS
    HeaderSizes,    \* the sizes a request's header may have
    ContentSizes,   \* the sizes its content may have
    Lengths,        \* what atoi() may make of its Content-Length
    MaxRequests,    \* bound: requests a client sends on one connection
    MaxErrors,      \* bound: error answers counted
    MAX_BUFFER_SIZE,
    INT_MAX,        \* the largest int
    SIZE_MAX        \* the largest size_t

ASSUME ConnectionAssumption ==
    /\ HeaderSizes \subseteq Nat \ {0}
    /\ ContentSizes \subseteq Nat
    /\ MaxRequests \in Nat \ {0}
    /\ MaxErrors \in Nat \ {0}
    /\ INT_MAX \in Nat
    /\ SIZE_MAX \in Nat
    /\ MAX_BUFFER_SIZE \in 0..INT_MAX
    /\ MAX_BUFFER_SIZE + INT_MAX < SIZE_MAX
    /\ Lengths \subseteq (-INT_MAX - 1)..INT_MAX

VARIABLES
    stream,         \* the requests the client has begun to send, with their sizes
    pipelining,     \* does it begin one before the last is handled?
    sent,           \* the bytes it has sent
    received,       \* the number of bytes hc_read has received
    buffer,         \* connection->buffer, up to buffer_size
    header,         \* connection->header: its request and Content-Length
    delivered,      \* the requests given to the callback
    errors,         \* the number of error answers
    closed          \* has the connection been deleted?

clientVars == <<stream, pipelining, sent>>
connVars   == <<received, buffer, header, delivered, errors, closed>>
vars       == <<clientVars, connVars>>

(* What http_parse makes of a header: it understands it when it is there,   *)
(* or never, or late, when it has a line without a colon and takes one that *)
(* follows the blank line for its colon.                                   *)
Forms == {"valid", "late", "invalid"}

(* A request: where it starts, less one, the sizes of its header and its    *)
(* content, and what its header is.                                        *)
Request == [start : Nat, header : HeaderSizes, content : ContentSizes,
            length : Lengths, form : Forms]

(* No header; and the request of one that was read from other bytes.        *)
NoHeader == [request |-> -1, length |-> 0]
Misread  == 0

(* The place of the last byte of request r. *)
End(r) == IF r = 0 THEN 0 ELSE stream[r].start + stream[r].header + stream[r].content

Bytes(from, to) == [i \in 1..(to - from) |-> sent[from + i]]

Content(r) ==
    [i \in 1..stream[r].content |-> <<r, stream[r].header + i>>]

-----------------------------------------------------------------------------
(* Reading the buffer *)

(* The places where a blank line ends. *)
HeaderEnds(buf) ==
    {i \in 1..Len(buf) : buf[i][2] = stream[buf[i][1]].header}

(* What http_parse may make of the header of request r.                    *)
ParseRequest(buf, r) ==
    {h \in {NoHeader, [request |-> r, length |-> stream[r].length]} :
        IF h = NoHeader THEN stream[r].form # "valid"
        ELSE \/ stream[r].form = "valid"
             \/ stream[r].form = "late" /\ Len(buf) > Min(HeaderEnds(buf))}

(* http_parse: the header the buffer may begin with.  Bytes from the middle *)
(* of a request are what the client has made them.                         *)
HttpParse(buf) ==
    IF HeaderEnds(buf) = {} THEN {NoHeader}
    ELSE IF buf[1][2] = 1 THEN ParseRequest(buf, buf[1][1])
    ELSE {NoHeader} \cup [request : {Misread}, length : Lengths]

(* An int sum, which wraps around. *)
Wrap(n) == IF n > INT_MAX THEN n - 2 * (INT_MAX + 1) ELSE n

(* An int that is used as a size_t. *)
AsSize(n) == IF n < 0 THEN n + SIZE_MAX + 1 ELSE n

(* header_size + content_size *)
Total(buf, h) == Wrap(h.length + Min(HeaderEnds(buf)))

(* The request with the header h is bigger than the buffer. *)
IsTooBig(buf, h) == Total(buf, h) >= MAX_BUFFER_SIZE

IsComplete(buf, h) == Len(buf) >= AsSize(Total(buf, h))

(* Mutant: the whole buffer is thrown away with the request. *)
DropBuffer(buf, h) == <<>>

(* memmove: what follows the request with the header h. *)
RestOf(buf, h) == SubSeq(buf, Total(buf, h) + 1, Len(buf))

(* The bytes of the buffer that the callback may read as data.             *)
DataOf(buf, from, size) ==
    SubSeq(buf, from + 1, IF from + size < Len(buf) THEN from + size ELSE Len(buf))

(* Mutant: the content is taken from the last byte of the blank line. *)
HttpRequestEarly(buf, h) ==
    [header |-> h.request,
     size   |-> AsSize(h.length),
     data   |-> DataOf(buf, Min(HeaderEnds(buf)) - 1, AsSize(h.length))]

HttpRequest(buf, h) ==
    [header |-> h.request,
     size   |-> AsSize(h.length),
     data   |-> DataOf(buf, Min(HeaderEnds(buf)), AsSize(h.length))]

-----------------------------------------------------------------------------
(* The client *)

Handled(r) == r <= Len(delivered) \/ errors > 0

(* A new request; without pipelining it waits for the answer to the last.  *)
ClientBegins ==
    /\ ~closed
    /\ Len(stream) < MaxRequests
    /\ Len(sent) = End(Len(stream))
    /\ pipelining \/ Handled(Len(stream))
    /\ \E h \in HeaderSizes, c \in ContentSizes, l \in Lengths, f \in Forms :
        stream' = Append(stream,
            [start |-> Len(sent), header |-> h, content |-> c, length |-> l, form |-> f])
    /\ UNCHANGED <<pipelining, sent, connVars>>

(* The next byte of the request it has begun. *)
ClientSends ==
    /\ ~closed
    /\ Len(sent) < End(Len(stream))
    /\ sent' = Append(sent, <<Len(stream), Len(sent) + 1 - stream[Len(stream)].start>>)
    /\ UNCHANGED <<stream, pipelining, connVars>>

(* The client's end, or an error on the socket: hc_delete. *)
Close ==
    /\ ~closed
    /\ closed' = TRUE
    /\ UNCHANGED <<clientVars, received, buffer, header, delivered, errors>>

-----------------------------------------------------------------------------
(* hc_read *)

(* More is to come: the buffer and the header are kept. *)
KeepBoth(buf, h) ==
    /\ buffer' = buf
    /\ header' = h
    /\ UNCHANGED delivered

(* The callback, and the cleaning up after it. *)
Deliver(buf, h) ==
    /\ buffer' = RestOf(buf, h)
    /\ header' = NoHeader
    /\ delivered' = Append(delivered, HttpRequest(buf, h))

(* An answer is sent; the connection is deleted when that fails. *)
Answered == closed' \in BOOLEAN

(* Mutant: the error is only logged. *)
ProcessSilently(buf, h) ==
    IF ~IsTooBig(buf, h) /\ IsComplete(buf, h)
    THEN Deliver(buf, h) /\ Answered /\ UNCHANGED errors
    ELSE KeepBoth(buf, h) /\ UNCHANGED <<errors, closed>>

(* Mutant: a header just parsed is not looked at before the next piece. *)
ProcessOnNextRead(buf, h) ==
    IF header = h /\ IsComplete(buf, h)
    THEN Deliver(buf, h) /\ Answered /\ UNCHANGED errors
    ELSE KeepBoth(buf, h) /\ UNCHANGED <<errors, closed>>

(* hc_process, with the header h.                                          *)
HcProcess(buf, h) ==
    IF IsTooBig(buf, h)
    THEN /\ KeepBoth(buf, h)
         /\ errors' = IF errors < MaxErrors THEN errors + 1 ELSE errors
         /\ Answered
    ELSE IF IsComplete(buf, h)
    THEN Deliver(buf, h) /\ Answered /\ UNCHANGED errors
    ELSE KeepBoth(buf, h) /\ UNCHANGED <<errors, closed>>

(* Mutant: space is left for the terminating zero that has its own place. *)
SpaceOverrun == MAX_BUFFER_SIZE + 1 - Len(buffer)

(* remaining_buffer *)
Space == MAX_BUFFER_SIZE - Len(buffer)

(* recv() with room in the buffer gets n bytes. *)
HcRead(n) ==
    /\ ~closed
    /\ n <= Space
    /\ received + n <= Len(sent)
    /\ received' = received + n
    /\ LET buf == buffer \o Bytes(received, received + n)
       IN  \E h \in IF header = NoHeader THEN HttpParse(buf) ELSE {header} :
             IF h = NoHeader
             THEN KeepBoth(buf, h) /\ UNCHANGED <<errors, closed>>
             ELSE HcProcess(buf, h)
    /\ UNCHANGED clientVars

(* recv() of no bytes returns 0, as if the client had closed. *)
HcReadFull ==
    /\ ~closed
    /\ Space = 0
    /\ received < Len(sent)
    /\ closed' = TRUE
    /\ UNCHANGED <<clientVars, received, buffer, header, delivered, errors>>

-----------------------------------------------------------------------------
Init ==
    /\ stream = <<>>
    /\ pipelining \in BOOLEAN
    /\ sent = <<>>
    /\ received = 0
    /\ buffer = <<>>
    /\ header = NoHeader
    /\ delivered = <<>>
    /\ errors = 0
    /\ closed = FALSE

Read == \E n \in 1..MAX_BUFFER_SIZE : HcRead(n)

Next == ClientBegins \/ ClientSends \/ Close \/ Read \/ HcReadFull

Spec == Init /\ [][Next]_vars

(* epoll reports the data that is there as long as there is any. *)
FairSpec == Spec /\ WF_vars(Read \/ HcReadFull)

-----------------------------------------------------------------------------
(* Properties *)

(* Every variable has its type; the buffer never overflows. *)
TypeOK ==
    /\ stream \in Seq(Request)
    /\ pipelining \in BOOLEAN
    /\ sent \in Seq(Nat \X Nat)
    /\ received \in 0..Len(sent)
    /\ buffer \in Seq(Nat \X Nat)
    /\ Len(buffer) <= MAX_BUFFER_SIZE
    /\ header \in [request : -1..Len(stream), length : Lengths \cup {0}]
    /\ Len(delivered) <= received
    /\ delivered \in Seq([header : Nat, size : Nat, data : Seq(Nat \X Nat)])
    /\ errors \in 0..MaxErrors
    /\ closed \in BOOLEAN

(* Content-Length says how long the content is.                            *)
Truthful(r) == stream[r].length = stream[r].content

TruthfulTo(n) == \A r \in 1..n : r <= Len(stream) => Truthful(r)

(* As long as the client's Content-Lengths are true, the callback gets its  *)
(* requests whole, each once and in order, however the network cuts the     *)
(* stream and whatever was sent too early.  The first one that is not true  *)
(* is still told by the right header.                                      *)
RequestsWhole ==
    \A i \in 1..Len(delivered) : TruthfulTo(i - 1) =>
        /\ i <= Len(stream)
        /\ delivered[i].header = i
        /\ Truthful(i) =>
            delivered[i].size = stream[i].content /\ delivered[i].data = Content(i)

(* What hc_process leaves in the buffer is the part of the stream that has *)
(* been received and not been delivered: it starts with a request, unless  *)
(* the callback has got one whose Content-Length is not true.              *)
BufferAligned ==
    TruthfulTo(Len(delivered)) =>
        buffer = Bytes(End(Len(delivered)), received)

(* A client that waits for each answer never has a request lie complete in *)
(* the buffer, where only more data would get it processed: none is parsed *)
(* and complete, and none could be parsed.                                 *)
NoRequestStuck ==
    ~pipelining /\ errors = 0 =>
        IF header # NoHeader THEN ~IsComplete(buffer, header)
        ELSE TruthfulTo(Len(delivered)) => NoHeader \in HttpParse(buffer)

(* A valid request of such a client has arrived; it and those before it say *)
(* how long they are.                                                      *)
Arrived(r) ==
    /\ ~pipelining
    /\ r <= Len(stream)
    /\ TruthfulTo(r)
    /\ stream[r].form = "valid"
    /\ Len(sent) >= End(r)

(* It is given to the callback, or an error is reported, or the connection *)
(* is closed.                                                              *)
RequestHandled ==
    \A r \in 1..MaxRequests :
        Arrived(r) ~> r <= Len(delivered) \/ errors > 0 \/ closed

=============================================================================
