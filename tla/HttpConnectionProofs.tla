------------------------ MODULE HttpConnectionProofs ------------------------
(***************************************************************************)
(* The safety properties of HttpConnection for requests of any sizes, any   *)
(* Content-Lengths, any buffer and any cuts of the network.  As long as the *)
(* Content-Lengths are true the buffer is the part of the stream that has   *)
(* been received and not been delivered, and that starts with a request: so *)
(* the first blank line in it ends this request's header, and hc_process    *)
(* takes what belongs to the request and nothing more.  After the first one *)
(* that is not true only the types, the bound of the buffer and what is     *)
(* said of a header that is kept remain.                                   *)
(***************************************************************************)
EXTENDS HttpConnection, SequenceTheorems, WellFoundedInduction, TLAPS

(* The requests lie in the stream one behind the other, and the bytes sent  *)
(* are theirs.                                                             *)
StreamInv ==
    /\ \A r \in 1..Len(stream) : stream[r].start = End(r - 1)
    /\ \A r \in 1..Len(stream) : stream[r].start <= Len(sent)
    /\ \A q, r \in 1..Len(stream) : q < r => End(q) <= stream[r].start
    /\ Len(sent) <= End(Len(stream))
    /\ \A r \in 1..Len(stream) : \A p \in 1..Len(sent) :
        stream[r].start < p /\ p <= End(r) => sent[p] = <<r, p - stream[r].start>>
    /\ \A p \in 1..Len(sent) : sent[p][1] \in 1..Len(stream)

(* A buffer within its bound that holds bytes of the client. *)
Holds(buf) ==
    /\ buf \in Seq(Nat \X Nat)
    /\ Len(buf) <= MAX_BUFFER_SIZE
    /\ \A i \in 1..Len(buf) : buf[i][1] \in 1..Len(stream)

(* With d requests delivered, all with a true Content-Length, and t bytes   *)
(* received, the buffer is what lies between.                              *)
Aligned(d, t, buf) ==
    TruthfulTo(d) =>
        /\ d \in 0..Len(stream)
        /\ t \in End(d)..Len(sent)
        /\ buf = Bytes(End(d), t)

(* A header that is kept: its blank line is in the buffer; and it is that   *)
(* of the request the buffer starts with.                                  *)
HeaderOf(d, buf, h) ==
    h # NoHeader =>
        /\ HeaderEnds(buf) # {}
        /\ h \in [request : 0..Len(stream), length : Lengths]
        /\ TruthfulTo(d) =>
            /\ d < Len(stream)
            /\ stream[d + 1].header <= Len(buf)
            /\ h.request = d + 1
            /\ h.length = stream[d + 1].length

(* More of the request is to come. *)
Waits(buf, h) == errors = 0 /\ h # NoHeader => ~IsComplete(buf, h)

(* A client that waits for its answers is one request ahead, and what the   *)
(* buffer holds of it has been looked at.                                  *)
WaitingInv ==
    ~pipelining /\ errors = 0 /\ TruthfulTo(Len(delivered)) =>
        /\ Len(stream) <= Len(delivered) + 1
        /\ header = NoHeader => NoHeader \in HttpParse(buffer)

ConnectionInv ==
    /\ TypeOK
    /\ StreamInv
    /\ Holds(buffer)
    /\ Aligned(Len(delivered), received, buffer)
    /\ HeaderOf(Len(delivered), buffer, header)
    /\ Waits(buffer, header)
    /\ WaitingInv
    /\ RequestsWhole

-----------------------------------------------------------------------------
(* Parts of a sequence *)

Cut(b, from, to) == [i \in 1..(to - from) |-> b[from + i]]

LEMMA CutFacts ==
    ASSUME NEW S, NEW b \in Seq(S), NEW from \in Nat, NEW to \in from..Len(b)
    PROVE  /\ Cut(b, from, to) \in Seq(S)
           /\ Len(Cut(b, from, to)) = to - from
           /\ \A i \in 1..(to - from) : Cut(b, from, to)[i] = b[from + i]
<1>1. to - from \in Nat /\ Len(b) \in Nat
  BY LenProperties
<1>2. ASSUME NEW i \in 1..(to - from) PROVE b[from + i] \in S
  <2>1. from + i \in 1..Len(b)
    BY <1>1
  <2> QED
    BY <2>1, ElementOfSeq
<1> QED
  BY <1>1, <1>2 DEF Cut

(* What follows a part in the sequence is put behind it. *)
LEMMA CutConcat ==
    ASSUME NEW S, NEW b \in Seq(S), NEW from \in Nat, NEW mid \in from..Len(b),
           NEW to \in mid..Len(b)
    PROVE  Cut(b, from, mid) \o Cut(b, mid, to) = Cut(b, from, to)
<1>1. Len(b) \in Nat /\ mid \in Nat /\ to \in Nat /\ to \in from..Len(b)
  BY LenProperties
<1> DEFINE x == Cut(b, from, mid)
           y == Cut(b, mid, to)
           z == Cut(b, from, to)
<1>2. /\ x \in Seq(S) /\ Len(x) = mid - from
      /\ \A i \in 1..(mid - from) : x[i] = b[from + i]
  BY CutFacts
<1>3. /\ y \in Seq(S) /\ Len(y) = to - mid
      /\ \A i \in 1..(to - mid) : y[i] = b[mid + i]
  BY <1>1, CutFacts
<1>4. /\ z \in Seq(S) /\ Len(z) = to - from
      /\ \A i \in 1..(to - from) : z[i] = b[from + i]
  BY <1>1, CutFacts
<1> HIDE DEF x, y, z
<1>5. PICK w : w = x \o y
  OBVIOUS
<1>6. /\ w \in Seq(S) /\ Len(w) = Len(x) + Len(y)
      /\ \A i \in 1..(Len(x) + Len(y)) :
            w[i] = IF i <= Len(x) THEN x[i] ELSE y[i - Len(x)]
  BY <1>2, <1>3, <1>5, ConcatProperties
<1>7. Len(w) = to - from
  BY <1>1, <1>2, <1>3, <1>6
<1>8. ASSUME NEW i \in 1..(to - from) PROVE w[i] = z[i]
  <2>1. z[i] = b[from + i]
    BY <1>4
  <2>2. CASE i <= mid - from
    <3>1. w[i] = x[i] /\ i \in 1..(mid - from)
      BY <1>1, <1>2, <1>3, <1>6, <2>2
    <3> QED
      BY <1>2, <2>1, <3>1
  <2>3. CASE ~(i <= mid - from)
    <3>1. w[i] = y[i - (mid - from)]
      BY <1>1, <1>2, <1>3, <1>6, <2>3
    <3>2. i - (mid - from) \in 1..(to - mid) /\ mid + (i - (mid - from)) = from + i
      BY <1>1, <2>3
    <3>3. y[i - (mid - from)] = b[mid + (i - (mid - from))]
      BY <1>3, <3>2
    <3> QED
      BY <2>1, <3>1, <3>2, <3>3
  <2> QED
    BY <2>2, <2>3
<1>9. w = z
  BY <1>4, <1>6, <1>7, <1>8, SeqEqual
<1> QED
  BY <1>5, <1>9 DEF x, y, z

(* A part of a part. *)
LEMMA CutOfCut ==
    ASSUME NEW S, NEW b \in Seq(S), NEW from \in Nat, NEW to \in from..Len(b),
           NEW m \in Nat, NEW n \in m..(to - from)
    PROVE  SubSeq(Cut(b, from, to), m + 1, n) = Cut(b, from + m, from + n)
<1>1. /\ Len(b) \in Nat /\ to \in Nat /\ n \in Nat /\ from + m \in Nat
      /\ from + n \in (from + m)..Len(b)
  BY LenProperties
<1> DEFINE x == Cut(b, from, to)
           z == Cut(b, from + m, from + n)
<1>2. /\ x \in Seq(S) /\ Len(x) = to - from
      /\ \A i \in 1..(to - from) : x[i] = b[from + i]
  BY CutFacts
<1>3. /\ z \in Seq(S) /\ Len(z) = from + n - (from + m)
      /\ \A i \in 1..(from + n - (from + m)) : z[i] = b[from + m + i]
  <2>1. PICK f \in Nat : f = from + m
    BY <1>1
  <2>2. PICK g \in f..Len(b) : g = from + n
    BY <1>1, <2>1
  <2>3. /\ Cut(b, f, g) \in Seq(S) /\ Len(Cut(b, f, g)) = g - f
        /\ \A i \in 1..(g - f) : Cut(b, f, g)[i] = b[f + i]
    BY CutFacts
  <2>4. z = Cut(b, f, g)
    BY <2>1, <2>2
  <2> HIDE DEF x, z
  <2>5. /\ z \in Seq(S) /\ Len(z) = g - f
        /\ \A i \in 1..(g - f) : z[i] = b[f + i]
    BY ONLY <2>3, <2>4
  <2> QED
    BY ONLY <2>1, <2>2, <2>5
<1> HIDE DEF x, z
<1>4. \A i \in (m + 1)..n : x[i] \in S
  <2> SUFFICES ASSUME NEW i \in (m + 1)..n PROVE x[i] \in S
    OBVIOUS
  <2>1. i \in 1..Len(x)
    BY <1>1, <1>2
  <2> QED
    BY <1>2, <2>1, ElementOfSeq
<1>5. PICK w : w = SubSeq(x, m + 1, n)
  OBVIOUS
<1>6. /\ w \in Seq(S)
      /\ Len(w) = IF m + 1 <= n THEN n - (m + 1) + 1 ELSE 0
      /\ \A i \in 1..(n - (m + 1) + 1) : w[i] = x[m + 1 + i - 1]
  <2>1. m + 1 \in Int /\ n \in Int
    BY <1>1
  <2> QED
    BY <1>4, <1>5, <2>1, SubSeqProperties
<1>7. Len(w) = n - m /\ Len(z) = n - m
  BY <1>1, <1>3, <1>6
<1>8. ASSUME NEW i \in 1..(n - m) PROVE w[i] = z[i]
  <2>1. /\ i \in 1..(n - (m + 1) + 1) /\ m + 1 + i - 1 = m + i
        /\ m + i \in 1..(to - from) /\ i \in 1..(from + n - (from + m))
        /\ from + m + i = from + (m + i)
    BY <1>1
  <2>2. w[i] = x[m + i] /\ x[m + i] = b[from + (m + i)]
    BY <1>2, <1>6, <2>1
  <2>3. z[i] = b[from + (m + i)]
    BY <1>3, <2>1
  <2> QED
    BY <2>2, <2>3
<1>9. w = z
  BY <1>3, <1>6, <1>7, <1>8, SeqEqual
<1> QED
  BY <1>5, <1>9 DEF x, z

-----------------------------------------------------------------------------
(* The stream *)

LEMMA RequestFacts ==
    ASSUME TypeOK, NEW r \in 1..Len(stream)
    PROVE  /\ stream[r] \in Request
           /\ stream[r].start \in Nat
           /\ stream[r].header \in Nat /\ stream[r].header > 0
           /\ stream[r].content \in Nat
           /\ stream[r].length \in Lengths
           /\ stream[r].form \in Forms
           /\ End(r) = stream[r].start + stream[r].header + stream[r].content
           /\ End(r) \in Nat
<1>1. stream[r] \in Request
  BY ElementOfSeq DEF TypeOK
<1>2. r # 0
  BY LenProperties DEF TypeOK
<1>3. /\ stream[r].start \in Nat
      /\ stream[r].header \in HeaderSizes
      /\ stream[r].content \in ContentSizes
      /\ stream[r].length \in Lengths
      /\ stream[r].form \in Forms
  BY <1>1 DEF Request
<1>4. /\ stream[r].header \in Nat /\ stream[r].header > 0
      /\ stream[r].content \in Nat
  <2>1. HeaderSizes \subseteq Nat \ {0} /\ ContentSizes \subseteq Nat
    BY ConnectionAssumption
  <2>2. PICK h \in HeaderSizes, c \in ContentSizes :
            h = stream[r].header /\ c = stream[r].content
    BY <1>3
  <2>3. h \in Nat /\ h # 0 /\ c \in Nat
    BY <2>1
  <2>4. h > 0
    BY ONLY <2>3
  <2> QED
    BY <2>2, <2>3, <2>4
<1>5. End(r) = stream[r].start + stream[r].header + stream[r].content
  BY <1>2 DEF End
<1> QED
  BY <1>1, <1>3, <1>4, <1>5

LEMMA EndFacts ==
    ASSUME TypeOK, NEW d \in 0..Len(stream)
    PROVE  End(d) \in Nat
<1>1. CASE d = 0
  BY <1>1 DEF End
<1>2. CASE d # 0
  <2>1. d \in 1..Len(stream)
    BY <1>2, LenProperties DEF TypeOK
  <2> QED
    BY <2>1, RequestFacts
<1> QED
  BY <1>1, <1>2

(* What a buffer that starts behind d requests and ends after t bytes has   *)
(* of the next request.                                                    *)
LEMMA BufferFacts ==
    ASSUME TypeOK, StreamInv,
           NEW d \in 0..Len(stream), NEW t \in End(d)..Len(sent),
           NEW buf, buf = Bytes(End(d), t)
    PROVE  /\ buf \in Seq(Nat \X Nat)
           /\ Len(buf) = t - End(d)
           /\ Len(buf) > 0 => d < Len(stream)
           /\ d < Len(stream) =>
                \A i \in 1..Len(buf) : i <= stream[d + 1].header + stream[d + 1].content
                                            => buf[i] = <<d + 1, i>>
<1>1. /\ sent \in Seq(Nat \X Nat) /\ Len(sent) \in Nat /\ Len(stream) \in Nat
      /\ End(d) \in Nat /\ t \in Nat
  BY EndFacts, LenProperties DEF TypeOK
<1>2. buf = Cut(sent, End(d), t)
  BY DEF Cut, Bytes
<1>3. /\ buf \in Seq(Nat \X Nat) /\ Len(buf) = t - End(d)
      /\ \A i \in 1..(t - End(d)) : buf[i] = sent[End(d) + i]
  <2>1. PICK e \in Nat : e = End(d)
    BY <1>1
  <2>2. t \in e..Len(sent)
    BY <2>1
  <2>3. ASSUME NEW S, sent \in Seq(S)
        PROVE  /\ Cut(sent, e, t) \in Seq(S)
               /\ Len(Cut(sent, e, t)) = t - e
               /\ \A i \in 1..(t - e) : Cut(sent, e, t)[i] = sent[e + i]
    BY ONLY <2>2, <2>3, e \in Nat, CutFacts
  <2>4. sent \in Seq(Nat \X Nat)
    BY <1>1
  <2> QED
    BY ONLY <1>2, <2>1, <2>3, <2>4
<1>4. ASSUME Len(buf) > 0 PROVE d < Len(stream)
  <2>1. d # Len(stream)
    BY <1>1, <1>3, <1>4 DEF StreamInv
  <2> QED
    BY <1>1, <2>1
<1>5. ASSUME d < Len(stream), NEW i \in 1..Len(buf),
             i <= stream[d + 1].header + stream[d + 1].content
      PROVE  buf[i] = <<d + 1, i>>
  <2>1. d + 1 \in 1..Len(stream)
    BY <1>1, <1>5
  <2>2. stream[d + 1].start = End(d)
    <3>1. stream[d + 1].start = End(d + 1 - 1) /\ d + 1 - 1 = d
      BY <2>1 DEF StreamInv
    <3> QED
      BY <3>1
  <2>3. /\ End(d + 1) = End(d) + stream[d + 1].header + stream[d + 1].content
        /\ stream[d + 1].header \in Nat /\ stream[d + 1].content \in Nat
    BY <2>1, <2>2, RequestFacts
  <2>4. PICK p \in Nat : p = End(d) + i
    BY <1>1, <1>3
  <2>5. p \in 1..Len(sent) /\ End(d) < p /\ p <= End(d + 1) /\ p - End(d) = i
    <3>1. PICK e \in Nat, h \in Nat, c \in Nat :
                /\ e = End(d) /\ h = stream[d + 1].header /\ c = stream[d + 1].content
      BY <1>1, <2>3
    <3>2. /\ i \in Nat /\ i > 0 /\ i <= t - e /\ i <= h + c
          /\ t <= Len(sent) /\ End(d + 1) = e + h + c /\ p = e + i
      <4>1. t \in Nat /\ e <= t /\ t <= Len(sent) /\ Len(buf) = t - e
        BY <1>1, <1>3, <3>1
      <4>2. i \in Nat /\ i > 0 /\ i <= Len(buf)
        BY <4>1
      <4> QED
        BY <1>5, <2>3, <2>4, <3>1, <4>1, <4>2
    <3>3. PICK l \in Nat : l = Len(sent)
      BY <1>1
    <3>4. t \in Nat
      BY <1>1
    <3>5. p \in 1..l /\ e < p /\ p <= e + h + c /\ p - e = i
      BY ONLY <3>2, <3>3, <3>4, e \in Nat, h \in Nat, c \in Nat
    <3> QED
      BY <3>1, <3>2, <3>3, <3>5
  <2>6. sent[p] = <<d + 1, p - stream[d + 1].start>>
    BY <2>1, <2>2, <2>5 DEF StreamInv
  <2> QED
    BY <1>3, <2>2, <2>4, <2>5, <2>6
<1> QED
  BY <1>3, <1>4, <1>5

(* The blank lines hc_read finds in such a buffer. *)
LEMMA ParseFacts ==
    ASSUME TypeOK, StreamInv,
           NEW d \in 0..Len(stream), NEW t \in End(d)..Len(sent),
           NEW buf, buf = Bytes(End(d), t)
    PROVE  /\ HeaderEnds(buf) # {} <=>
                d < Len(stream) /\ stream[d + 1].header <= Len(buf)
           /\ HeaderEnds(buf) # {} =>
                Min(HeaderEnds(buf)) = stream[d + 1].header /\ buf[1] = <<d + 1, 1>>
<1>1. /\ buf \in Seq(Nat \X Nat) /\ Len(buf) \in Nat /\ d \in Nat
      /\ Len(buf) > 0 => d < Len(stream)
      /\ d < Len(stream) =>
            \A i \in 1..Len(buf) : i <= stream[d + 1].header + stream[d + 1].content
                                        => buf[i] = <<d + 1, i>>
  BY BufferFacts, LenProperties
<1>2. ASSUME Len(buf) = 0 PROVE HeaderEnds(buf) = {}
  BY <1>2 DEF HeaderEnds
<1>3. ASSUME d < Len(stream)
      PROVE  /\ stream[d + 1].header \in Nat /\ stream[d + 1].header > 0
             /\ stream[d + 1].content \in Nat
  <2>1. d + 1 \in 1..Len(stream)
    BY <1>1, <1>3, LenProperties DEF TypeOK
  <2> QED
    BY <2>1, RequestFacts
<1>4. ASSUME d < Len(stream)
      PROVE  \A i \in 1..Len(buf) : i <= stream[d + 1].header =>
                (i \in HeaderEnds(buf) <=> i = stream[d + 1].header)
  <2> SUFFICES ASSUME NEW i \in 1..Len(buf), i <= stream[d + 1].header
               PROVE  i \in HeaderEnds(buf) <=> i = stream[d + 1].header
    OBVIOUS
  <2>1. buf[i] = <<d + 1, i>>
    <3>1. i <= stream[d + 1].header + stream[d + 1].content
      <4>1. PICK h \in Nat, c \in Nat :
                    h = stream[d + 1].header /\ c = stream[d + 1].content
        BY <1>3, <1>4
      <4>2. i \in Nat /\ i <= h
        BY <1>1, <4>1
      <4>3. i <= h + c
        BY ONLY <4>2, h \in Nat, c \in Nat
      <4> QED
        BY ONLY <4>1, <4>3
    <3> QED
      BY <1>1, <1>4, <3>1
  <2>2. buf[i][1] = d + 1 /\ buf[i][2] = i
    BY <2>1
  <2> QED
    BY <2>2 DEF HeaderEnds
<1>5. ASSUME d < Len(stream), stream[d + 1].header <= Len(buf)
      PROVE  /\ HeaderEnds(buf) # {}
             /\ Min(HeaderEnds(buf)) = stream[d + 1].header
             /\ buf[1] = <<d + 1, 1>>
  <2>1. PICK h \in Nat : h = stream[d + 1].header /\ h > 0
    BY <1>3, <1>5
  <2>2. h \in 1..Len(buf) /\ h \in HeaderEnds(buf)
    BY <1>1, <1>4, <1>5, <2>1
  <2>3. HeaderEnds(buf) \subseteq 1..Len(buf)
    BY DEF HeaderEnds
  <2>4. \A y \in HeaderEnds(buf) : h <= y
    <3> SUFFICES ASSUME NEW y \in HeaderEnds(buf), ~(h <= y) PROVE FALSE
      OBVIOUS
    <3>1. y \in 1..Len(buf) /\ y <= h /\ y # h
      BY <1>1, <2>3
    <3> QED
      BY ONLY <1>4, <1>5, <2>1, <3>1, y \in HeaderEnds(buf)
  <2>5. \A x \in HeaderEnds(buf) : (\A y \in HeaderEnds(buf) : x <= y) => x = h
    <3> SUFFICES ASSUME NEW x \in HeaderEnds(buf), x <= h PROVE x = h
      BY <2>2
    <3>1. x \in Nat /\ h <= x
      BY <1>1, <2>3, <2>4
    <3> QED
      BY <3>1
  <2>6. Min(HeaderEnds(buf)) = h
    BY <2>2, <2>4, <2>5 DEF Min
  <2>7. buf[1] = <<d + 1, 1>>
    <3>1. 1 \in 1..Len(buf) /\ 1 <= stream[d + 1].header + stream[d + 1].content
      <4>1. PICK c \in Nat : c = stream[d + 1].content
        BY <1>3, <1>5
      <4>2. 1 <= h + c
        BY <2>1, <4>1
      <4> QED
        BY <1>1, <2>1, <2>2, <4>1, <4>2
    <3> QED
      BY <1>1, <1>5, <3>1
  <2> QED
    BY <2>1, <2>2, <2>6, <2>7
<1>6. ASSUME HeaderEnds(buf) # {}
      PROVE  d < Len(stream) /\ stream[d + 1].header <= Len(buf)
  <2>1. d < Len(stream)
    BY <1>1, <1>2, <1>6
  <2>2. PICK i \in 1..Len(buf) : i \in HeaderEnds(buf)
    BY <1>6 DEF HeaderEnds
  <2>3. i \in Nat /\ i <= Len(buf) /\ stream[d + 1].header \in Nat
    BY <1>1, <1>3, <2>1
  <2>4. ~(i < stream[d + 1].header)
    <3> SUFFICES ASSUME i < stream[d + 1].header PROVE FALSE
      OBVIOUS
    <3>1. i <= stream[d + 1].header /\ i # stream[d + 1].header
      BY ONLY <2>3, i < stream[d + 1].header
    <3> QED
      BY ONLY <1>4, <2>1, <2>2, <3>1, i \in 1..Len(buf)
  <2>5. stream[d + 1].header <= Len(buf)
    BY ONLY <1>1, <2>3, <2>4
  <2> QED
    BY ONLY <2>1, <2>5
<1> QED
  BY <1>5, <1>6

-----------------------------------------------------------------------------
(* A buffer of any bytes *)

(* The blank line hc_process finds is in the buffer. *)
LEMMA BlankLine ==
    ASSUME NEW S, NEW buf \in Seq(S), HeaderEnds(buf) # {}
    PROVE  Min(HeaderEnds(buf)) \in 1..Len(buf)
<1>1. Len(buf) \in Nat /\ HeaderEnds(buf) \subseteq 1..Len(buf)
  BY LenProperties DEF HeaderEnds
<1>2. PICK E \in SUBSET Nat : E = HeaderEnds(buf) /\ E # {}
  BY <1>1
<1>3. IsWellFoundedOn({ss \in Nat \X Nat : ss[1] < ss[2]}, Nat)
  BY NatLessThanWellFounded DEF OpToRel
<1>4. PICK R : R = {ss \in Nat \X Nat : ss[1] < ss[2]}
  OBVIOUS
<1>5. PICK x \in E : \A y \in E : ~(<<y, x>> \in R)
  <2>1. IsWellFoundedOn(R, Nat)
    BY <1>3, <1>4
  <2> QED
    BY <1>2, <2>1, WFMin
<1>6. \A y \in E : x <= y
  <2> SUFFICES ASSUME NEW y \in E PROVE x <= y
    OBVIOUS
  <2>1. x \in Nat /\ y \in Nat
    BY <1>2
  <2>2. ~(y < x)
    BY <1>4, <1>5, <2>1
  <2> QED
    BY <2>1, <2>2
<1>7. Min(E) \in E
  BY <1>6 DEF Min
<1> QED
  BY <1>1, <1>2, <1>7

(* The size of a request that hc_process takes lies in the buffer, whatever *)
(* Content-Length says; it is the sum of the sizes when that is natural.   *)
LEMMA TotalFacts ==
    ASSUME NEW S, NEW buf \in Seq(S), Len(buf) <= MAX_BUFFER_SIZE,
           HeaderEnds(buf) # {}, NEW h, h.length \in Lengths,
           ~IsTooBig(buf, h), IsComplete(buf, h)
    PROVE  /\ Total(buf, h) \in 0..Len(buf)
           /\ h.length \in Nat => Total(buf, h) = Min(HeaderEnds(buf)) + h.length
<1>1. PICK k \in Nat, z \in Nat : k = Min(HeaderEnds(buf)) /\ z = Len(buf) /\ k <= z
  BY BlankLine, LenProperties
<1>2. PICK M \in Nat, I \in Nat, Z \in Nat :
        /\ M = MAX_BUFFER_SIZE /\ I = INT_MAX /\ Z = SIZE_MAX /\ M <= I /\ M + I < Z
  BY ConnectionAssumption
<1>3. PICK l \in Int : l = h.length /\ -I - 1 <= l /\ l <= I
  <2>1. Lengths \subseteq (-I - 1)..I
    BY <1>2, ConnectionAssumption
  <2>2. PICK l \in Lengths : l = h.length
    OBVIOUS
  <2>3. l \in (-I - 1)..I
    BY <2>1
  <2>4. l \in Int /\ -I - 1 <= l /\ l <= I
    BY ONLY <2>3, I \in Nat
  <2> QED
    BY <2>2, <2>4
<1>4. PICK s \in Int : s = Total(buf, h) /\ s = IF l + k > I THEN l + k - 2 * (I + 1) ELSE l + k
  <2>1. Total(buf, h) = Wrap(l + k)
    BY <1>1, <1>3 DEF Total
  <2>2. Wrap(l + k) = IF l + k > I THEN l + k - 2 * (I + 1) ELSE l + k
    BY <1>2 DEF Wrap
  <2> QED
    BY <2>1, <2>2
<1>5. z >= IF s < 0 THEN s + Z + 1 ELSE s
  BY <1>1, <1>2, <1>4 DEF IsComplete, AsSize
<1>6. z <= M
  BY <1>1, <1>2
<1>7. -I - 1 <= s
  BY ONLY <1>1, <1>2, <1>3, <1>4, l \in Int, k \in Nat, I \in Nat, s \in Int
<1>8. s \in 0..z
  BY ONLY <1>2, <1>5, <1>6, <1>7, s \in Int, z \in Nat, Z \in Nat, I \in Nat, M \in Nat
<1>9. ASSUME l \in Nat PROVE s = k + l
  <2>1. ~(l + k > I)
    <3> SUFFICES ASSUME l + k > I PROVE FALSE
      OBVIOUS
    <3>1. s = l + k - 2 * (I + 1)
      BY <1>4
    <3>2. k <= I /\ l <= I /\ s >= 0
      BY ONLY <1>1, <1>2, <1>3, <1>6, <1>8, k \in Nat, I \in Nat, M \in Nat, z \in Nat
    <3> QED
      BY ONLY <3>1, <3>2, k \in Nat, I \in Nat, l \in Nat, s \in Int, <1>9
  <2> QED
    BY ONLY <1>4, <2>1, <1>9, l \in Nat, k \in Nat
<1> QED
  BY <1>1, <1>3, <1>4, <1>8, <1>9

(* A Content-Length is a size_t when it is given to the callback. *)
LEMMA SizeOfLength ==
    ASSUME NEW l \in Lengths
    PROVE  AsSize(l) \in Nat /\ (l \in Nat => AsSize(l) = l)
<1>1. PICK I \in Nat, Z \in Nat : I = INT_MAX /\ Z = SIZE_MAX /\ I < Z
  BY ConnectionAssumption
<1>2. l \in Int /\ -I - 1 <= l
  <2>1. Lengths \subseteq (-I - 1)..I
    BY <1>1, ConnectionAssumption
  <2> QED
    BY <2>1
<1> QED
  BY <1>1, <1>2 DEF AsSize

(* The callback's data are bytes of the buffer. *)
LEMMA DataBytes ==
    ASSUME NEW S, NEW buf \in Seq(S), NEW k \in 0..Len(buf), NEW c \in Nat
    PROVE  /\ DataOf(buf, k, c) \in Seq(S)
           /\ k + c <= Len(buf) => DataOf(buf, k, c) = SubSeq(buf, k + 1, k + c)
<1>1. PICK z \in Nat : z = Len(buf)
  BY LenProperties
<1>2. PICK n \in 0..z : n = IF k + c < z THEN k + c ELSE z
  BY <1>1
<1>3. DataOf(buf, k, c) = SubSeq(buf, k + 1, n)
  BY <1>1, <1>2 DEF DataOf
<1>4. \A i \in (k + 1)..n : buf[i] \in S
  <2> SUFFICES ASSUME NEW i \in (k + 1)..n PROVE i \in 1..Len(buf)
    BY ElementOfSeq
  <2> QED
    BY <1>1, <1>2
<1>5. SubSeq(buf, k + 1, n) \in Seq(S)
  <2>1. k + 1 \in Int /\ n \in Int
    BY <1>1, <1>2
  <2> QED
    BY <1>4, <2>1, SubSeqProperties
<1>6. k + c <= Len(buf) => n = k + c
  BY <1>1, <1>2
<1> QED
  BY <1>3, <1>5, <1>6

(* What is left in the buffer was in it. *)
LEMMA RestBytes ==
    ASSUME NEW S, NEW buf \in Seq(S), NEW m \in 0..Len(buf)
    PROVE  /\ SubSeq(buf, m + 1, Len(buf)) \in Seq(S)
           /\ Len(SubSeq(buf, m + 1, Len(buf))) = Len(buf) - m
           /\ \A i \in 1..(Len(buf) - m) : SubSeq(buf, m + 1, Len(buf))[i] = buf[m + i]
<1>1. PICK z \in Nat : z = Len(buf)
  BY LenProperties
<1>2. \A i \in (m + 1)..z : buf[i] \in S
  <2> SUFFICES ASSUME NEW i \in (m + 1)..z PROVE i \in 1..Len(buf)
    BY ElementOfSeq
  <2> QED
    BY <1>1
<1>3. PICK w : w = SubSeq(buf, m + 1, z)
  OBVIOUS
<1>4. /\ w \in Seq(S)
      /\ Len(w) = IF m + 1 <= z THEN z - (m + 1) + 1 ELSE 0
      /\ \A i \in 1..(z - (m + 1) + 1) : w[i] = buf[m + 1 + i - 1]
  <2>1. m + 1 \in Int /\ z \in Int
    BY <1>1
  <2> QED
    BY <1>2, <1>3, <2>1, SubSeqProperties
<1>5. m \in Nat /\ m <= z
  BY <1>1
<1>6. Len(w) = z - m
  BY <1>4, <1>5
<1>7. \A i \in 1..(z - m) : w[i] = buf[m + i]
  <2> SUFFICES ASSUME NEW i \in 1..(z - m) PROVE w[i] = buf[m + i]
    OBVIOUS
  <2>1. i \in 1..(z - (m + 1) + 1) /\ m + 1 + i - 1 = m + i
    BY <1>5
  <2> QED
    BY <1>4, <2>1
<1> QED
  BY <1>1, <1>3, <1>4, <1>6, <1>7

-----------------------------------------------------------------------------
(* The client's steps *)

LEMMA InvInit == Init => ConnectionInv
<1> SUFFICES ASSUME Init PROVE ConnectionInv
  OBVIOUS
<1>1. /\ stream = <<>> /\ sent = <<>> /\ buffer = <<>> /\ delivered = <<>>
      /\ received = 0 /\ header = NoHeader /\ errors = 0
      /\ pipelining \in BOOLEAN /\ closed \in BOOLEAN
  BY DEF Init
<1>2. Len(stream) = 0 /\ Len(sent) = 0 /\ Len(delivered) = 0 /\ Len(buffer) = 0
  BY <1>1
<1>3. End(0) = 0
  BY DEF End
<1>4. MaxErrors \in Nat /\ MAX_BUFFER_SIZE \in Nat
  BY ConnectionAssumption
<1>5. TypeOK
  <2>1. /\ stream \in Seq(Request) /\ sent \in Seq(Nat \X Nat) /\ buffer \in Seq(Nat \X Nat)
        /\ delivered \in Seq([header : Nat, size : Nat, data : Seq(Nat \X Nat)])
    BY <1>1, EmptySeq
  <2>2. header \in [request : -1..Len(stream), length : Lengths \cup {0}]
    BY <1>1, <1>2 DEF NoHeader
  <2>3. received \in 0..Len(sent) /\ Len(delivered) <= received
    BY <1>1, <1>2
  <2>4. Len(buffer) <= MAX_BUFFER_SIZE /\ errors \in 0..MaxErrors
    BY <1>1, <1>2, <1>4
  <2> QED
    BY <1>1, <2>1, <2>2, <2>3, <2>4 DEF TypeOK
<1>6. StreamInv
  BY <1>2, <1>3 DEF StreamInv
<1>7. Holds(buffer)
  BY <1>2, <1>5 DEF Holds, TypeOK
<1>8. Aligned(Len(delivered), received, buffer)
  BY <1>1, <1>2, <1>3 DEF Aligned, Bytes
<1>9. HeaderOf(Len(delivered), buffer, header) /\ Waits(buffer, header)
  BY <1>1 DEF HeaderOf, Waits
<1>10. WaitingInv
  <2>1. HeaderEnds(buffer) = {}
    BY <1>2 DEF HeaderEnds
  <2>2. NoHeader \in HttpParse(buffer)
    BY <2>1 DEF HttpParse
  <2> QED
    BY <1>2, <2>2 DEF WaitingInv
<1>11. RequestsWhole
  BY <1>2 DEF RequestsWhole
<1> QED
  BY <1>5, <1>6, <1>7, <1>8, <1>9, <1>10, <1>11 DEF ConnectionInv

(* The sizes every step starts from. *)
LEMMA SizeFacts ==
    ASSUME ConnectionInv
    PROVE  /\ Len(stream) \in Nat /\ Len(sent) \in Nat /\ Len(buffer) \in Nat
           /\ Len(delivered) \in Nat /\ received \in Nat
           /\ received <= Len(sent) /\ Len(delivered) <= received
<1>1. /\ Len(stream) \in Nat /\ Len(sent) \in Nat /\ Len(buffer) \in Nat
      /\ Len(delivered) \in Nat
  BY LenProperties DEF ConnectionInv, TypeOK
<1> QED
  BY <1>1 DEF ConnectionInv, TypeOK

(* The header that is read from a buffer. *)
LEMMA ParsedHeader ==
    ASSUME TypeOK, NEW buf, Holds(buf), NEW h \in HttpParse(buf), h # NoHeader
    PROVE  HeaderEnds(buf) # {} /\ h \in [request : 0..Len(stream), length : Lengths]
<1>1. HeaderEnds(buf) # {}
  BY DEF HttpParse
<1>2. Len(stream) \in Nat /\ Len(buf) \in Nat
  BY LenProperties DEF TypeOK, Holds
<1>3. 1 \in 1..Len(buf)
  <2>1. PICK i \in 1..Len(buf) : TRUE
    BY <1>1 DEF HeaderEnds
  <2> QED
    BY <1>2, <2>1
<1>4. CASE buf[1][2] = 1
  <2>1. PICK r \in 1..Len(stream) : r = buf[1][1]
    BY <1>3 DEF Holds
  <2>2. h = [request |-> r, length |-> stream[r].length]
    BY <1>1, <1>4, <2>1 DEF HttpParse, ParseRequest
  <2>3. stream[r].length \in Lengths /\ r \in 0..Len(stream)
    BY <1>2, RequestFacts
  <2> QED
    BY <1>1, <2>2, <2>3
<1>5. CASE buf[1][2] # 1
  <2>1. h \in [request : {Misread}, length : Lengths]
    BY <1>1, <1>5 DEF HttpParse
  <2>2. Misread \in 0..Len(stream)
    BY <1>2 DEF Misread
  <2> QED
    BY <1>1, <2>1, <2>2
<1> QED
  BY <1>4, <1>5

(* What the client adds to the stream does not touch what is in it. *)
Extends ==
    /\ Len(stream') = Len(stream) + 1
    /\ \A r \in 1..Len(stream) : stream'[r] = stream[r]

LEMMA TruthStays ==
    ASSUME TypeOK, Extends, NEW n \in Nat, TruthfulTo(n)'
    PROVE  TruthfulTo(n)
<1> SUFFICES ASSUME NEW r \in 1..n, r <= Len(stream) PROVE Truthful(r)
  BY DEF TruthfulTo
<1>1. Len(stream) \in Nat
  BY LenProperties DEF TypeOK
<1>2. r \in 1..Len(stream) /\ r <= Len(stream')
  BY <1>1 DEF Extends
<1>3. Truthful(r)' /\ stream'[r] = stream[r]
  BY <1>2 DEF TruthfulTo, Extends
<1> QED
  BY <1>3 DEF Truthful

LEMMA ParseStays ==
    ASSUME TypeOK, Extends, NEW buf, Holds(buf)
    PROVE  /\ HeaderEnds(buf)' = HeaderEnds(buf)
           /\ HttpParse(buf)' = HttpParse(buf)
           /\ \A h : IsComplete(buf, h)' = IsComplete(buf, h)
<1>1. \A i \in 1..Len(buf) : stream'[buf[i][1]] = stream[buf[i][1]]
  BY DEF Holds, Extends
<1>2. HeaderEnds(buf)' = HeaderEnds(buf)
  BY <1>1 DEF HeaderEnds
<1>3. ASSUME HeaderEnds(buf) # {} PROVE stream'[buf[1][1]] = stream[buf[1][1]]
  <2>1. Len(buf) \in Nat
    BY LenProperties DEF Holds
  <2>2. PICK i \in 1..Len(buf) : TRUE
    BY <1>3 DEF HeaderEnds
  <2>3. 1 \in 1..Len(buf)
    BY <2>1, <2>2
  <2> QED
    BY <1>1, <2>3
<1>4. HttpParse(buf)' = HttpParse(buf)
  <2>1. CASE HeaderEnds(buf) = {}
    BY <1>2, <2>1 DEF HttpParse
  <2>2. CASE HeaderEnds(buf) # {}
    <3>1. ParseRequest(buf, buf[1][1])' = ParseRequest(buf, buf[1][1])
      BY <1>2, <1>3, <2>2 DEF ParseRequest
    <3> QED
      BY <1>2, <2>2, <3>1 DEF HttpParse
  <2> QED
    BY <2>1, <2>2
<1>5. ASSUME NEW h PROVE IsComplete(buf, h)' = IsComplete(buf, h)
  <2>1. Total(buf, h)' = Total(buf, h)
    BY <1>2 DEF Total
  <2> QED
    BY <2>1 DEF IsComplete
<1> QED
  BY <1>2, <1>4, <1>5

LEMMA BeginsPreserves == ConnectionInv /\ ClientBegins => ConnectionInv'
<1> SUFFICES ASSUME ConnectionInv, ClientBegins PROVE ConnectionInv'
  OBVIOUS
<1>1. /\ Len(stream) \in Nat /\ Len(sent) \in Nat /\ Len(buffer) \in Nat
      /\ Len(delivered) \in Nat /\ received \in Nat
      /\ received <= Len(sent) /\ Len(delivered) <= received
  BY SizeFacts
<1>2. /\ TypeOK /\ StreamInv /\ Holds(buffer) /\ Aligned(Len(delivered), received, buffer)
      /\ HeaderOf(Len(delivered), buffer, header) /\ Waits(buffer, header)
      /\ RequestsWhole /\ WaitingInv
  BY DEF ConnectionInv
<1>3. PICK h \in HeaderSizes, c \in ContentSizes, g \in Lengths, f \in Forms :
        stream' = Append(stream,
            [start |-> Len(sent), header |-> h, content |-> c, length |-> g, form |-> f])
  BY DEF ClientBegins
<1>4. /\ Len(sent) = End(Len(stream))
      /\ pipelining \/ Handled(Len(stream))
      /\ UNCHANGED <<pipelining, sent, received, buffer, header, delivered, errors, closed>>
  BY DEF ClientBegins, connVars
<1>5. h \in Nat /\ h > 0 /\ c \in Nat
  <2>1. HeaderSizes \subseteq Nat \ {0} /\ ContentSizes \subseteq Nat
    BY ConnectionAssumption
  <2>2. h \in Nat /\ h # 0 /\ c \in Nat
    BY <2>1
  <2> QED
    BY ONLY <2>2
<1>6. PICK q \in Request :
        q = [start |-> Len(sent), header |-> h, content |-> c, length |-> g, form |-> f]
  BY <1>1 DEF Request
<1>7. /\ stream' \in Seq(Request) /\ Len(stream') = Len(stream) + 1
      /\ \A r \in 1..Len(stream) : stream'[r] = stream[r]
      /\ stream'[Len(stream) + 1] = q
  <2>1. stream \in Seq(Request) /\ stream' = Append(stream, q)
    BY <1>2, <1>3, <1>6 DEF TypeOK
  <2> QED
    BY ONLY <2>1, AppendProperties, q \in Request
<1>8. \A r \in 0..Len(stream) : End(r)' = End(r)
  <2> SUFFICES ASSUME NEW r \in 0..Len(stream) PROVE End(r)' = End(r)
    OBVIOUS
  <2>1. CASE r = 0
    BY <2>1 DEF End
  <2>2. CASE r # 0
    <3>1. r \in 1..Len(stream)
      BY <1>1, <2>2
    <3> QED
      BY <1>7, <3>1 DEF End
  <2> QED
    BY <2>1, <2>2
<1>9. ASSUME NEW r, r = Len(stream) + 1
      PROVE  End(r)' = Len(sent) + h + c
  <2>1. r # 0
    BY <1>1, <1>9
  <2>2. q.start = Len(sent) /\ q.header = h /\ q.content = c
    BY <1>6
  <2>3. stream'[r] = q
    BY <1>7, <1>9
  <2> QED
    BY <2>1, <2>2, <2>3 DEF End
<1>10. \A r \in 1..Len(stream) : End(r) <= Len(sent)
  <2> SUFFICES ASSUME NEW r \in 1..Len(stream) PROVE End(r) <= Len(sent)
    OBVIOUS
  <2>1. CASE r = Len(stream)
    BY <1>1, <1>4, <2>1
  <2>2. CASE r # Len(stream)
    <3>1. Len(stream) \in 1..Len(stream) /\ r < Len(stream)
      BY <1>1, <2>2
    <3>2. End(r) <= stream[Len(stream)].start /\ stream[Len(stream)].start <= Len(sent)
      BY <1>2, <3>1 DEF StreamInv
    <3>3. End(r) \in Nat /\ stream[Len(stream)].start \in Nat
      BY <1>2, <3>1, RequestFacts
    <3> QED
      BY ONLY <1>1, <3>2, <3>3
  <2> QED
    BY <2>1, <2>2
<1>11. TypeOK'
  <2>1. header' \in [request : -1..Len(stream'), length : Lengths \cup {0}]
    <3>1. -1..Len(stream) \subseteq -1..Len(stream')
      BY <1>1, <1>7
    <3> QED
      BY <1>2, <1>4, <3>1 DEF TypeOK
  <2> QED
    BY <1>2, <1>4, <1>7, <2>1 DEF TypeOK
<1>12. StreamInv'
  <2>1. ASSUME NEW r \in 1..(Len(stream) + 1)
        PROVE  r \in 1..Len(stream) \/ r = Len(stream) + 1
    BY <1>1
  <2>2. \A r \in 1..Len(stream') : stream'[r].start = End(r - 1)'
    <3> SUFFICES ASSUME NEW r \in 1..(Len(stream) + 1)
                 PROVE  stream'[r].start = End(r - 1)'
      BY <1>7
    <3>1. r - 1 \in 0..Len(stream)
      BY <1>1
    <3>2. CASE r \in 1..Len(stream)
      BY <1>2, <1>7, <1>8, <3>1, <3>2 DEF StreamInv
    <3>3. CASE r = Len(stream) + 1
      <4>1. r - 1 = Len(stream)
        BY <1>1, <3>3
      <4>2. stream'[r].start = Len(sent)
        BY <1>6, <1>7, <3>3
      <4> QED
        BY <1>4, <1>8, <3>1, <4>1, <4>2
    <3> QED
      BY <2>1, <3>2, <3>3
  <2>3. \A r \in 1..Len(stream') : stream'[r].start <= Len(sent')
    <3> SUFFICES ASSUME NEW r \in 1..(Len(stream) + 1)
                 PROVE  stream'[r].start <= Len(sent)
      BY <1>4, <1>7
    <3>1. CASE r \in 1..Len(stream)
      BY <1>2, <1>7, <3>1 DEF StreamInv
    <3>2. CASE r = Len(stream) + 1
      BY <1>1, <1>6, <1>7, <3>2
    <3> QED
      BY <2>1, <3>1, <3>2
  <2>4. \A s, r \in 1..Len(stream') : s < r => End(s)' <= stream'[r].start
    <3> SUFFICES ASSUME NEW s \in 1..(Len(stream) + 1), NEW r \in 1..(Len(stream) + 1),
                        s < r
                 PROVE  End(s)' <= stream'[r].start
      BY <1>7
    <3>1. s \in 1..Len(stream) /\ s \in 0..Len(stream)
      BY <1>1
    <3>2. CASE r \in 1..Len(stream)
      BY <1>2, <1>7, <1>8, <3>1, <3>2 DEF StreamInv
    <3>3. CASE r = Len(stream) + 1
      <4>1. stream'[r].start = Len(sent)
        BY <1>6, <1>7, <3>3
      <4> QED
        BY <1>8, <1>10, <3>1, <4>1
    <3> QED
      BY <2>1, <3>2, <3>3
  <2>5. Len(sent') <= End(Len(stream))'
    <3>1. PICK r : r = Len(stream) + 1
      OBVIOUS
    <3>2. End(Len(stream))' = End(r)'
      BY <1>7, <3>1 DEF End
    <3>3. Len(sent) <= Len(sent) + h + c
      BY <1>1, <1>5
    <3> QED
      BY <1>4, <1>9, <3>1, <3>2, <3>3
  <2>6. \A r \in 1..Len(stream') : \A p \in 1..Len(sent') :
            stream'[r].start < p /\ p <= End(r)' => sent'[p] = <<r, p - stream'[r].start>>
    <3> SUFFICES ASSUME NEW r \in 1..(Len(stream) + 1), NEW p \in 1..Len(sent),
                        stream'[r].start < p, p <= End(r)'
                 PROVE  sent[p] = <<r, p - stream'[r].start>>
      BY <1>4, <1>7
    <3>1. CASE r \in 1..Len(stream)
      <4>1. r \in 0..Len(stream)
        BY <1>1, <3>1
      <4>2. stream'[r] = stream[r] /\ End(r)' = End(r)
        BY <1>7, <1>8, <3>1, <4>1
      <4> QED
        BY <1>2, <3>1, <4>2 DEF StreamInv
    <3>2. CASE r = Len(stream) + 1
      <4>1. stream'[r].start = Len(sent)
        BY <1>6, <1>7, <3>2
      <4> QED
        BY <1>1, <4>1
    <3> QED
      BY <2>1, <3>1, <3>2
  <2>7. \A p \in 1..Len(sent') : sent'[p][1] \in 1..Len(stream')
    <3> SUFFICES ASSUME NEW p \in 1..Len(sent) PROVE sent[p][1] \in 1..(Len(stream) + 1)
      BY <1>4, <1>7
    <3>1. sent[p][1] \in 1..Len(stream)
      BY <1>2 DEF StreamInv
    <3> QED
      BY <1>1, <3>1
  <2> QED
    BY <2>2, <2>3, <2>4, <2>5, <2>6, <2>7 DEF StreamInv
<1>13. Extends
  BY <1>7 DEF Extends
<1>24. PICK d \in Nat, t \in Nat : d = Len(delivered) /\ t = received
  BY <1>1
<1>25. PICK b, j : b = buffer /\ j = header
  OBVIOUS
<1>14. d = Len(delivered) /\ t = received /\ b = buffer /\ j = header
  BY <1>24, <1>25
<1>15. Len(delivered') = d /\ received' = t /\ buffer' = b /\ header' = j
  BY <1>4, <1>14
<1>16. TruthfulTo(d)' => TruthfulTo(d)
  BY <1>2, <1>13, TruthStays
<1>17. /\ HeaderEnds(b)' = HeaderEnds(b)
       /\ HttpParse(b)' = HttpParse(b)
       /\ IsComplete(b, j)' = IsComplete(b, j)
  BY <1>2, <1>13, <1>14, ParseStays
<1>18. Holds(buffer)'
  <2>1. \A i \in 1..Len(b) : b[i][1] \in 1..(Len(stream) + 1)
    <3> SUFFICES ASSUME NEW i \in 1..Len(b) PROVE b[i][1] \in 1..(Len(stream) + 1)
      OBVIOUS
    <3>1. b[i][1] \in 1..Len(stream)
      BY <1>2, <1>14 DEF Holds
    <3> QED
      BY <1>1, <3>1
  <2> QED
    BY <1>2, <1>7, <1>14, <1>15, <2>1 DEF Holds
<1>19. Aligned(Len(delivered), received, buffer)'
  <2> SUFFICES ASSUME TruthfulTo(d)'
               PROVE  /\ d \in 0..(Len(stream) + 1)
                      /\ t \in End(d)'..Len(sent)
                      /\ b = Bytes(End(d)', t)
    BY <1>4, <1>7, <1>15 DEF Aligned, Bytes, End
  <2>1. d \in 0..Len(stream) /\ t \in End(d)..Len(sent) /\ b = Bytes(End(d), t)
    BY <1>2, <1>14, <1>16 DEF Aligned
  <2> QED
    BY <1>1, <1>8, <2>1
<1>20. HeaderOf(Len(delivered), buffer, header)'
  <2> SUFFICES ASSUME j # NoHeader
               PROVE  /\ HeaderEnds(b)' # {}
                      /\ j \in [request : 0..(Len(stream) + 1), length : Lengths]
                      /\ TruthfulTo(d)' =>
                            /\ d < Len(stream) + 1
                            /\ stream'[d + 1].header <= Len(b)
                            /\ j.request = d + 1
                            /\ j.length = stream'[d + 1].length
    BY <1>7, <1>15 DEF HeaderOf, HeaderEnds, TruthfulTo, Truthful
  <2>1. /\ HeaderEnds(b) # {} /\ j \in [request : 0..Len(stream), length : Lengths]
        /\ TruthfulTo(d) =>
            /\ d < Len(stream)
            /\ stream[d + 1].header <= Len(b)
            /\ j.request = d + 1
            /\ j.length = stream[d + 1].length
    BY <1>2, <1>14 DEF HeaderOf
  <2>2. j \in [request : 0..(Len(stream) + 1), length : Lengths]
    <3>1. 0..Len(stream) \subseteq 0..(Len(stream) + 1)
      BY <1>1
    <3> QED
      BY <2>1, <3>1
  <2>3. ASSUME d < Len(stream) PROVE stream'[d + 1] = stream[d + 1] /\ d < Len(stream) + 1
    <3>1. d + 1 \in 1..Len(stream)
      BY <1>1, <2>3
    <3> QED
      BY <1>1, <1>7, <2>3, <3>1
  <2> QED
    BY <1>16, <1>17, <2>1, <2>2, <2>3
<1>21. Waits(buffer, header)'
  <2>1. errors = 0 /\ j # NoHeader => ~IsComplete(b, j)'
    BY <1>2, <1>14, <1>17 DEF Waits
  <2> QED
    BY <1>4, <1>15, <2>1 DEF Waits, IsComplete, Total, HeaderEnds
<1>22. WaitingInv'
  <2> SUFFICES ASSUME ~pipelining, errors = 0, TruthfulTo(d)'
               PROVE  /\ Len(stream) + 1 <= d + 1
                      /\ j = NoHeader => NoHeader \in HttpParse(b)'
    BY <1>4, <1>7, <1>15 DEF WaitingInv, HttpParse, ParseRequest, HeaderEnds, TruthfulTo, Truthful
  <2>1. Len(stream) <= d
    BY <1>1, <1>4, <1>14 DEF Handled
  <2>2. j = NoHeader => NoHeader \in HttpParse(b)
    BY <1>2, <1>14, <1>16 DEF WaitingInv
  <2> QED
    BY <1>1, <1>17, <2>1, <2>2
<1>23. RequestsWhole'
  <2> SUFFICES ASSUME NEW i \in 1..d, TruthfulTo(i - 1)'
               PROVE  /\ i <= Len(stream) + 1
                      /\ delivered[i].header = i
                      /\ Truthful(i)' => /\ delivered[i].size = stream'[i].content
                                         /\ delivered[i].data = Content(i)'
    BY <1>4, <1>7, <1>15 DEF RequestsWhole
  <2>1. i - 1 \in Nat
    OBVIOUS
  <2>2. TruthfulTo(i - 1)
    BY <1>2, <1>13, <2>1, TruthStays
  <2>3. /\ i <= Len(stream) /\ delivered[i].header = i
        /\ Truthful(i) => delivered[i].size = stream[i].content /\ delivered[i].data = Content(i)
    BY <1>2, <1>14, <2>2 DEF RequestsWhole
  <2>4. i \in 1..Len(stream) /\ i <= Len(stream) + 1
    BY <1>1, <2>3
  <2>5. stream'[i] = stream[i]
    BY <1>7, <2>4
  <2>6. (Truthful(i)' <=> Truthful(i)) /\ Content(i)' = Content(i)
    BY <2>5 DEF Truthful, Content
  <2> QED
    BY <2>3, <2>4, <2>5, <2>6
<1> QED
  BY <1>11, <1>12, <1>18, <1>19, <1>20, <1>21, <1>22, <1>23 DEF ConnectionInv

LEMMA SendsPreserves == ConnectionInv /\ ClientSends => ConnectionInv'
<1> SUFFICES ASSUME ConnectionInv, ClientSends PROVE ConnectionInv'
  OBVIOUS
<1>1. /\ Len(stream) \in Nat /\ Len(sent) \in Nat /\ Len(buffer) \in Nat
      /\ Len(delivered) \in Nat /\ received \in Nat
      /\ received <= Len(sent) /\ Len(delivered) <= received
  BY SizeFacts
<1>2. /\ TypeOK /\ StreamInv /\ Holds(buffer) /\ Aligned(Len(delivered), received, buffer)
      /\ HeaderOf(Len(delivered), buffer, header) /\ Waits(buffer, header)
      /\ RequestsWhole /\ WaitingInv
  BY DEF ConnectionInv
<1>3. /\ Len(sent) < End(Len(stream))
      /\ sent' = Append(sent, <<Len(stream), Len(sent) + 1 - stream[Len(stream)].start>>)
      /\ UNCHANGED <<stream, pipelining, received, buffer, header, delivered, errors, closed>>
  BY DEF ClientSends, connVars
<1>4. PICK l \in Nat : l = Len(stream)
  BY <1>1
<1>5. PICK n \in Nat : n = Len(sent)
  BY <1>1
<1>6. l \in 1..Len(stream)
  <2>1. l # 0
    BY <1>3, <1>4, <1>5 DEF End
  <2> QED
    BY <1>4, <2>1
<1>7. stream[l].start \in Nat /\ stream[l].start <= n
  BY <1>2, <1>5, <1>6, RequestFacts DEF StreamInv
<1>8. PICK k \in Nat : k = n + 1 - stream[l].start
  BY <1>7
<1>9. PICK b \in Nat \X Nat : b = <<l, k>>
  OBVIOUS
<1>10. /\ sent' \in Seq(Nat \X Nat) /\ Len(sent') = n + 1
       /\ \A p \in 1..n : sent'[p] = sent[p]
       /\ sent'[n + 1] = b
  <2>1. sent \in Seq(Nat \X Nat) /\ sent' = Append(sent, b)
    BY <1>2, <1>3, <1>4, <1>5, <1>8, <1>9 DEF TypeOK
  <2> QED
    BY ONLY <1>5, <2>1, AppendProperties, b \in Nat \X Nat
<1>11. \A r : End(r)' = End(r)
  BY <1>3 DEF End
<1>12. TypeOK'
  <2>1. received' \in 0..Len(sent')
    BY <1>1, <1>3, <1>5, <1>10
  <2> QED
    BY <1>2, <1>3, <1>10, <2>1 DEF TypeOK
<1>13. StreamInv'
  <2>1. \A r \in 1..Len(stream') : stream'[r].start = End(r - 1)'
    BY <1>2, <1>3, <1>11 DEF StreamInv
  <2>2. \A r \in 1..Len(stream') : stream'[r].start <= Len(sent')
    <3> SUFFICES ASSUME NEW r \in 1..Len(stream) PROVE stream[r].start <= n + 1
      BY <1>3, <1>10
    <3>1. stream[r].start \in Nat /\ stream[r].start <= n
      BY <1>2, <1>5, RequestFacts DEF StreamInv
    <3> QED
      BY <3>1
  <2>3. \A q, r \in 1..Len(stream') : q < r => End(q)' <= stream'[r].start
    BY <1>2, <1>3, <1>11 DEF StreamInv
  <2>4. Len(sent') <= End(Len(stream))'
    <3>1. End(l) \in Nat
      BY <1>2, <1>6, RequestFacts
    <3>2. n < End(l)
      BY <1>3, <1>4, <1>5
    <3>3. n + 1 <= End(l)
      BY <3>1, <3>2
    <3>4. End(Len(stream))' = End(l)
      BY <1>3, <1>4 DEF End
    <3> QED
      BY <1>10, <3>3, <3>4
  <2>5. \A r \in 1..Len(stream') : \A p \in 1..Len(sent') :
            stream'[r].start < p /\ p <= End(r)' => sent'[p] = <<r, p - stream'[r].start>>
    <3> SUFFICES ASSUME NEW r \in 1..Len(stream), NEW p \in 1..(n + 1),
                        stream[r].start < p, p <= End(r)
                 PROVE  sent'[p] = <<r, p - stream[r].start>>
      BY <1>3, <1>10, <1>11
    <3>1. CASE p \in 1..n
      BY <1>2, <1>5, <1>10, <3>1 DEF StreamInv
    <3>2. CASE p = n + 1
      <4>1. r = l
        <5> SUFFICES ASSUME r # l PROVE FALSE
          OBVIOUS
        <5>1. r < l
          BY <1>1, <1>4
        <5>2. End(r) <= stream[l].start /\ End(r) \in Nat
          BY <1>2, <1>6, <5>1, RequestFacts DEF StreamInv
        <5>3. n + 1 <= End(r)
          BY <3>2
        <5> QED
          BY ONLY <1>7, <5>2, <5>3, n \in Nat
      <4>2. p - stream[r].start = k
        <5>1. stream[r].start = stream[l].start
          BY ONLY <4>1
        <5>2. PICK s \in Nat : s = stream[l].start
          BY <1>7
        <5>3. k = n + 1 - s
          BY <1>8, <5>2
        <5>4. k = p - s
          BY <3>2, <5>3
        <5> QED
          BY <5>1, <5>2, <5>4
      <4> QED
        BY <1>9, <1>10, <3>2, <4>1, <4>2
    <3> QED
      BY <3>1, <3>2
  <2>6. \A p \in 1..Len(sent') : sent'[p][1] \in 1..Len(stream')
    <3> SUFFICES ASSUME NEW p \in 1..(n + 1) PROVE sent'[p][1] \in 1..Len(stream)
      BY <1>3, <1>10
    <3>1. CASE p \in 1..n
      BY <1>2, <1>5, <1>10, <3>1 DEF StreamInv
    <3>2. CASE p = n + 1
      <4>1. b[1] = l
        BY <1>9
      <4> QED
        BY <1>6, <1>10, <3>2, <4>1
    <3> QED
      BY <3>1, <3>2
  <2> QED
    BY <2>1, <2>2, <2>3, <2>4, <2>5, <2>6 DEF StreamInv
<1>21. PICK d \in Nat, t \in Nat : d = Len(delivered) /\ t = received
  BY <1>1
<1>22. PICK f : f = buffer
  OBVIOUS
<1>14. d = Len(delivered) /\ t = received /\ f = buffer
  BY <1>21, <1>22
<1>15. Aligned(Len(delivered), received, buffer)'
  <2> SUFFICES ASSUME TruthfulTo(d)
               PROVE  /\ d \in 0..Len(stream)
                      /\ t \in End(d)..(n + 1)
                      /\ f = [i \in 1..(t - End(d)) |-> sent'[End(d) + i]]
    BY <1>3, <1>10, <1>11, <1>14 DEF Aligned, Bytes, TruthfulTo, Truthful
  <2>1. /\ d \in 0..Len(stream) /\ t \in End(d)..n
        /\ f = [i \in 1..(t - End(d)) |-> sent[End(d) + i]]
    BY <1>2, <1>5, <1>14 DEF Aligned, Bytes
  <2>2. PICK e \in Nat : e = End(d)
    BY <1>2, <2>1, EndFacts
  <2>3. \A i \in 1..(t - e) : sent'[e + i] = sent[e + i]
    <3> SUFFICES ASSUME NEW i \in 1..(t - e) PROVE e + i \in 1..n
      BY <1>10
    <3>1. t <= n
      BY <2>1, <2>2
    <3> QED
      BY <3>1
  <2>4. [i \in 1..(t - e) |-> sent'[e + i]] = [i \in 1..(t - e) |-> sent[e + i]]
    BY <2>3
  <2>5. t \in e..(n + 1)
    BY <2>1, <2>2
  <2> QED
    BY <2>1, <2>2, <2>4, <2>5
<1>16. Holds(buffer)'
  BY <1>2, <1>3 DEF Holds
<1>17. HeaderOf(Len(delivered), buffer, header)'
  BY <1>2, <1>3 DEF HeaderOf, HeaderEnds, TruthfulTo, Truthful
<1>18. Waits(buffer, header)'
  BY <1>2, <1>3 DEF Waits, IsComplete, Total, HeaderEnds
<1>19. RequestsWhole'
  BY <1>2, <1>3 DEF RequestsWhole, Content, TruthfulTo, Truthful
<1>20. WaitingInv'
  BY <1>2, <1>3 DEF WaitingInv, TruthfulTo, Truthful, HttpParse, ParseRequest, HeaderEnds
<1> QED
  BY <1>12, <1>13, <1>15, <1>16, <1>17, <1>18, <1>19, <1>20 DEF ConnectionInv

(* The connection goes away. *)
LEMMA ClosedPreserves ==
    ASSUME ConnectionInv, closed' \in BOOLEAN,
           UNCHANGED <<stream, pipelining, sent, received, buffer, header, delivered, errors>>
    PROVE  ConnectionInv'
<1>1. /\ TypeOK /\ StreamInv /\ Holds(buffer) /\ Aligned(Len(delivered), received, buffer)
      /\ HeaderOf(Len(delivered), buffer, header) /\ Waits(buffer, header)
      /\ RequestsWhole /\ WaitingInv
  BY DEF ConnectionInv
<1>2. End(Len(delivered))' = End(Len(delivered)) /\ End(Len(stream))' = End(Len(stream))
  BY DEF End
<1>3. \A r : End(r)' = End(r)
  BY DEF End
<1>4. TypeOK'
  BY <1>1 DEF TypeOK
<1>5. StreamInv'
  BY <1>1, <1>2, <1>3 DEF StreamInv
<1>6. Holds(buffer)'
  BY <1>1 DEF Holds
<1>7. Aligned(Len(delivered), received, buffer)'
  BY <1>1, <1>2 DEF Aligned, Bytes, TruthfulTo, Truthful
<1>8. HeaderOf(Len(delivered), buffer, header)'
  BY <1>1 DEF HeaderOf, HeaderEnds, TruthfulTo, Truthful
<1>9. Waits(buffer, header)'
  BY <1>1 DEF Waits, IsComplete, Total, HeaderEnds
<1>10. RequestsWhole'
  BY <1>1 DEF RequestsWhole, Content, TruthfulTo, Truthful
<1>11. WaitingInv'
  BY <1>1 DEF WaitingInv, TruthfulTo, Truthful, HttpParse, ParseRequest, HeaderEnds
<1> QED
  BY <1>4, <1>5, <1>6, <1>7, <1>8, <1>9, <1>10, <1>11 DEF ConnectionInv

-----------------------------------------------------------------------------
(* hc_read *)

(* recv() got n bytes, the last of them byte t of the stream, and the buffer *)
(* with them is buf; d requests have been delivered.                       *)
Receives(n, d, t, buf) ==
    /\ n \in 1..MAX_BUFFER_SIZE /\ n <= Space /\ received + n <= Len(sent)
    /\ d = Len(delivered)
    /\ t = received + n
    /\ buf = buffer \o Bytes(received, received + n)

(* The buffer after recv() is as good as the one before. *)
LEMMA ReadFacts ==
    ASSUME ConnectionInv, NEW n, NEW d, NEW t, NEW buf, Receives(n, d, t, buf)
    PROVE  /\ d \in Nat /\ t \in Nat /\ t <= Len(sent) /\ d + 1 <= t
           /\ Holds(buf)
           /\ Aligned(d, t, buf)
           /\ HeaderOf(d, buf, header)
<1>1. /\ Len(stream) \in Nat /\ Len(sent) \in Nat /\ Len(buffer) \in Nat
      /\ Len(delivered) \in Nat /\ received \in Nat
      /\ received <= Len(sent) /\ Len(delivered) <= received
  BY SizeFacts
<1>2. /\ TypeOK /\ StreamInv /\ Holds(buffer) /\ Aligned(Len(delivered), received, buffer)
      /\ HeaderOf(Len(delivered), buffer, header)
  BY DEF ConnectionInv
<1>3. /\ n \in Nat /\ n > 0 /\ n <= MAX_BUFFER_SIZE - Len(buffer)
      /\ received + n <= Len(sent)
      /\ d = Len(delivered) /\ d \in Nat /\ t = received + n /\ t \in Nat
  <2>1. n \in 1..MAX_BUFFER_SIZE /\ MAX_BUFFER_SIZE \in Nat
    BY ConnectionAssumption DEF Receives
  <2> QED
    BY <1>1, <2>1 DEF Receives, Space
<1>14. PICK b, y : b = buffer /\ y = Cut(sent, received, t)
  OBVIOUS
<1>15. PICK r \in Nat, z \in Nat : r = received /\ z = Len(b)
  BY <1>1, <1>14
<1>4. /\ b = buffer /\ r = received /\ z = Len(b)
      /\ y = Cut(sent, received, t)
  BY <1>14, <1>15
<1>5. buf = b \o y
  BY <1>3, <1>4 DEF Receives, Bytes, Cut
<1>6. sent \in Seq(Nat \X Nat) /\ t \in r..Len(sent)
  BY <1>1, <1>2, <1>3, <1>4 DEF TypeOK
<1>7. /\ y \in Seq(Nat \X Nat) /\ Len(y) = n
      /\ \A i \in 1..n : y[i] = sent[r + i]
  <2>1. t - r = n
    BY <1>3, <1>4
  <2>2. /\ Cut(sent, r, t) \in Seq(Nat \X Nat) /\ Len(Cut(sent, r, t)) = t - r
        /\ \A i \in 1..(t - r) : Cut(sent, r, t)[i] = sent[r + i]
    BY ONLY <1>6, CutFacts, r \in Nat
  <2> QED
    BY <1>4, <2>1, <2>2
<1>8. /\ b \in Seq(Nat \X Nat) /\ z <= MAX_BUFFER_SIZE
      /\ \A i \in 1..z : b[i][1] \in 1..Len(stream)
  BY <1>2, <1>4 DEF Holds
<1>9. /\ buf \in Seq(Nat \X Nat) /\ Len(buf) = z + n
      /\ \A i \in 1..(z + n) : buf[i] = IF i <= z THEN b[i] ELSE y[i - z]
  BY <1>4, <1>5, <1>7, <1>8, ConcatProperties
<1>10. Holds(buf)
  <2>1. Len(buf) <= MAX_BUFFER_SIZE
    <3>1. MAX_BUFFER_SIZE \in Nat /\ n <= MAX_BUFFER_SIZE - z
      BY <1>3, <1>4, ConnectionAssumption
    <3> QED
      BY <1>3, <1>4, <1>9, <3>1
  <2>2. ASSUME NEW i \in 1..(z + n) PROVE buf[i][1] \in 1..Len(stream)
    <3>1. CASE i <= z
      <4>1. i \in 1..z
        BY <1>3, <1>4, <3>1
      <4> QED
        BY <1>8, <1>9, <3>1, <4>1
    <3>2. CASE ~(i <= z)
      <4>1. i - z \in 1..n /\ r + (i - z) \in 1..Len(sent)
        <5>1. r + n <= Len(sent)
          BY <1>3, <1>4
        <5> QED
          BY <1>1, <1>3, <1>4, <3>2, <5>1
      <4>2. buf[i] = sent[r + (i - z)]
        BY <1>7, <1>9, <3>2, <4>1
      <4> QED
        BY <1>2, <4>1, <4>2 DEF StreamInv
    <3> QED
      BY <3>1, <3>2
  <2> QED
    BY <1>9, <2>1, <2>2 DEF Holds
<1>11. Aligned(d, t, buf)
  <2> SUFFICES ASSUME TruthfulTo(d)
               PROVE  d \in 0..Len(stream) /\ t \in End(d)..Len(sent) /\ buf = Bytes(End(d), t)
    BY DEF Aligned
  <2>1. d \in 0..Len(stream) /\ r \in End(d)..Len(sent) /\ b = Bytes(End(d), r)
    BY <1>2, <1>3, <1>4 DEF Aligned
  <2>2. PICK e \in Nat : e = End(d)
    BY <1>2, <2>1, EndFacts
  <2>3. r \in e..Len(sent) /\ t \in e..Len(sent)
    BY <1>1, <1>3, <1>4, <2>1, <2>2
  <2>4. Cut(sent, e, r) \o Cut(sent, r, t) = Cut(sent, e, t)
    BY ONLY <1>6, <2>3, CutConcat, e \in Nat
  <2>5. buf = Bytes(End(d), t)
    BY <1>4, <1>5, <2>1, <2>2, <2>4 DEF Bytes, Cut
  <2> QED
    BY <2>1, <2>2, <2>3, <2>5
<1>12. HeaderOf(d, buf, header)
  <2> SUFFICES ASSUME header # NoHeader
               PROVE  /\ HeaderEnds(buf) # {}
                      /\ header \in [request : 0..Len(stream), length : Lengths]
                      /\ TruthfulTo(d) =>
                            /\ d < Len(stream)
                            /\ stream[d + 1].header <= Len(buf)
                            /\ header.request = d + 1
                            /\ header.length = stream[d + 1].length
    BY DEF HeaderOf
  <2>1. /\ HeaderEnds(b) # {}
        /\ header \in [request : 0..Len(stream), length : Lengths]
        /\ TruthfulTo(d) =>
            /\ d < Len(stream)
            /\ stream[d + 1].header <= z
            /\ header.request = d + 1
            /\ header.length = stream[d + 1].length
    BY <1>2, <1>3, <1>4 DEF HeaderOf
  <2>2. HeaderEnds(buf) # {}
    <3>1. PICK i \in 1..z : b[i][2] = stream[b[i][1]].header
      BY <1>4, <2>1 DEF HeaderEnds
    <3>2. i \in 1..(z + n) /\ i <= z
      BY <1>3, <1>4
    <3>3. buf[i] = b[i]
      BY <1>9, <3>2
    <3> QED
      BY <1>9, <3>1, <3>2, <3>3 DEF HeaderEnds
  <2>3. ASSUME d < Len(stream), stream[d + 1].header <= z
        PROVE  stream[d + 1].header <= Len(buf)
    <3>1. d + 1 \in 1..Len(stream)
      BY <1>1, <1>3, <2>3
    <3>2. PICK k \in Nat : k = stream[d + 1].header
      BY <1>2, <3>1, RequestFacts
    <3>3. k <= z
      BY <2>3, <3>2
    <3>4. k <= z + n
      BY ONLY <3>3, <1>3, k \in Nat, z \in Nat
    <3> QED
      BY <1>9, <3>2, <3>4
  <2> QED
    BY <2>1, <2>2, <2>3
<1>13. t <= Len(sent) /\ d + 1 <= t
  BY <1>1, <1>3
<1> QED
  BY <1>3, <1>10, <1>11, <1>12, <1>13

(* The header hc_read goes on with. *)
LEMMA HeaderFacts ==
    ASSUME TypeOK, StreamInv, NEW d, NEW t, NEW buf,
           Holds(buf), Aligned(d, t, buf), HeaderOf(d, buf, header),
           NEW h \in IF header = NoHeader THEN HttpParse(buf) ELSE {header}
    PROVE  HeaderOf(d, buf, h)
<1>1. CASE header # NoHeader
  <2>1. h = header
    BY <1>1
  <2> QED
    BY <2>1 DEF HeaderOf
<1>2. CASE header = NoHeader
  <2> SUFFICES ASSUME h # NoHeader
               PROVE  /\ HeaderEnds(buf) # {}
                      /\ h \in [request : 0..Len(stream), length : Lengths]
                      /\ TruthfulTo(d) =>
                            /\ d < Len(stream)
                            /\ stream[d + 1].header <= Len(buf)
                            /\ h.request = d + 1
                            /\ h.length = stream[d + 1].length
    BY DEF HeaderOf
  <2>1. h \in HttpParse(buf)
    BY <1>2
  <2>2. HeaderEnds(buf) # {} /\ h \in [request : 0..Len(stream), length : Lengths]
    BY <2>1, ParsedHeader
  <2>3. ASSUME TruthfulTo(d)
        PROVE  /\ d < Len(stream)
               /\ stream[d + 1].header <= Len(buf)
               /\ h.request = d + 1
               /\ h.length = stream[d + 1].length
    <3>1. d \in 0..Len(stream) /\ t \in End(d)..Len(sent) /\ buf = Bytes(End(d), t)
      BY <2>3 DEF Aligned
    <3>2. d < Len(stream) /\ stream[d + 1].header <= Len(buf) /\ buf[1] = <<d + 1, 1>>
      BY <2>2, <3>1, ParseFacts
    <3>3. h = [request |-> d + 1, length |-> stream[d + 1].length]
      BY <2>1, <2>2, <3>2 DEF HttpParse, ParseRequest
    <3> QED
      BY <3>2, <3>3
  <2> QED
    BY <2>2, <2>3
<1> QED
  BY <1>1, <1>2

(* The buffer and the header are kept. *)
LEMMA KeepPreserves ==
    ASSUME ConnectionInv, NEW d, d = Len(delivered),
           NEW t \in Nat, t <= Len(sent), d <= t,
           NEW buf, Holds(buf), Aligned(d, t, buf),
           NEW h, HeaderOf(d, buf, h), h = NoHeader => NoHeader \in HttpParse(buf),
           errors' = 0 => errors = 0 /\ (h # NoHeader => ~IsComplete(buf, h)),
           KeepBoth(buf, h), received' = t, errors' \in 0..MaxErrors, closed' \in BOOLEAN,
           UNCHANGED <<stream, pipelining, sent>>
    PROVE  ConnectionInv'
<1>1. Len(stream) \in Nat /\ Len(sent) \in Nat /\ d \in Nat
  BY SizeFacts
<1>2. TypeOK /\ StreamInv /\ RequestsWhole /\ WaitingInv
  BY DEF ConnectionInv
<1>3. buffer' = buf /\ header' = h /\ delivered' = delivered
  BY DEF KeepBoth
<1>4. \A r : End(r)' = End(r)
  BY DEF End
<1>5. End(Len(delivered))' = End(d) /\ End(Len(stream))' = End(Len(stream))
  BY <1>3 DEF End
<1>6. TypeOK'
  <2>1. received' \in 0..Len(sent') /\ Len(delivered') <= received'
    BY <1>1, <1>3
  <2>2. header' \in [request : -1..Len(stream'), length : Lengths \cup {0}]
    <3>1. CASE h = NoHeader
      <4>1. NoHeader \in [request : -1..Len(stream), length : Lengths \cup {0}]
        BY <1>1 DEF NoHeader
      <4> QED
        BY <1>3, <3>1, <4>1
    <3>2. CASE h # NoHeader
      <4>1. 0..Len(stream) \subseteq -1..Len(stream)
        BY <1>1
      <4> QED
        BY <1>3, <3>2, <4>1 DEF HeaderOf
    <3> QED
      BY <3>1, <3>2
  <2> QED
    BY <1>2, <1>3, <2>1, <2>2 DEF TypeOK, Holds
<1>7. StreamInv'
  BY <1>2, <1>4, <1>5 DEF StreamInv
<1>8. Holds(buffer)'
  BY <1>3 DEF Holds
<1>9. Aligned(Len(delivered), received, buffer)'
  BY <1>3, <1>5 DEF Aligned, Bytes, TruthfulTo, Truthful
<1>10. HeaderOf(Len(delivered), buffer, header)'
  BY <1>3 DEF HeaderOf, HeaderEnds, TruthfulTo, Truthful
<1>11. Waits(buffer, header)'
  BY <1>3 DEF Waits, IsComplete, Total, HeaderEnds
<1>12. RequestsWhole'
  BY <1>2, <1>3 DEF RequestsWhole, Content, TruthfulTo, Truthful
<1>13. WaitingInv'
  BY <1>2, <1>3 DEF WaitingInv, TruthfulTo, Truthful, HttpParse, ParseRequest, HeaderEnds
<1> QED
  BY <1>6, <1>7, <1>8, <1>9, <1>10, <1>11, <1>12, <1>13 DEF ConnectionInv

(* The buffer, which holds bytes e + 1 to t of the stream, begins with the   *)
(* whole request r, and Content-Length, in the header h, is true.          *)
BeginsWith(buf, r, e, t, h) ==
    /\ r \in 1..Len(stream) /\ Truthful(r)
    /\ e \in Nat /\ e = stream[r].start
    /\ t \in e..Len(sent) /\ buf = Bytes(e, t)
    /\ h.length = stream[r].length
    /\ HeaderEnds(buf) # {} /\ Min(HeaderEnds(buf)) = stream[r].header
    /\ buf \in Seq(Nat \X Nat) /\ Len(buf) = t - e /\ Len(buf) <= MAX_BUFFER_SIZE
    /\ ~IsTooBig(buf, h) /\ IsComplete(buf, h)

(* It is delivered whole, and what follows it is moved to the front.        *)
LEMMA WholeRequest ==
    ASSUME TypeOK, StreamInv, NEW buf, NEW r, NEW e, NEW t, NEW h,
           BeginsWith(buf, r, e, t, h)
    PROVE  /\ HttpRequest(buf, h).size = stream[r].content
           /\ HttpRequest(buf, h).data = Content(r)
           /\ End(r) <= t
           /\ RestOf(buf, h) = Bytes(End(r), t)
<1>0. /\ r \in 1..Len(stream) /\ Truthful(r)
      /\ e \in Nat /\ e = stream[r].start
      /\ t \in e..Len(sent) /\ buf = Bytes(e, t)
      /\ h.length = stream[r].length
      /\ HeaderEnds(buf) # {} /\ Min(HeaderEnds(buf)) = stream[r].header
      /\ buf \in Seq(Nat \X Nat) /\ Len(buf) = t - e /\ Len(buf) <= MAX_BUFFER_SIZE
      /\ ~IsTooBig(buf, h) /\ IsComplete(buf, h)
  BY DEF BeginsWith
<1>1. PICK k \in Nat, c \in Nat : k = stream[r].header /\ c = stream[r].content
  BY <1>0, RequestFacts
<1>14. e \in Nat
  BY <1>0
<1>15. t \in Nat /\ t \in e..Len(sent) /\ e \in Nat
  BY <1>0, LenProperties DEF TypeOK
<1>2. End(r) = e + k + c /\ h.length = c /\ h.length \in Lengths
  BY <1>0, <1>1, RequestFacts DEF Truthful
<1>3. PICK l \in Nat, z \in Nat : l = Len(sent) /\ z = Len(buf)
  BY <1>0, LenProperties DEF TypeOK
<1>4. PICK m \in Nat : m = k + c
  OBVIOUS
<1>5. Total(buf, h) = m /\ m <= z
  <2>1. Total(buf, h) \in 0..z /\ Total(buf, h) = k + c
    BY <1>0, <1>1, <1>2, <1>3, TotalFacts
  <2> QED
    BY <1>3, <1>4, <2>1
<1>6. z = t - e /\ t \in Nat /\ t <= l
  BY <1>0, <1>3, <1>15
<1>7. t = e + z /\ e + m <= t /\ e + k + c = e + m
  BY ONLY <1>14, <1>15, <1>4, <1>5, <1>6, z \in Nat, m \in Nat, k \in Nat, c \in Nat
<1>8. PICK f \in Nat : f = e + m
  BY <1>0
<1>9. sent \in Seq(Nat \X Nat) /\ buf = Cut(sent, e, t)
  BY <1>0 DEF TypeOK, Bytes, Cut
<1>10. RestOf(buf, h) = Cut(sent, f, t)
  <2>1. z \in m..(t - e)
    BY ONLY <1>5, <1>6, z \in Nat, m \in Nat
  <2>2. SubSeq(Cut(sent, e, t), m + 1, z) = Cut(sent, e + m, e + z)
    BY ONLY <1>9, <1>14, <1>15, <2>1, CutOfCut, m \in Nat
  <2> QED
    BY <1>3, <1>5, <1>7, <1>8, <1>9, <2>2 DEF RestOf
<1>11. HttpRequest(buf, h).size = c /\ HttpRequest(buf, h).data = SubSeq(buf, k + 1, m)
  <2>1. AsSize(h.length) = c
    BY <1>2, SizeOfLength
  <2>2. DataOf(buf, k, c) = SubSeq(buf, k + 1, m)
    <3>3. m <= z
      BY <1>5
    <3>4. k \in 0..z /\ k + c <= z
      BY ONLY <1>4, <3>3, k \in Nat, c \in Nat, z \in Nat, m \in Nat
    <3>5. Len(buf) = z
      BY <1>3
    <3>1. k \in 0..Len(buf) /\ k + c <= Len(buf)
      BY ONLY <3>4, <3>5
    <3>2. DataOf(buf, k, c) = SubSeq(buf, k + 1, k + c)
      <4>1. buf \in Seq(Nat \X Nat)
        BY <1>0
      <4> QED
        BY ONLY <3>1, <4>1, DataBytes, c \in Nat
    <3> QED
      BY <1>4, <3>2
  <2>3. Min(HeaderEnds(buf)) = k
    BY <1>0, <1>1
  <2> QED
    BY <2>1, <2>2, <2>3 DEF HttpRequest
<1>12. SubSeq(buf, k + 1, m) = Content(r)
  <2>1. PICK g \in Nat : g = e + k
    BY <1>0
  <2>2. SubSeq(buf, k + 1, m) = Cut(sent, g, f)
    <3>1. m \in k..(t - e)
      BY ONLY <1>4, <1>5, <1>6, z \in Nat, k \in Nat, c \in Nat, m \in Nat
    <3>2. SubSeq(Cut(sent, e, t), k + 1, m) = Cut(sent, e + k, e + m)
      BY ONLY <1>9, <1>14, <1>15, <3>1, CutOfCut, k \in Nat
    <3> QED
      BY <1>8, <1>9, <2>1, <3>2
  <2>3. f - g = c
    BY ONLY <1>14, <1>15, <1>4, <1>8, <2>1, k \in Nat, c \in Nat
  <2>4. \A i \in 1..c : sent[g + i] = <<r, k + i>>
    <3> SUFFICES ASSUME NEW i \in 1..c PROVE sent[g + i] = <<r, k + i>>
      OBVIOUS
    <3>1. PICK p \in Nat : p = g + i
      OBVIOUS
    <3>2. /\ p \in 1..l /\ e < p /\ p <= e + k + c /\ p - e = k + i
      BY ONLY <1>14, <1>15, <1>4, <1>6, <1>7, <2>1, <3>1, i \in 1..c, c \in Nat, k \in Nat,
              l \in Nat, m \in Nat
    <3>3. sent[p] = <<r, p - e>>
      BY <1>0, <1>2, <1>3, <3>2 DEF StreamInv
    <3> QED
      BY <3>1, <3>2, <3>3
  <2>5. Cut(sent, g, f) = [i \in 1..c |-> sent[g + i]]
    BY <2>3 DEF Cut
  <2>6. [i \in 1..c |-> sent[g + i]] = [i \in 1..c |-> <<r, k + i>>]
    BY <2>4
  <2> QED
    BY <1>1, <2>2, <2>5, <2>6 DEF Content
<1>13. End(r) = f /\ f <= t
  BY <1>2, <1>7, <1>8
<1> QED
  BY <1>1, <1>10, <1>11, <1>12, <1>13 DEF Bytes, Cut

LEMMA DeliverPreserves ==
    ASSUME ConnectionInv, NEW d, d = Len(delivered),
           NEW t \in Nat, t <= Len(sent), d + 1 <= t,
           NEW buf, Holds(buf), Aligned(d, t, buf),
           NEW h, h # NoHeader, HeaderOf(d, buf, h),
           ~IsTooBig(buf, h), IsComplete(buf, h),
           Deliver(buf, h), received' = t, errors' = errors, closed' \in BOOLEAN,
           UNCHANGED <<stream, pipelining, sent>>
    PROVE  ConnectionInv'
<1>1. Len(stream) \in Nat /\ Len(sent) \in Nat /\ d \in Nat
  BY SizeFacts
<1>2. TypeOK /\ StreamInv /\ RequestsWhole /\ WaitingInv
  BY DEF ConnectionInv
<1>3. /\ buf \in Seq(Nat \X Nat) /\ Len(buf) <= MAX_BUFFER_SIZE
      /\ \A i \in 1..Len(buf) : buf[i][1] \in 1..Len(stream)
      /\ Len(buf) \in Nat
  BY LenProperties DEF Holds
<1>4. HeaderEnds(buf) # {} /\ h.request \in 0..Len(stream) /\ h.length \in Lengths
  BY DEF HeaderOf
<1>5. PICK b, q : b = RestOf(buf, h) /\ q = HttpRequest(buf, h)
  OBVIOUS
<1>6. /\ buffer' = b /\ header' = NoHeader /\ delivered' = Append(delivered, q)
  BY <1>5 DEF Deliver
<1>7. PICK m \in 0..Len(buf) : m = Total(buf, h)
  BY <1>3, <1>4, TotalFacts
<1>8. /\ b \in Seq(Nat \X Nat) /\ Len(b) = Len(buf) - m
      /\ \A i \in 1..(Len(buf) - m) : b[i] = buf[m + i]
  <2>1. b = SubSeq(buf, m + 1, Len(buf))
    BY <1>5, <1>7 DEF RestOf
  <2> QED
    BY <1>3, <2>1, RestBytes
<1>9. q \in [header : Nat, size : Nat, data : Seq(Nat \X Nat)]
  <2>1. PICK k \in 0..Len(buf) : k = Min(HeaderEnds(buf))
    BY <1>3, <1>4, BlankLine
  <2>2. AsSize(h.length) \in Nat
    BY <1>4, SizeOfLength
  <2>3. DataOf(buf, k, AsSize(h.length)) \in Seq(Nat \X Nat)
    BY <1>3, <2>2, DataBytes
  <2>4. h.request \in Nat
    BY <1>1, <1>4
  <2> QED
    BY <1>5, <2>1, <2>2, <2>3, <2>4 DEF HttpRequest
<1>10. /\ delivered' \in Seq([header : Nat, size : Nat, data : Seq(Nat \X Nat)])
       /\ Len(delivered') = d + 1
       /\ \A i \in 1..d : delivered'[i] = delivered[i]
       /\ delivered'[d + 1] = q
  <2>1. delivered \in Seq([header : Nat, size : Nat, data : Seq(Nat \X Nat)])
    BY <1>2 DEF TypeOK
  <2> QED
    BY <1>6, <1>9, <2>1, AppendProperties
<1>11. Len(b) <= MAX_BUFFER_SIZE
  <2>1. MAX_BUFFER_SIZE \in Nat
    BY ConnectionAssumption
  <2> QED
    BY <1>3, <1>8, <2>1
<1>12. TypeOK'
  <2>1. received' \in 0..Len(sent') /\ Len(delivered') <= received'
    BY <1>1, <1>10
  <2>2. NoHeader \in [request : -1..Len(stream), length : Lengths \cup {0}]
    BY <1>1 DEF NoHeader
  <2> QED
    BY <1>2, <1>6, <1>8, <1>10, <1>11, <2>1, <2>2 DEF TypeOK
<1>13. \A r : End(r)' = End(r)
  BY DEF End
<1>14. StreamInv'
  <2>1. End(Len(stream))' = End(Len(stream))
    BY DEF End
  <2> QED
    BY <1>2, <1>13, <2>1 DEF StreamInv
<1>15. Holds(buffer)'
  <2>1. ASSUME NEW i \in 1..Len(b) PROVE b[i][1] \in 1..Len(stream)
    <3>1. PICK z \in Nat : z = Len(buf)
      BY <1>3
    <3>2. m \in 0..z /\ i \in 1..(z - m)
      BY <1>8, <3>1
    <3>3. m + i \in 1..z
      BY ONLY <3>2, z \in Nat
    <3>4. b[i] = buf[m + i]
      BY <1>8, <3>1, <3>2
    <3> QED
      BY <1>3, <3>1, <3>3, <3>4
  <2> QED
    BY <1>6, <1>8, <1>11, <2>1 DEF Holds
<1>16. ASSUME TruthfulTo(d)
       PROVE  /\ d \in 0..Len(stream) /\ t \in End(d)..Len(sent) /\ buf = Bytes(End(d), t)
              /\ Len(buf) = t - End(d) /\ End(d) \in Nat
              /\ d + 1 \in 1..Len(stream)
              /\ Min(HeaderEnds(buf)) = stream[d + 1].header
              /\ stream[d + 1].start = End(d)
              /\ h.request = d + 1 /\ h.length = stream[d + 1].length
  <2>1. d \in 0..Len(stream) /\ t \in End(d)..Len(sent) /\ buf = Bytes(End(d), t)
    BY <1>16 DEF Aligned
  <2>2. d < Len(stream) /\ h.request = d + 1 /\ h.length = stream[d + 1].length
    BY <1>16 DEF HeaderOf
  <2>3. d + 1 \in 1..Len(stream)
    BY <1>1, <2>2
  <2>4. stream[d + 1].start = End(d)
    <3>1. stream[d + 1].start = End(d + 1 - 1) /\ d + 1 - 1 = d
      BY <1>1, <1>2, <2>3 DEF StreamInv
    <3> QED
      BY <3>1
  <2>5. Min(HeaderEnds(buf)) = stream[d + 1].header
    BY <1>2, <1>4, <2>1, ParseFacts
  <2>6. Len(buf) = t - End(d) /\ End(d) \in Nat
    BY <1>2, <2>1, BufferFacts, EndFacts
  <2> QED
    BY <2>1, <2>2, <2>3, <2>4, <2>5, <2>6
<1>17. ASSUME TruthfulTo(d), Truthful(d + 1)
       PROVE  /\ q.size = stream[d + 1].content /\ q.data = Content(d + 1)
              /\ End(d + 1) <= t
              /\ b = Bytes(End(d + 1), t)
  <2>1. PICK e \in Nat : e = End(d)
    BY <1>16, <1>17
  <2>2. BeginsWith(buf, d + 1, e, t, h)
    BY <1>3, <1>4, <1>16, <1>17, <2>1 DEF BeginsWith
  <2>3. PICK r : r = d + 1
    OBVIOUS
  <2>4. /\ HttpRequest(buf, h).size = stream[r].content
        /\ HttpRequest(buf, h).data = Content(r)
        /\ End(r) <= t
        /\ RestOf(buf, h) = Bytes(End(r), t)
    <3>1. BeginsWith(buf, r, e, t, h)
      BY <2>2, <2>3
    <3> QED
      BY ONLY <1>2, <3>1, WholeRequest
  <2> QED
    BY <1>5, <2>3, <2>4
<1>18. TruthfulTo(d + 1) => TruthfulTo(d) /\ (d < Len(stream) => Truthful(d + 1))
  <2> SUFFICES ASSUME TruthfulTo(d + 1)
               PROVE  TruthfulTo(d) /\ (d < Len(stream) => Truthful(d + 1))
    OBVIOUS
  <2>1. 1..d \subseteq 1..(d + 1) /\ d + 1 \in 1..(d + 1)
    BY <1>1
  <2>2. d < Len(stream) => d + 1 <= Len(stream)
    BY <1>1
  <2> QED
    BY <2>1, <2>2 DEF TruthfulTo
<1>19. ASSUME TruthfulTo(d + 1)
       PROVE  /\ d + 1 \in 0..Len(stream)
              /\ t \in End(d + 1)..Len(sent)
              /\ b = Bytes(End(d + 1), t)
  <2>1. TruthfulTo(d) /\ d + 1 \in 1..Len(stream)
    BY <1>16, <1>18, <1>19
  <2>2. Truthful(d + 1)
    BY <1>1, <1>18, <1>19, <2>1
  <2>3. End(d + 1) <= t /\ b = Bytes(End(d + 1), t)
    BY <1>17, <2>1, <2>2
  <2>4. End(d + 1) \in Nat
    BY <1>2, <2>1, RequestFacts
  <2>5. t \in End(d + 1)..Len(sent) /\ d + 1 \in 0..Len(stream)
    BY <1>1, <2>1, <2>3, <2>4
  <2> QED
    BY <2>3, <2>5
<1>20. TruthfulTo(Len(delivered))' <=> TruthfulTo(d + 1)
  BY <1>10 DEF TruthfulTo, Truthful
<1>21. Aligned(Len(delivered), received, buffer)'
  <2>1. End(Len(delivered))' = End(d + 1)
    BY <1>10 DEF End
  <2> QED
    BY <1>6, <1>10, <1>19, <1>20, <2>1 DEF Aligned, Bytes
<1>22. HeaderOf(Len(delivered), buffer, header)' /\ Waits(buffer, header)'
  BY <1>6 DEF HeaderOf, Waits
<1>23. WaitingInv'
  <2> SUFFICES ASSUME ~pipelining, errors = 0, TruthfulTo(d + 1)
               PROVE  Len(stream) <= d + 1 + 1 /\ NoHeader \in HttpParse(b)
    BY <1>6, <1>10, <1>20 DEF WaitingInv, HttpParse, ParseRequest, HeaderEnds
  <2>1. Len(stream) <= d + 1
    BY <1>2, <1>18 DEF WaitingInv
  <2>2. PICK g \in 0..Len(stream) : g = d + 1
    BY <1>19
  <2>3. t \in End(g)..Len(sent) /\ b = Bytes(End(g), t)
    BY <1>19, <2>2
  <2>4. ~(g < Len(stream))
    BY <1>1, <2>1, <2>2
  <2>5. HeaderEnds(b) = {}
    BY <1>2, <2>3, <2>4, ParseFacts
  <2> QED
    BY <1>1, <2>1, <2>5 DEF HttpParse
<1>24. RequestsWhole'
  <2> SUFFICES ASSUME NEW i \in 1..(d + 1), TruthfulTo(i - 1)
               PROVE  /\ i <= Len(stream)
                      /\ delivered'[i].header = i
                      /\ Truthful(i) => /\ delivered'[i].size = stream[i].content
                                        /\ delivered'[i].data = Content(i)
    <3> SUFFICES ASSUME NEW i \in 1..(d + 1), TruthfulTo(i - 1)'
                 PROVE  /\ i <= Len(stream)
                        /\ delivered'[i].header = i
                        /\ Truthful(i)' => /\ delivered'[i].size = stream[i].content
                                           /\ delivered'[i].data = Content(i)'
      BY <1>10 DEF RequestsWhole
    <3>1. TruthfulTo(i - 1)
      BY DEF TruthfulTo, Truthful
    <3>2. (Truthful(i)' <=> Truthful(i)) /\ Content(i)' = Content(i)
      BY DEF Truthful, Content
    <3> QED
      BY <3>1, <3>2
  <2>1. CASE i \in 1..d
    BY <1>2, <1>10, <2>1 DEF RequestsWhole
  <2>2. CASE i = d + 1
    <3>1. i - 1 = d
      BY <1>1, <2>2
    <3>2. d + 1 \in 1..Len(stream) /\ h.request = d + 1
      BY <1>16, <3>1
    <3>3. q.header = h.request
      BY <1>5 DEF HttpRequest
    <3>4. Truthful(d + 1) => q.size = stream[d + 1].content /\ q.data = Content(d + 1)
      BY <1>17, <3>1
    <3>5. d + 1 <= Len(stream)
      BY <1>1, <3>2
    <3> QED
      BY <1>10, <2>2, <3>2, <3>3, <3>4, <3>5
  <2> QED
    BY <1>1, <2>1, <2>2
<1> QED
  BY <1>12, <1>14, <1>15, <1>21, <1>22, <1>23, <1>24 DEF ConnectionInv

LEMMA ReadPreserves ==
    ASSUME ConnectionInv, NEW n \in 1..MAX_BUFFER_SIZE, HcRead(n)
    PROVE  ConnectionInv'
<1>1. PICK d, t, buf : /\ d = Len(delivered) /\ t = received + n
                       /\ buf = buffer \o Bytes(received, received + n)
  OBVIOUS
<1>2. PICK h \in IF header = NoHeader THEN HttpParse(buf) ELSE {header} :
        IF h = NoHeader THEN KeepBoth(buf, h) /\ UNCHANGED <<errors, closed>>
                        ELSE HcProcess(buf, h)
  BY <1>1 DEF HcRead
<1>3. /\ n <= Space /\ received + n <= Len(sent) /\ received' = t
      /\ UNCHANGED <<stream, pipelining, sent>>
  BY <1>1 DEF HcRead, clientVars
<1>4. /\ d \in Nat /\ t \in Nat /\ t <= Len(sent) /\ d + 1 <= t
      /\ Holds(buf) /\ Aligned(d, t, buf) /\ HeaderOf(d, buf, header)
  <2>1. Receives(n, d, t, buf)
    BY <1>1, <1>3 DEF Receives
  <2> QED
    BY ONLY <2>1, ReadFacts, ConnectionInv
<1>5. TypeOK /\ StreamInv
  BY DEF ConnectionInv
<1>6. HeaderOf(d, buf, h)
  BY <1>2, <1>4, <1>5, HeaderFacts
<1>7. errors \in 0..MaxErrors /\ closed \in BOOLEAN /\ d <= t
  BY <1>4, <1>5 DEF TypeOK
<1>8. CASE h = NoHeader
  <2>1. KeepBoth(buf, h) /\ errors' = errors /\ closed' = closed
    BY <1>2, <1>8
  <2>2. NoHeader \in HttpParse(buf)
    BY <1>2, <1>8
  <2> QED
    BY <1>1, <1>3, <1>4, <1>6, <1>7, <1>8, <2>1, <2>2, KeepPreserves
<1>9. CASE h # NoHeader /\ IsTooBig(buf, h)
  <2>1. /\ KeepBoth(buf, h) /\ closed' \in BOOLEAN
        /\ errors' = IF errors < MaxErrors THEN errors + 1 ELSE errors
    BY <1>2, <1>9 DEF HcProcess, Answered
  <2>2. errors' \in 0..MaxErrors /\ errors' # 0
    <3>1. MaxErrors \in Nat \ {0}
      BY ConnectionAssumption
    <3> QED
      BY <1>7, <2>1, <3>1
  <2> QED
    BY <1>1, <1>3, <1>4, <1>6, <1>7, <1>9, <2>1, <2>2, KeepPreserves
<1>10. CASE h # NoHeader /\ ~IsTooBig(buf, h) /\ IsComplete(buf, h)
  <2>1. Deliver(buf, h) /\ closed' \in BOOLEAN /\ errors' = errors
    BY <1>2, <1>10 DEF HcProcess, Answered
  <2> QED
    BY <1>1, <1>3, <1>4, <1>6, <1>10, <2>1, DeliverPreserves
<1>11. CASE h # NoHeader /\ ~IsTooBig(buf, h) /\ ~IsComplete(buf, h)
  <2>1. KeepBoth(buf, h) /\ errors' = errors /\ closed' = closed
    BY <1>2, <1>11 DEF HcProcess
  <2> QED
    BY <1>1, <1>3, <1>4, <1>6, <1>7, <1>11, <2>1, KeepPreserves
<1> QED
  BY <1>8, <1>9, <1>10, <1>11

LEMMA InvNext == ConnectionInv /\ [Next]_vars => ConnectionInv'
<1> SUFFICES ASSUME ConnectionInv, [Next]_vars PROVE ConnectionInv'
  OBVIOUS
<1>1. CASE ClientBegins
  BY <1>1, BeginsPreserves
<1>2. CASE ClientSends
  BY <1>2, SendsPreserves
<1>3. CASE Close
  BY <1>3, ClosedPreserves DEF Close, clientVars
<1>4. CASE Read
  <2>1. PICK n \in 1..MAX_BUFFER_SIZE : HcRead(n)
    BY <1>4 DEF Read
  <2> QED
    BY <2>1, ReadPreserves
<1>5. CASE HcReadFull
  BY <1>5, ClosedPreserves DEF HcReadFull, clientVars
<1>6. CASE UNCHANGED vars
  <2>1. closed' \in BOOLEAN
    BY <1>6 DEF ConnectionInv, TypeOK, vars, connVars
  <2> QED
    BY <1>6, <2>1, ClosedPreserves DEF vars, clientVars, connVars
<1> QED
  BY <1>1, <1>2, <1>3, <1>4, <1>5, <1>6 DEF Next

LEMMA ConnectionAlwaysInv == Spec => []ConnectionInv
<1> QED
  BY InvInit, InvNext, PTL DEF Spec

-----------------------------------------------------------------------------
(* Theorems *)

(* The connection is type correct and its buffer never overflows, for       *)
(* requests and buffers of any size and whatever Content-Length says        *)
(* (hc_read, http_server.c).                                               *)
THEOREM ConnectionTypeCorrect == Spec => []TypeOK
<1>1. ConnectionInv => TypeOK
  BY DEF ConnectionInv
<1> QED
  BY <1>1, ConnectionAlwaysInv, PTL

(* However the network cuts the stream, and whatever was sent too early,     *)
(* hc_process hands over the requests whole, each once and in order, up to  *)
(* the first whose Content-Length is not true.                             *)
THEOREM RequestsAlwaysWhole == Spec => []RequestsWhole
<1>1. ConnectionInv => RequestsWhole
  BY DEF ConnectionInv
<1> QED
  BY <1>1, ConnectionAlwaysInv, PTL

(* What hc_process leaves in the buffer starts with a request, as long as it *)
(* has delivered none whose Content-Length is not true.                    *)
THEOREM BufferAlwaysAligned == Spec => []BufferAligned
<1>1. ConnectionInv => BufferAligned
  BY DEF ConnectionInv, Aligned, BufferAligned
<1> QED
  BY <1>1, ConnectionAlwaysInv, PTL

(* No request of a client that waits for its answers that hc_process would   *)
(* take lies in the buffer of hc_read until more data comes.               *)
THEOREM NoRequestEverStuck == Spec => []NoRequestStuck
<1>1. ConnectionInv => NoRequestStuck
  BY DEF ConnectionInv, Waits, WaitingInv, NoRequestStuck
<1> QED
  BY <1>1, ConnectionAlwaysInv, PTL

=============================================================================
