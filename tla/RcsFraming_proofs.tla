------------------------- MODULE RcsFraming_proofs -------------------------
(* The receiving thread of an RCS connection finds the requests RCS has sent,  *)
(* and only those, for every set of requests and however the stream is cut.    *)
(*                                                                             *)
(* The argument: what the thread holds and what is on its way are windows into *)
(* the bytes of all requests sent.  At the start of a frame decoding finds     *)
(* that frame; anywhere else it finds a request only where a sync byte and the *)
(* protocol version follow each other, and that is the start of a frame too.   *)
EXTENDS RcsFraming, SequenceFacts

Byte == 0..255
Size(kind) == HEADER_SIZE + Len(kind.body)
End(requests, n) == Len(Stream(requests, n))

Requests == {q \in Seq(Kinds) : Len(q) <= MAX_SENT}

-----------------------------------------------------------------------------
(* The bytes of the requests *)

LEMMA KindType ==
  ASSUME NEW kind \in Kinds
  PROVE  /\ kind.version \in Byte /\ kind.body \in Seq(Byte) /\ Len(kind.body) \in Byte
         /\ kind.version # MAGIC /\ Len(kind.body) < MAGIC
         /\ \A i \in 1..Len(kind.body) : kind.body[i] # PROTOCOL_VERSION
         /\ Size(kind) \in Nat /\ Size(kind) = 4 + Len(kind.body)
<1>1. kind \in [version : Byte, body : Seq(Byte)]
  BY KindAssumption DEF Byte
<1>2. kind.version \in Byte /\ kind.body \in Seq(Byte)
  BY <1>1
<1>3. /\ kind.version # MAGIC /\ Len(kind.body) < MAGIC
      /\ \A i \in DOMAIN kind.body : kind.body[i] # PROTOCOL_VERSION
  BY KindAssumption
<1>4. Len(kind.body) \in Nat /\ DOMAIN kind.body = 1..Len(kind.body)
  BY <1>2
<1>5. Len(kind.body) \in Byte
  <2> DEFINE l == Len(kind.body)
  <2>1. l \in Nat /\ l < MAGIC
    BY <1>3, <1>4
  <2> HIDE DEF l
  <2>2. l \in Byte
    BY <2>1 DEF Byte, MAGIC
  <2> QED
    BY <2>2 DEF l
<1>6. Size(kind) = 4 + Len(kind.body) /\ Size(kind) \in Nat
  BY <1>4 DEF Size, HEADER_SIZE
<1> QED
  BY <1>2, <1>3, <1>4, <1>5, <1>6

LEMMA Joined ==
  ASSUME NEW s \in Seq(Byte), NEW t \in Seq(Byte)
  PROVE  /\ s \o t \in Seq(Byte) /\ Len(s \o t) = Len(s) + Len(t)
         /\ Len(s) \in Nat /\ Len(t) \in Nat
         /\ \A i \in 1..Len(s) : (s \o t)[i] = s[i]
         /\ \A i \in 1..Len(t) : (s \o t)[Len(s) + i] = t[i]
  OBVIOUS

LEMMA EncodedBytes ==
  ASSUME NEW n \in Byte, NEW kind \in Kinds
  PROVE  /\ Encoded(n, kind) \in Seq(Byte) /\ Len(Encoded(n, kind)) = Size(kind)
         /\ Encoded(n, kind)[1] = MAGIC /\ Encoded(n, kind)[2] = kind.version
         /\ Encoded(n, kind)[3] = n /\ Encoded(n, kind)[4] = Len(kind.body)
         /\ \A i \in 1..Len(kind.body) : Encoded(n, kind)[4 + i] = kind.body[i]
<1> DEFINE header == <<MAGIC, kind.version, n, Len(kind.body)>>
           body == kind.body
<1>1. /\ header \in Seq(Byte) /\ Len(header) = 4
      /\ header[1] = MAGIC /\ header[2] = kind.version /\ header[3] = n
      /\ header[4] = Len(kind.body)
  <2> DEFINE v == kind.version
             l == Len(kind.body)
  <2>1. v \in Byte /\ l \in Byte /\ MAGIC \in Byte /\ n \in Byte
    BY KindType DEF Byte, MAGIC
  <2> HIDE DEF v, l
  <2>2. /\ <<MAGIC, v, n, l>> \in Seq(Byte) /\ Len(<<MAGIC, v, n, l>>) = 4
        /\ <<MAGIC, v, n, l>>[1] = MAGIC /\ <<MAGIC, v, n, l>>[2] = v
        /\ <<MAGIC, v, n, l>>[3] = n /\ <<MAGIC, v, n, l>>[4] = l
    BY <2>1
  <2> QED
    BY <2>2 DEF v, l
<1>2. body \in Seq(Byte) /\ Size(kind) = 4 + Len(body)
  BY KindType
<1>3. Encoded(n, kind) = header \o body
  BY DEF Encoded
<1> HIDE DEF header, body
<1>4. /\ header \o body \in Seq(Byte) /\ Len(header \o body) = 4 + Len(body)
      /\ \A i \in 1..4 : (header \o body)[i] = header[i]
      /\ \A i \in 1..Len(body) : (header \o body)[4 + i] = body[i]
  <2>1. header \in Seq(Byte) /\ body \in Seq(Byte) /\ Len(header) = 4
    BY <1>1, <1>2
  <2>2. header \o body \in Seq(Byte) /\ Len(header \o body) = Len(header) + Len(body)
    BY <2>1, Joined
  <2>3. \A i \in 1..Len(header) : (header \o body)[i] = header[i]
    BY <2>1, Joined
  <2>4. \A i \in 1..Len(body) : (header \o body)[Len(header) + i] = body[i]
    BY <2>1, Joined
  <2> QED
    BY <2>1, <2>2, <2>3, <2>4
<1>5. \A i \in 1..4 : Encoded(n, kind)[i] = header[i]
  BY <1>3, <1>4
<1>6. /\ Encoded(n, kind)[1] = MAGIC /\ Encoded(n, kind)[2] = kind.version
      /\ Encoded(n, kind)[3] = n /\ Encoded(n, kind)[4] = Len(kind.body)
  BY <1>1, <1>5
<1>7. \A i \in 1..Len(kind.body) : Encoded(n, kind)[4 + i] = kind.body[i]
  BY <1>3, <1>4 DEF body
<1> QED
  BY <1>2, <1>3, <1>4, <1>6, <1>7

LEMMA RequestAt ==
  ASSUME NEW q \in Requests, NEW n \in 1..Len(q)
  PROVE  /\ q[n] \in Kinds /\ n \in Byte /\ n < MAGIC /\ Len(q) \in Nat
         /\ Size(q[n]) \in Nat /\ Size(q[n]) = 4 + Len(q[n].body)
<1>1. q \in Seq(Kinds) /\ Len(q) <= MAX_SENT
  BY DEF Requests
<1>2. q[n] \in Kinds /\ Len(q) \in Nat /\ n <= MAX_SENT
  BY <1>1, BoundAssumption
<1> QED
  BY <1>2, BoundAssumption, KindType DEF Byte, MAGIC

LEMMA StreamGrows ==
  ASSUME NEW q \in Requests, NEW n \in Nat, n + 1 <= Len(q)
  PROVE  /\ Stream(q, n) \in Seq(Byte)
         /\ Encoded(n + 1, q[n + 1]) \in Seq(Byte)
         /\ Stream(q, n + 1) = Stream(q, n) \o Encoded(n + 1, q[n + 1])
<1> DEFINE rows(m) == [i \in 1..m |-> Encoded(i, q[i])]
<1>1. \A i \in 1..(n + 1) : Encoded(i, q[i]) \in Seq(Byte)
  <2> TAKE i \in 1..(n + 1)
  <2>1. Len(q) \in Nat /\ i \in 1..Len(q)
    BY DEF Requests
  <2> QED
    BY <2>1, RequestAt, EncodedBytes
<1>2. rows(n) \in Seq(Seq(Byte)) /\ rows(n + 1) = Append(rows(n), Encoded(n + 1, q[n + 1]))
  <2> DEFINE e(i) == Encoded(i, q[i])
  <2>1. \A i \in 1..(n + 1) : e(i) \in Seq(Byte)
    BY <1>1
  <2> HIDE DEF e
  <2>2. /\ [i \in 1..n |-> e(i)] \in Seq(Seq(Byte))
        /\ [i \in 1..(n + 1) |-> e(i)] = Append([i \in 1..n |-> e(i)], e(n + 1))
    BY <2>1
  <2> QED
    BY <2>2 DEF e
<1> DEFINE r == rows(n)
           s == Encoded(n + 1, q[n + 1])
<1>3. r \in Seq(Seq(Byte)) /\ s \in Seq(Byte) /\ rows(n + 1) = Append(r, s)
  BY <1>1, <1>2
<1>4. Stream(q, n) = FlattenSeq(r) /\ Stream(q, n + 1) = FlattenSeq(rows(n + 1))
  BY DEF Stream
<1> HIDE DEF r, s, rows
<1>5. FlattenSeq(r) \in Seq(Byte) /\ FlattenSeq(Append(r, s)) = FlattenSeq(r) \o s
  BY <1>3, FlattenType, FlattenAppend
<1> QED
  BY <1>3, <1>4, <1>5 DEF s

LEMMA StreamOfNothing == \A q : Stream(q, 0) = <<>>
<1> TAKE q
<1>1. [i \in 1..0 |-> Encoded(i, q[i])] = <<>>
  OBVIOUS
<1> QED
  BY <1>1, FlattenNothing DEF Stream

LEMMA StreamEnds ==
  ASSUME NEW q \in Requests
  PROVE  /\ \A n \in 0..Len(q) : Stream(q, n) \in Seq(Byte) /\ End(q, n) \in Nat
         /\ End(q, 0) = 0
         /\ \A n \in 1..Len(q) : End(q, n) = End(q, n - 1) + Size(q[n])
<1>1. Len(q) \in Nat
  BY DEF Requests
<1>2. Stream(q, 0) \in Seq(Byte) /\ End(q, 0) = 0
  <2>1. <<>> \in Seq(Byte) /\ Len(<<>>) = 0
    OBVIOUS
  <2>2. Stream(q, 0) = <<>>
    BY StreamOfNothing
  <2> QED
    BY <2>1, <2>2 DEF End
<1>3. ASSUME NEW n \in 1..Len(q)
      PROVE  Stream(q, n) \in Seq(Byte) /\ End(q, n) = End(q, n - 1) + Size(q[n])
  <2> DEFINE m == n - 1
             s == Stream(q, m)
             e == Encoded(m + 1, q[m + 1])
  <2>1. m \in Nat /\ m + 1 <= Len(q) /\ m + 1 = n
    BY <1>1
  <2>2. s \in Seq(Byte) /\ e \in Seq(Byte) /\ Stream(q, n) = s \o e
    BY <2>1, StreamGrows
  <2>3. Len(e) = Size(q[n])
    BY <2>1, RequestAt, EncodedBytes
  <2> HIDE DEF s, e
  <2>4. s \o e \in Seq(Byte) /\ Len(s \o e) = Len(s) + Len(e)
    BY <2>2, Joined
  <2> QED
    BY <2>2, <2>3, <2>4 DEF End, s
<1>4. \A n \in 0..Len(q) : Stream(q, n) \in Seq(Byte)
  BY <1>1, <1>2, <1>3
<1> QED
  BY <1>2, <1>3, <1>4 DEF End

(* The frames stand one after the other, without gaps. *)

LEMMA EndsGrow ==
  ASSUME NEW q \in Requests
  PROVE  \A m, n \in 0..Len(q) : m <= n => End(q, m) <= End(q, n)
<1> DEFINE T == {d \in Nat : \A m \in 0..Len(q) :
                   m + d <= Len(q) => End(q, m) <= End(q, m + d)}
<1>1. Len(q) \in Nat
  BY DEF Requests
<1>2. 0 \in T
  BY <1>1, StreamEnds
<1>3. ASSUME NEW d \in Nat, d \in T
      PROVE  d + 1 \in T
  <2> SUFFICES ASSUME NEW m \in 0..Len(q), m + (d + 1) <= Len(q)
               PROVE  End(q, m) <= End(q, m + (d + 1))
    OBVIOUS
  <2> DEFINE n == m + (d + 1)
  <2>1. n \in 1..Len(q) /\ n - 1 \in 0..Len(q) /\ n - 1 = m + d
    BY <1>1
  <2> HIDE DEF n
  <2>2. End(q, m) <= End(q, n - 1)
    BY <1>1, <1>3, <2>1
  <2>3. End(q, n) = End(q, n - 1) + Size(q[n]) /\ Size(q[n]) \in Nat
    BY <2>1, StreamEnds, RequestAt
  <2>4. End(q, m) \in Nat /\ End(q, n - 1) \in Nat
    BY <2>1, StreamEnds
  <2> QED
    BY <2>2, <2>3, <2>4 DEF n
<1> HIDE DEF T
<1>4. \A d \in Nat : d \in T
  BY ONLY <1>2, <1>3, SetInduction
<1>5. ASSUME NEW m \in 0..Len(q), NEW n \in 0..Len(q), m <= n
      PROVE  End(q, m) <= End(q, n)
  <2>1. n - m \in Nat /\ m + (n - m) = n
    BY <1>1, <1>5
  <2>2. n - m \in T
    BY <1>4, <2>1
  <2>3. m + (n - m) <= Len(q) => End(q, m) <= End(q, m + (n - m))
    BY <2>2 DEF T
  <2> QED
    BY <1>1, <2>1, <2>3
<1> QED
  BY <1>5

LEMMA FramesInStream ==
  ASSUME NEW q \in Requests, NEW m \in 0..Len(q)
  PROVE  /\ \A n \in 1..m : \A i \in 1..Size(q[n]) :
              /\ End(q, n - 1) + i \in 1..End(q, m)
              /\ Stream(q, m)[End(q, n - 1) + i] = Encoded(n, q[n])[i]
         /\ \A p \in 1..End(q, m) : \E n \in 1..m : \E i \in 1..Size(q[n]) :
              p = End(q, n - 1) + i
<1> DEFINE In(n, l) == \A i \in 1..Size(q[n]) :
                         /\ End(q, n - 1) + i \in 1..End(q, l)
                         /\ Stream(q, l)[End(q, n - 1) + i] = Encoded(n, q[n])[i]
           Met(p, l) == \E n \in 1..l : \E i \in 1..Size(q[n]) : p = End(q, n - 1) + i
           T == {l \in Nat : l <= Len(q) => /\ \A n \in 1..l : In(n, l)
                                            /\ \A p \in 1..End(q, l) : Met(p, l)}
<1> HIDE DEF In, Met
<1>1. Len(q) \in Nat
  BY DEF Requests
<1>2. 0 \in T
  <2>1. End(q, 0) = 0
    BY StreamEnds
  <2>2. 1..0 = {} /\ 1..End(q, 0) = {}
    BY <2>1
  <2> QED
    BY <2>2
<1>3. ASSUME NEW l \in Nat, l \in T
      PROVE  l + 1 \in T
  <2> SUFFICES ASSUME l + 1 <= Len(q)
               PROVE  /\ \A n \in 1..(l + 1) : In(n, l + 1)
                      /\ \A p \in 1..End(q, l + 1) : Met(p, l + 1)
    OBVIOUS
  <2>1. l \in 0..Len(q) /\ l + 1 \in 1..Len(q) /\ (l + 1) - 1 = l
    BY <1>1
  <2>2. (\A n \in 1..l : In(n, l)) /\ (\A p \in 1..End(q, l) : Met(p, l))
    BY <1>1, <1>3, <2>1
  <2> DEFINE s == Stream(q, l)
             e == Encoded(l + 1, q[l + 1])
             k == Size(q[l + 1])
  <2>3. /\ s \in Seq(Byte) /\ e \in Seq(Byte) /\ Len(e) = k /\ Len(s) = End(q, l)
        /\ Stream(q, l + 1) = s \o e
    <3>1. /\ s \in Seq(Byte) /\ e \in Seq(Byte) /\ Stream(q, l + 1) = s \o e
      BY <2>1, StreamGrows
    <3>2. Len(e) = k
      BY <2>1, RequestAt, EncodedBytes
    <3> QED
      BY <3>1, <3>2 DEF End
  <2>4. End(q, l + 1) = End(q, l) + k /\ End(q, l) \in Nat /\ k \in Nat
    <3>1. End(q, l + 1) = End(q, (l + 1) - 1) + Size(q[l + 1])
      BY <2>1, StreamEnds
    <3>2. End(q, l) \in Nat /\ k \in Nat
      BY <2>1, StreamEnds, RequestAt
    <3> QED
      BY <2>1, <3>1, <3>2
  <2> HIDE DEF s, e, k
  <2>5. /\ \A j \in 1..End(q, l) : Stream(q, l + 1)[j] = s[j]
        /\ \A i \in 1..k : Stream(q, l + 1)[End(q, l) + i] = e[i]
    <3>1. \A j \in 1..Len(s) : (s \o e)[j] = s[j]
      BY <2>3, Joined
    <3>2. \A i \in 1..Len(e) : (s \o e)[Len(s) + i] = e[i]
      BY <2>3, Joined
    <3> QED
      BY <2>3, <3>1, <3>2
  <2>6. ASSUME NEW n \in 1..l
        PROVE  In(n, l + 1)
    <3>1. SUFFICES ASSUME NEW i \in 1..Size(q[n])
                   PROVE  /\ End(q, n - 1) + i \in 1..End(q, l + 1)
                          /\ Stream(q, l + 1)[End(q, n - 1) + i] = Encoded(n, q[n])[i]
      BY DEF In
    <3>2. /\ End(q, n - 1) + i \in 1..End(q, l)
          /\ Stream(q, l)[End(q, n - 1) + i] = Encoded(n, q[n])[i]
      BY <2>2, <2>6 DEF In
    <3>3. End(q, n - 1) + i \in 1..End(q, l + 1)
      BY <2>4, <3>2
    <3> QED
      BY <2>5, <3>2, <3>3 DEF s
  <2>7. In(l + 1, l + 1)
    <3>1. \A i \in 1..k : /\ End(q, l) + i \in 1..End(q, l + 1)
                          /\ Stream(q, l + 1)[End(q, l) + i] = e[i]
      BY <2>4, <2>5
    <3> QED
      BY <2>1, <3>1 DEF k, e, In
  <2>8. \A n \in 1..(l + 1) : n \in 1..l \/ n = l + 1
    OBVIOUS
  <2>9. ASSUME NEW p \in 1..End(q, l + 1)
        PROVE  Met(p, l + 1)
    <3>1. CASE p \in 1..End(q, l)
      <4>1. PICK n \in 1..l : \E i \in 1..Size(q[n]) : p = End(q, n - 1) + i
        BY <2>2, <3>1 DEF Met
      <4>2. n \in 1..(l + 1)
        OBVIOUS
      <4> QED
        BY <4>1, <4>2 DEF Met
    <3>2. CASE p \notin 1..End(q, l)
      <4> DEFINE i == p - End(q, l)
      <4>1. i \in 1..k /\ p = End(q, l) + i /\ l + 1 \in 1..(l + 1)
        BY <2>4, <3>2
      <4> HIDE DEF i
      <4>2. i \in 1..Size(q[l + 1]) /\ p = End(q, (l + 1) - 1) + i
        BY <2>1, <4>1 DEF k
      <4> QED
        BY <4>1, <4>2 DEF Met
    <3> QED
      BY <3>1, <3>2
  <2> QED
    BY <2>6, <2>7, <2>8, <2>9
<1> HIDE DEF T
<1>4. \A l \in Nat : l \in T
  BY ONLY <1>2, <1>3, SetInduction
<1>5. m \in Nat /\ m <= Len(q)
  BY <1>1
<1>6. m \in T
  BY <1>4, <1>5
<1> QED
  BY <1>5, <1>6 DEF T, In, Met

(* One request more leaves the bytes of the others as they are. *)
LEMMA StreamStays ==
  ASSUME NEW q \in Requests, NEW kind \in Kinds, Len(q) < MAX_SENT
  PROVE  /\ Append(q, kind) \in Requests
         /\ Len(Append(q, kind)) = Len(q) + 1 /\ Append(q, kind)[Len(q) + 1] = kind
         /\ \A n \in 1..Len(q) : Append(q, kind)[n] = q[n]
         /\ \A n \in 0..Len(q) : /\ Stream(Append(q, kind), n) = Stream(q, n)
                                 /\ End(Append(q, kind), n) = End(q, n)
<1>1. q \in Seq(Kinds) /\ Len(q) \in Nat /\ MAX_SENT \in Nat
  BY BoundAssumption DEF Requests
<1> DEFINE r == Append(q, kind)
<1>2. /\ r \in Seq(Kinds) /\ Len(r) = Len(q) + 1 /\ r[Len(q) + 1] = kind
      /\ \A n \in 1..Len(q) : r[n] = q[n]
  BY <1>1
<1>3. r \in Requests
  BY <1>1, <1>2 DEF Requests
<1> HIDE DEF r
<1>4. ASSUME NEW n \in 0..Len(q)
      PROVE  Stream(r, n) = Stream(q, n)
  <2>1. \A i \in 1..n : r[i] = q[i]
    BY <1>1, <1>2
  <2>2. [i \in 1..n |-> Encoded(i, r[i])] = [i \in 1..n |-> Encoded(i, q[i])]
    BY <2>1, Zenon
  <2> QED
    BY <2>2 DEF Stream
<1> QED
  BY <1>2, <1>3, <1>4 DEF End, r

-----------------------------------------------------------------------------
(* Where a sync byte and the protocol version follow each other, a frame of    *)
(* that version begins.                                                        *)
LEMMA Genuine ==
  ASSUME NEW q \in Requests, NEW p \in Nat, p >= 1, p + 1 <= End(q, Len(q)),
         Stream(q, Len(q))[p] = MAGIC, Stream(q, Len(q))[p + 1] = PROTOCOL_VERSION
  PROVE  \E n \in 1..Len(q) : p = End(q, n - 1) + 1 /\ q[n].version = PROTOCOL_VERSION
<1> DEFINE S == Stream(q, Len(q))
           B(n) == Encoded(n, q[n])
           body(n) == q[n].body
<1>1. Len(q) \in Nat /\ Len(q) \in 0..Len(q) /\ End(q, Len(q)) \in Nat
  <2>1. Len(q) \in Nat
    BY DEF Requests
  <2> QED
    BY <2>1, StreamEnds
<1>2. \A n \in 1..Len(q) : \A i \in 1..Size(q[n]) : S[End(q, n - 1) + i] = B(n)[i]
  BY <1>1, FramesInStream
<1>3. PICK n \in 1..Len(q) : \E i \in 1..Size(q[n]) : p = End(q, n - 1) + i
  <2>1. p \in 1..End(q, Len(q))
    BY <1>1
  <2> QED
    BY <1>1, <2>1, FramesInStream
<1>4. PICK i \in 1..Size(q[n]) : p = End(q, n - 1) + i
  BY <1>3
<1>5. /\ n \in Byte /\ n < MAGIC /\ q[n] \in Kinds /\ Size(q[n]) = 4 + Len(body(n))
      /\ Len(body(n)) \in Nat /\ Len(body(n)) < MAGIC /\ q[n].version # MAGIC
      /\ \A j \in 1..Len(body(n)) : body(n)[j] # PROTOCOL_VERSION
  <2>1. n \in Byte /\ n < MAGIC /\ q[n] \in Kinds
    BY RequestAt
  <2>2. /\ Size(q[n]) = 4 + Len(body(n))
        /\ Len(body(n)) \in Nat /\ Len(body(n)) < MAGIC /\ q[n].version # MAGIC
        /\ \A j \in 1..Len(body(n)) : body(n)[j] # PROTOCOL_VERSION
    BY <2>1, KindType DEF Byte
  <2> QED
    BY <2>1, <2>2
<1>6. /\ B(n)[1] = MAGIC /\ B(n)[2] = q[n].version /\ B(n)[3] = n
      /\ B(n)[4] = Len(body(n))
      /\ \A j \in 1..Len(body(n)) : B(n)[4 + j] = body(n)[j]
  BY <1>5, EncodedBytes
<1>7. End(q, n - 1) \in Nat /\ End(q, n) = End(q, n - 1) + Size(q[n]) /\ End(q, n) \in Nat
  <2>1. n - 1 \in 0..Len(q) /\ n \in 0..Len(q)
    BY <1>1
  <2> QED
    BY <2>1, StreamEnds
<1>8. S[p] = B(n)[i]
  BY <1>2, <1>4
<1>9. i < Size(q[n]) => S[p + 1] = B(n)[i + 1]
  <2>1. ASSUME i < Size(q[n]) PROVE S[p + 1] = B(n)[i + 1]
    <3>1. i + 1 \in 1..Size(q[n]) /\ p + 1 = End(q, n - 1) + (i + 1)
      BY <1>4, <1>5, <1>7, <2>1
    <3> QED
      BY <1>2, <3>1
  <2> QED
    BY <2>1
<1>10. i = Size(q[n]) => S[p + 1] = MAGIC
  <2>1. ASSUME i = Size(q[n]) PROVE S[p + 1] = MAGIC
    <3>1. p = End(q, n) /\ n # Len(q)
      BY <1>1, <1>4, <1>7, <2>1
    <3> DEFINE m == n + 1
    <3>2. m \in 1..Len(q) /\ m - 1 = n
      BY <1>1, <3>1
    <3> HIDE DEF m
    <3>3. m \in Byte /\ q[m] \in Kinds /\ Size(q[m]) \in Nat /\ Size(q[m]) = 4 + Len(q[m].body)
      BY <3>2, RequestAt
    <3>4. 1 \in 1..Size(q[m])
      <4>1. Len(q[m].body) \in Nat
        BY <3>3, KindType DEF Byte
      <4> QED
        BY <3>3, <4>1
    <3>5. S[p + 1] = B(m)[1]
      BY <1>2, <3>1, <3>2, <3>4
    <3>6. B(m)[1] = MAGIC
      BY <3>3, EncodedBytes
    <3> QED
      BY <3>5, <3>6
  <2> QED
    BY <2>1
<1>11. S[p] = MAGIC /\ S[p + 1] = PROTOCOL_VERSION
  OBVIOUS
<1> HIDE DEF S, B, body
<1>12. i < Size(q[n])
  BY <1>4, <1>5, <1>10, <1>11 DEF MAGIC, PROTOCOL_VERSION
<1>13. i # 2 /\ i # 3 /\ i # 4
  <2> DEFINE l == Len(body(n))
  <2>1. n \in 0..255 /\ n < MAGIC /\ l \in Nat /\ l < MAGIC
    BY <1>5 DEF Byte
  <2> HIDE DEF l
  <2>2. n # MAGIC /\ l # MAGIC
    BY <2>1 DEF MAGIC
  <2>3. i # 2
    BY <1>5, <1>6, <1>8, <1>11
  <2>4. i # 3
    BY <2>2, <1>6, <1>8, <1>11, Zenon
  <2>5. i # 4
    BY <2>2, <1>6, <1>8, <1>11, Zenon DEF l
  <2> QED
    BY <2>3, <2>4, <2>5
<1>14. i <= 4
  <2> SUFFICES ASSUME i > 4 PROVE FALSE
    BY <1>5
  <2> DEFINE j == i - 3
  <2>1. j \in 1..Len(body(n)) /\ i + 1 = 4 + j
    BY <1>4, <1>5, <1>12
  <2> HIDE DEF j
  <2>2. S[p + 1] = body(n)[j]
    BY <1>6, <1>9, <1>12, <2>1
  <2> QED
    BY <1>5, <1>11, <2>1, <2>2
<1>15. i = 1
  BY <1>4, <1>5, <1>13, <1>14
<1>16. q[n].version = PROTOCOL_VERSION
  BY <1>6, <1>9, <1>11, <1>12, <1>15
<1> QED
  BY <1>4, <1>15, <1>16

-----------------------------------------------------------------------------
(* Windows into the stream *)

(* What is held are the bytes of the requests from the t-th on. *)
Window(bytes, q, t) ==
  /\ bytes \in Seq(Byte) /\ t \in Nat /\ t + Len(bytes) <= End(q, Len(q))
  /\ \A i \in 1..Len(bytes) : bytes[i] = Stream(q, Len(q))[t + i]

LEMMA Cut ==
  ASSUME NEW s \in Seq(Byte), NEW c \in 0..Len(s)
  PROVE  /\ From(s, c + 1) \in Seq(Byte) /\ Len(From(s, c + 1)) = Len(s) - c
         /\ \A i \in 1..(Len(s) - c) : From(s, c + 1)[i] = s[c + i]
         /\ SubSeq(s, 1, c) \in Seq(Byte) /\ Len(SubSeq(s, 1, c)) = c
         /\ \A i \in 1..c : SubSeq(s, 1, c)[i] = s[i]
<1>1. Len(s) \in Nat /\ c \in Nat /\ c <= Len(s)
  OBVIOUS
<1>2. /\ From(s, c + 1) \in Seq(Byte) /\ Len(From(s, c + 1)) = Len(s) - c
      /\ \A i \in 1..(Len(s) - c) : From(s, c + 1)[i] = s[c + i]
  BY <1>1 DEF From
<1>3. /\ SubSeq(s, 1, c) \in Seq(Byte) /\ Len(SubSeq(s, 1, c)) = c
      /\ \A i \in 1..c : SubSeq(s, 1, c)[i] = s[i]
  BY <1>1
<1> QED
  BY <1>2, <1>3

LEMMA WindowCut ==
  ASSUME NEW q \in Requests, NEW s, NEW t, Window(s, q, t), NEW c \in 0..Len(s)
  PROVE  Window(From(s, c + 1), q, t + c) /\ Window(SubSeq(s, 1, c), q, t)
<1>1. /\ s \in Seq(Byte) /\ t \in Nat /\ t + Len(s) <= End(q, Len(q)) /\ Len(s) \in Nat
      /\ \A i \in 1..Len(s) : s[i] = Stream(q, Len(q))[t + i]
  BY DEF Window
<1>2. End(q, Len(q)) \in Nat
  <2>1. Len(q) \in 0..Len(q)
    BY DEF Requests
  <2> QED
    BY <2>1, StreamEnds
<1> DEFINE u == From(s, c + 1)
           v == SubSeq(s, 1, c)
<1>3. /\ u \in Seq(Byte) /\ Len(u) = Len(s) - c
      /\ \A i \in 1..(Len(s) - c) : u[i] = s[c + i]
      /\ v \in Seq(Byte) /\ Len(v) = c
      /\ \A i \in 1..c : v[i] = s[i]
  BY <1>1, Cut
<1> HIDE DEF u, v
<1>4. Window(u, q, t + c)
  <2>1. ASSUME NEW i \in 1..Len(u)
        PROVE  u[i] = Stream(q, Len(q))[(t + c) + i]
    <3>1. c + i \in 1..Len(s) /\ t + (c + i) = (t + c) + i /\ u[i] = s[c + i]
      BY <1>1, <1>3
    <3> QED
      BY <1>1, <3>1
  <2>2. t + c \in Nat /\ (t + c) + Len(u) <= End(q, Len(q))
    BY <1>1, <1>3
  <2> QED
    BY <1>3, <2>1, <2>2 DEF Window
<1>5. Window(v, q, t)
  BY <1>1, <1>2, <1>3 DEF Window
<1> QED
  BY <1>4, <1>5 DEF u, v

(* A window that begins with a frame shows its header and, when it is long     *)
(* enough, its body.                                                           *)
LEMMA FrameInWindow ==
  ASSUME NEW q \in Requests, NEW n \in 1..Len(q), NEW s, Window(s, q, End(q, n - 1))
  PROVE  /\ Len(s) >= 1 => s[1] = MAGIC
         /\ Len(s) >= 4 => /\ s[2] = q[n].version /\ s[3] = n
                           /\ s[4] = Len(q[n].body)
         /\ Len(s) >= Size(q[n]) => SubSeq(s, HEADER_SIZE + 1, Size(q[n])) = q[n].body
<1> DEFINE t == End(q, n - 1)
           e == Encoded(n, q[n])
           body == q[n].body
           k == Size(q[n])
<1>1. /\ s \in Seq(Byte) /\ Len(s) \in Nat
      /\ \A i \in 1..Len(s) : s[i] = Stream(q, Len(q))[t + i]
  BY DEF Window
<1>2. \A i \in 1..k : Stream(q, Len(q))[t + i] = e[i]
  <2>1. Len(q) \in 0..Len(q)
    BY DEF Requests
  <2> QED
    BY <2>1, FramesInStream
<1>3. /\ q[n] \in Kinds /\ n \in Byte /\ k = 4 + Len(body) /\ Len(body) \in Nat
      /\ body \in Seq(Byte)
  <2>1. q[n] \in Kinds /\ n \in Byte
    BY RequestAt
  <2> QED
    BY <2>1, KindType DEF Byte
<1>4. /\ e[1] = MAGIC /\ e[2] = q[n].version /\ e[3] = n /\ e[4] = Len(body)
      /\ \A i \in 1..Len(body) : e[4 + i] = body[i]
  BY <1>3, EncodedBytes
<1> HIDE DEF e, k, t, body
<1>5. \A i \in 1..k : i <= Len(s) => s[i] = e[i]
  BY <1>1, <1>2, <1>3
<1>6. 1 \in 1..k /\ 2 \in 1..k /\ 3 \in 1..k /\ 4 \in 1..k
  BY <1>3
<1>7. ASSUME Len(s) >= k
      PROVE  SubSeq(s, 5, k) = body
  <2> DEFINE u == SubSeq(s, 5, k)
  <2>1. k <= Len(s) /\ k \in Nat /\ k - 4 = Len(body)
    BY <1>1, <1>3, <1>7
  <2>2. /\ u \in Seq(Byte) /\ Len(u) = Len(body)
        /\ \A i \in 1..Len(body) : u[i] = s[4 + i]
    BY <1>1, <1>3, <2>1
  <2> HIDE DEF u
  <2>3. \A i \in 1..Len(body) : u[i] = body[i]
    <3> TAKE i \in 1..Len(body)
    <3>1. 4 + i \in 1..k /\ 4 + i <= Len(s)
      BY <1>3, <2>1
    <3> QED
      BY <1>4, <1>5, <2>2, <3>1
  <2>4. u = body
    BY <1>3, <2>2, <2>3
  <2> QED
    BY <2>4 DEF u
<1>8. Len(s) >= 1 => s[1] = MAGIC
  BY <1>1, <1>4, <1>5, <1>6
<1>9. Len(s) >= 4 => s[2] = q[n].version /\ s[3] = n /\ s[4] = Len(body)
  BY <1>1, <1>4, <1>5, <1>6
<1> QED
  BY <1>7, <1>8, <1>9 DEF k, body, HEADER_SIZE

-----------------------------------------------------------------------------
(* Decoding *)

LEMMA FrameOutcome ==
  ASSUME NEW s \in Seq(Byte), Len(s) >= HEADER_SIZE, NEW d, d = DecodedFrame(s)
  PROVE  \/ /\ s[2] # PROTOCOL_VERSION
            /\ d = Outcome("version", s[3], From(s, HEADER_SIZE + 1))
         \/ /\ s[2] = PROTOCOL_VERSION /\ Len(s) < HEADER_SIZE + s[4]
            /\ d = Outcome("more", 0, s)
         \/ /\ s[2] = PROTOCOL_VERSION /\ Len(s) >= HEADER_SIZE + s[4]
            /\ Parses(SubSeq(s, HEADER_SIZE + 1, HEADER_SIZE + s[4]))
            /\ d = Outcome("request", s[3], From(s, HEADER_SIZE + s[4] + 1))
         \/ /\ s[2] = PROTOCOL_VERSION /\ Len(s) >= HEADER_SIZE + s[4]
            /\ ~Parses(SubSeq(s, HEADER_SIZE + 1, HEADER_SIZE + s[4]))
            /\ d = Outcome("data", s[3], From(s, HEADER_SIZE + s[4] + 1))
<1> DEFINE total == HEADER_SIZE + s[4]
           body == SubSeq(s, HEADER_SIZE + 1, total)
<1>1. Len(s) \in Nat /\ total \in Nat
  <2>1. Len(s) \in Nat /\ 4 \in 1..Len(s)
    BY DEF HEADER_SIZE
  <2>2. s[4] \in Byte
    BY <2>1
  <2>3. \A x \in Byte : HEADER_SIZE + x \in Nat
    BY DEF HEADER_SIZE, Byte
  <2> QED
    BY <2>1, <2>2, <2>3
<1>2. CASE s[2] # PROTOCOL_VERSION
  BY <1>2, Zenon DEF DecodedFrame
<1>3. CASE s[2] = PROTOCOL_VERSION /\ Len(s) < total
  BY <1>3, Zenon DEF DecodedFrame, DecodedAnyVersion
<1>4. CASE s[2] = PROTOCOL_VERSION /\ ~(Len(s) < total)
  <2>1. Len(s) >= total
    BY <1>1, <1>4
  <2>2. d = Outcome(IF Parses(body) THEN "request" ELSE "data", s[3], From(s, total + 1))
    BY <1>4, Zenon DEF DecodedFrame, DecodedAnyVersion
  <2> HIDE DEF total, body
  <2>3. CASE Parses(body)
    BY <1>4, <2>1, <2>2, <2>3, Zenon DEF total, body
  <2>4. CASE ~Parses(body)
    BY <1>4, <2>1, <2>2, <2>4, Zenon DEF total, body
  <2> QED
    BY <2>3, <2>4
<1> QED
  BY <1>2, <1>3, <1>4

(* At the start of a frame decoding waits for it, or finds that frame.         *)
LEMMA DecodedAligned ==
  ASSUME NEW q \in Requests, NEW n \in 1..Len(q), NEW s, Window(s, q, End(q, n - 1)),
         NEW d, d = Decoded(s)
  PROVE  \/ d = Outcome("more", 0, s) /\ Len(s) < Size(q[n])
         \/ /\ d = Outcome("version", n, From(s, HEADER_SIZE + 1))
            /\ Len(s) >= HEADER_SIZE /\ q[n].version # PROTOCOL_VERSION
         \/ /\ d = Outcome("request", n, From(s, Size(q[n]) + 1))
            /\ Len(s) >= Size(q[n]) /\ Understood(q[n])
         \/ /\ d = Outcome("data", n, From(s, Size(q[n]) + 1))
            /\ Len(s) >= Size(q[n]) /\ q[n].version = PROTOCOL_VERSION /\ ~Understood(q[n])
<1> DEFINE k == Size(q[n])
           body == q[n].body
           v == q[n].version
<1>1. s \in Seq(Byte) /\ Len(s) \in Nat
  BY DEF Window
<1>2. k \in Nat /\ k = HEADER_SIZE + Len(body) /\ Len(body) \in Nat
  <2>1. q[n] \in Kinds
    BY RequestAt
  <2> QED
    BY <2>1, KindType DEF Byte, HEADER_SIZE
<1>3. CASE Len(s) < HEADER_SIZE
  <2>1. d = Outcome("more", 0, s)
    BY <1>3, Zenon DEF Decoded
  <2>2. Len(s) < k
    BY <1>1, <1>2, <1>3 DEF HEADER_SIZE
  <2> QED
    BY <2>1, <2>2
<1>4. CASE ~(Len(s) < HEADER_SIZE)
  <2>1. Len(s) >= 4 /\ Len(s) >= 1 /\ Len(s) >= HEADER_SIZE /\ s # <<>>
    BY <1>1, <1>4 DEF HEADER_SIZE
  <2>2. /\ s[1] = MAGIC /\ s[2] = v /\ s[3] = n /\ s[4] = Len(body)
        /\ Len(s) >= k => SubSeq(s, HEADER_SIZE + 1, k) = body
    BY <2>1, FrameInWindow
  <2>3. d = DecodedFrame(s)
    BY <1>4, <2>1, <2>2, Zenon DEF Decoded
  <2>4. HEADER_SIZE + s[4] = k
    BY <1>2, <2>2
  <2> HIDE DEF k, body, v
  <2>5. \/ v # PROTOCOL_VERSION /\ d = Outcome("version", n, From(s, HEADER_SIZE + 1))
        \/ v = PROTOCOL_VERSION /\ Len(s) < k /\ d = Outcome("more", 0, s)
        \/ /\ v = PROTOCOL_VERSION /\ Len(s) >= k /\ Parses(SubSeq(s, HEADER_SIZE + 1, k))
           /\ d = Outcome("request", n, From(s, k + 1))
        \/ /\ v = PROTOCOL_VERSION /\ Len(s) >= k /\ ~Parses(SubSeq(s, HEADER_SIZE + 1, k))
           /\ d = Outcome("data", n, From(s, k + 1))
    BY <1>1, <2>1, <2>2, <2>3, <2>4, FrameOutcome
  <2>6. Understood(q[n]) <=> v = PROTOCOL_VERSION /\ Parses(body)
    BY DEF Understood, v, body
  <2>7. \/ d = Outcome("more", 0, s) /\ Len(s) < k
        \/ /\ d = Outcome("version", n, From(s, HEADER_SIZE + 1))
           /\ v # PROTOCOL_VERSION
        \/ /\ d = Outcome("request", n, From(s, k + 1))
           /\ Len(s) >= k /\ Understood(q[n])
        \/ /\ d = Outcome("data", n, From(s, k + 1))
           /\ Len(s) >= k /\ v = PROTOCOL_VERSION /\ ~Understood(q[n])
    BY <2>2, <2>5, <2>6, Zenon
  <2> QED
    BY <2>1, <2>7 DEF k, v
<1> QED
  BY <1>3, <1>4

LEMMA CutTwice ==
  ASSUME NEW s \in Seq(Byte), NEW c \in 0..Len(s), NEW e \in 0..(Len(s) - c)
  PROVE  c + e \in 0..Len(s) /\ From(From(s, c + 1), e + 1) = From(s, (c + e) + 1)
<1> DEFINE u == From(s, c + 1)
           x == From(u, e + 1)
           y == From(s, (c + e) + 1)
           l == Len(s) - (c + e)
<1>1. Len(s) \in Nat /\ c \in Nat /\ e \in Nat /\ c + e \in 0..Len(s)
  OBVIOUS
<1>2. u \in Seq(Byte) /\ Len(u) = Len(s) - c /\ \A i \in 1..(Len(s) - c) : u[i] = s[c + i]
  BY Cut
<1>3. y \in Seq(Byte) /\ Len(y) = l /\ \A i \in 1..l : y[i] = s[(c + e) + i]
  BY <1>1, Cut
<1> HIDE DEF u, y
<1>4. x \in Seq(Byte) /\ Len(x) = l /\ \A i \in 1..l : x[i] = u[e + i]
  <2>1. e \in 0..Len(u) /\ Len(u) - e = l
    BY <1>1, <1>2
  <2>2. x \in Seq(Byte) /\ Len(x) = Len(u) - e /\ \A i \in 1..(Len(u) - e) : x[i] = u[e + i]
    BY <1>2, <2>1, Cut
  <2> QED
    BY <2>1, <2>2
<1> HIDE DEF x
<1>5. \A i \in 1..l : x[i] = y[i]
  <2> TAKE i \in 1..l
  <2>1. e + i \in 1..(Len(s) - c) /\ c + (e + i) = (c + e) + i
    BY <1>1
  <2> QED
    BY <1>2, <1>3, <1>4, <2>1
<1>6. x = y
  <2>1. Len(x) = Len(y) /\ \A i \in 1..Len(x) : x[i] = y[i]
    BY <1>3, <1>4, <1>5
  <2> QED
    BY <1>3, <1>4, <2>1, SeqEqual
<1> QED
  BY <1>1, <1>6 DEF x, y, u

(* Looking for the next sync byte skips some bytes. *)
LEMMA Resynchronises ==
  ASSUME NEW s \in Seq(Byte)
  PROVE  \/ Resynchronised(s) = <<>>
         \/ \E c \in 0..Len(s) : /\ Resynchronised(s) = From(s, c + 1)
                                 /\ c + 1 \in 1..Len(s) /\ s[c + 1] = MAGIC
<1> DEFINE syncs == {i \in 3..Len(s) : s[i] = MAGIC}
<1>1. CASE syncs = {}
  BY <1>1, Zenon DEF Resynchronised
<1>2. CASE syncs # {}
  <2>1. syncs \in SUBSET Nat
    OBVIOUS
  <2>2. \E m \in syncs : \A i \in syncs : m <= i
    BY <1>2, <2>1, LeastElement
  <2>3. Min(syncs) \in syncs
    BY <2>2 DEF Min
  <2>4. Resynchronised(s) = From(s, Min(syncs))
    BY <1>2, Zenon DEF Resynchronised
  <2> DEFINE c == Min(syncs) - 1
  <2>5. c \in 0..Len(s) /\ c + 1 \in 1..Len(s) /\ s[c + 1] = MAGIC /\ c + 1 = Min(syncs)
    BY <2>3
  <2> HIDE DEF c
  <2> QED
    BY <2>4, <2>5
<1> QED
  BY <1>1, <1>2

(* Anywhere in the stream decoding takes bytes off the front, and a request it *)
(* finds is one that was sent, is understood and has not been passed yet.      *)
LEMMA DecodedAnywhere ==
  ASSUME NEW q \in Requests, NEW s, NEW t, Window(s, q, t), NEW d, d = Decoded(s)
  PROVE  /\ d.kind \in {"more", "version", "data", "request", "raises"} /\ d.number \in Byte
         /\ \E c \in 0..Len(s) : d.rest = From(s, c + 1)
         /\ d.kind = "request" =>
              \E n \in 1..Len(q) : /\ d.number = n /\ Understood(q[n]) /\ t <= End(q, n - 1)
                                   /\ End(q, n) - t \in 0..Len(s)
                                   /\ d.rest = From(s, (End(q, n) - t) + 1)
<1> DEFINE Skips(r) == \E c \in 0..Len(s) : r = From(s, c + 1)
<1>1. s \in Seq(Byte) /\ Len(s) \in Nat /\ t \in Nat
  BY DEF Window
<1>2. Skips(s) /\ Skips(<<>>)
  <2>1. s = From(s, 0 + 1) /\ 0 \in 0..Len(s)
    BY <1>1 DEF From
  <2>2. <<>> = From(s, Len(s) + 1) /\ Len(s) \in 0..Len(s)
    BY <1>1 DEF From
  <2> QED
    BY <2>1, <2>2
<1>3. \A kind, number, rest : /\ Outcome(kind, number, rest).kind = kind
                              /\ Outcome(kind, number, rest).number = number
                              /\ Outcome(kind, number, rest).rest = rest
  BY DEF Outcome
<1>4. 0 \in Byte
  BY DEF Byte
<1> DEFINE synced == IF s[1] = MAGIC THEN s ELSE Resynchronised(s)
<1>5. CASE d = Outcome("more", 0, s) \/ d = Outcome("more", 0, <<>>)
  <2> HIDE DEF Skips
  <2>1. PICK rest : d = Outcome("more", 0, rest) /\ Skips(rest)
    BY <1>2, <1>5
  <2>2. d.kind = "more" /\ d.number = 0 /\ Skips(d.rest)
    BY <1>3, <2>1
  <2> QED
    BY <1>4, <2>2 DEF Skips
<1>6. CASE ~(Len(s) < HEADER_SIZE) /\ synced # <<>>
  <2>1. PICK c \in 0..Len(s) : synced = From(s, c + 1) /\ c + 1 \in 1..Len(s) /\ s[c + 1] = MAGIC
    <3>1. CASE s[1] = MAGIC
      <4>1. 0 \in 0..Len(s) /\ s = From(s, 0 + 1) /\ 0 + 1 \in 1..Len(s) /\ s[0 + 1] = MAGIC
        BY <1>1, <1>6, <3>1 DEF From, HEADER_SIZE
      <4> QED
        BY <3>1, <4>1
    <3>2. CASE s[1] # MAGIC
      BY <1>1, <1>6, <3>2, Resynchronises
    <3> QED
      BY <3>1, <3>2
  <2> DEFINE u == From(s, c + 1)
             p == t + c
  <2>2. /\ u \in Seq(Byte) /\ Len(u) = Len(s) - c
        /\ \A i \in 1..(Len(s) - c) : u[i] = s[c + i]
    BY <1>1, Cut
  <2>3. Window(u, q, p)
    BY WindowCut
  <2>4. c \in Nat /\ Len(u) >= 1 /\ u[1] = MAGIC /\ Len(u) \in Nat /\ p \in Nat
    BY <1>1, <2>1, <2>2
  <2> HIDE DEF u, p
  <2>5. \A e \in 0..Len(u) : Skips(From(u, e + 1))
    <3> TAKE e \in 0..Len(u)
    <3>1. c + e \in 0..Len(s) /\ From(u, e + 1) = From(s, (c + e) + 1)
      BY <1>1, <2>2, <2>4, CutTwice DEF u
    <3> QED
      BY <3>1
  <2>6. CASE Len(u) < HEADER_SIZE
    <3>1. d = Outcome("raises", 0, u)
      BY <1>6, <2>1, <2>6, Zenon DEF Decoded, u
    <3>2. Skips(u)
      BY DEF u
    <3> QED
      BY <1>3, <1>4, <3>1, <3>2
  <2>7. CASE ~(Len(u) < HEADER_SIZE)
    <3>1. d = DecodedFrame(u) /\ Len(u) >= HEADER_SIZE
      <4>1. d = DecodedFrame(u)
        BY <1>6, <2>1, <2>7, Zenon DEF Decoded, u
      <4> QED
        BY <2>4, <2>7, <4>1 DEF HEADER_SIZE
    <3>2. u[3] \in Byte /\ u[4] \in Byte /\ 2 \in 1..Len(u)
      BY <2>2, <2>4, <3>1 DEF HEADER_SIZE
    <3>3. Skips(u)
      BY DEF u
    <3>4. Skips(From(u, HEADER_SIZE + 1))
      BY <2>4, <2>5, <3>1 DEF HEADER_SIZE
    <3>5. Len(u) >= HEADER_SIZE + u[4] => Skips(From(u, HEADER_SIZE + u[4] + 1))
      <4> DEFINE e == HEADER_SIZE + u[4]
      <4>1. e \in Nat
        <5>1. \A x \in Byte : HEADER_SIZE + x \in Nat
          BY DEF HEADER_SIZE, Byte
        <5> QED
          BY <3>2, <5>1
      <4>2. Len(u) >= e => e \in 0..Len(u)
        BY <2>4, <4>1
      <4> HIDE DEF e, Skips
      <4>3. Len(u) >= e => Skips(From(u, e + 1))
        BY <2>5, <4>2
      <4> QED
        BY <4>3 DEF e
    <3> HIDE DEF Skips
    <3>6. CASE u[2] = PROTOCOL_VERSION /\ Len(u) >= HEADER_SIZE + u[4]
               /\ Parses(SubSeq(u, HEADER_SIZE + 1, HEADER_SIZE + u[4]))
               /\ d = Outcome("request", u[3], From(u, HEADER_SIZE + u[4] + 1))
      <4>1. PICK n \in 1..Len(q) : p + 1 = End(q, n - 1) + 1 /\ q[n].version = PROTOCOL_VERSION
        <5> DEFINE S == Stream(q, Len(q))
                   r == p + 1
        <5>1. /\ r \in Nat /\ r >= 1 /\ r + 1 <= End(q, Len(q))
              /\ S[r] = u[1] /\ S[r + 1] = u[2]
          <6>1. /\ p + Len(u) <= End(q, Len(q)) /\ End(q, Len(q)) \in Nat
                /\ \A i \in 1..Len(u) : u[i] = S[p + i]
            <7>1. Len(q) \in 0..Len(q)
              BY DEF Requests
            <7> QED
              BY <2>3, <7>1, StreamEnds DEF Window
          <6>2. 1 \in 1..Len(u) /\ 2 \in 1..Len(u) /\ Len(u) >= 2
            BY <2>4, <3>2
          <6>3. u[1] = S[p + 1] /\ u[2] = S[p + 2] /\ (p + 1) + 1 = p + 2
            BY <2>4, <6>1, <6>2
          <6>4. r \in Nat /\ r >= 1 /\ r + 1 <= End(q, Len(q))
            BY <2>4, <6>1, <6>2
          <6> QED
            BY <6>3, <6>4
        <5> HIDE DEF r
        <5>2. S[r] = MAGIC /\ S[r + 1] = PROTOCOL_VERSION
          BY <2>4, <3>6, <5>1
        <5>3. \E n \in 1..Len(q) : r = End(q, n - 1) + 1 /\ q[n].version = PROTOCOL_VERSION
          BY <5>1, <5>2, Genuine
        <5> QED
          BY <5>3 DEF r
      <4> DEFINE k == Size(q[n])
      <4>2. /\ End(q, n - 1) \in Nat /\ End(q, n) = End(q, n - 1) + k /\ k \in Nat
            /\ k = HEADER_SIZE + Len(q[n].body) /\ Len(q[n].body) \in Nat
        <5>1. Len(q) \in Nat /\ n - 1 \in 0..Len(q)
          BY DEF Requests
        <5>2. q[n] \in Kinds
          BY RequestAt
        <5> QED
          <6>1. End(q, n - 1) \in Nat /\ End(q, n) = End(q, n - 1) + k
            BY <5>1, StreamEnds
          <6>2. k \in Nat /\ k = HEADER_SIZE + Len(q[n].body) /\ Len(q[n].body) \in Nat
            BY <5>2, KindType DEF HEADER_SIZE, Byte
          <6> QED
            BY <6>1, <6>2
      <4>3. p = End(q, n - 1)
        BY <2>4, <4>1, <4>2
      <4>4. /\ u[3] = n /\ u[4] = Len(q[n].body)
            /\ Len(u) >= k => SubSeq(u, HEADER_SIZE + 1, k) = q[n].body
        <5>1. Window(u, q, End(q, n - 1))
          BY <2>3, <4>3
        <5>2. Len(u) >= 4
          BY <3>1 DEF HEADER_SIZE
        <5> QED
          BY <5>1, <5>2, FrameInWindow
      <4>5. HEADER_SIZE + u[4] = k
        BY <4>2, <4>4
      <4> HIDE DEF k
      <4>6. Understood(q[n])
        BY <3>6, <4>1, <4>4, <4>5 DEF Understood
      <4>7. From(u, k + 1) = From(s, (c + k) + 1) /\ c + k \in 0..Len(s)
        <5>1. k \in 0..Len(u)
          BY <2>4, <3>6, <4>2, <4>5
        <5>2. c + k \in 0..Len(s)
          BY <1>1, <2>1, <2>2, <2>4, <5>1
        <5>3. From(u, k + 1) = From(s, (c + k) + 1)
          BY <1>1, <2>1, <2>2, <2>4, <5>1, <5>2, CutTwice DEF u
        <5> QED
          BY <5>2, <5>3
      <4>8. End(q, n) - t = c + k /\ t <= End(q, n - 1)
        BY <1>1, <2>4, <4>2, <4>3 DEF p
      <4>9. d.number = n /\ d.rest = From(s, (End(q, n) - t) + 1)
        BY <1>3, <3>6, <4>4, <4>5, <4>7, <4>8
      <4>10. d.kind = "request" /\ d.number \in Byte /\ Skips(d.rest)
        BY <1>3, <3>2, <3>5, <3>6
      <4> QED
        BY <4>6, <4>7, <4>8, <4>9, <4>10 DEF Skips
    <3>7. CASE \/ d = Outcome("version", u[3], From(u, HEADER_SIZE + 1))
               \/ d = Outcome("more", 0, u)
               \/ /\ Len(u) >= HEADER_SIZE + u[4]
                  /\ d = Outcome("data", u[3], From(u, HEADER_SIZE + u[4] + 1))
      <4>1. /\ d.kind \in {"more", "version", "data"} /\ d.number \in Byte /\ Skips(d.rest)
        BY <1>3, <1>4, <3>2, <3>3, <3>4, <3>5, <3>7
      <4> QED
        BY <4>1 DEF Skips
    <3> QED
      BY <2>2, <3>1, <3>6, <3>7, FrameOutcome
  <2> QED
    BY <2>6, <2>7
<1>7. CASE Len(s) < HEADER_SIZE
  <2>1. d = Outcome("more", 0, s)
    BY <1>7, Zenon DEF Decoded
  <2> QED
    BY <1>5, <2>1
<1>8. CASE ~(Len(s) < HEADER_SIZE) /\ synced = <<>>
  <2>1. d = Outcome("more", 0, <<>>)
    BY <1>8, Zenon DEF Decoded
  <2> QED
    BY <1>5, <2>1
<1> QED
  BY <1>6, <1>7, <1>8

-----------------------------------------------------------------------------
(* The connection *)

(* Bytes the thread has taken out of its buffer. *)
Read == End(sent, Len(sent)) - Len(recv_buffer) - Len(wire)

StreamInv ==
  Window(recv_buffer, sent, Read) /\ Window(wire, sent, Read + Len(recv_buffer))

(* A request that was handled has been taken out of the buffer. *)
HandledInv ==
  /\ \A i \in 1..Len(answers) : answers[i].ok =>
       /\ answers[i].number \in 1..Len(sent) /\ Understood(sent[answers[i].number])
       /\ End(sent, answers[i].number) <= Read
  /\ \A i, j \in 1..Len(answers) :
       i < j /\ answers[i].ok /\ answers[j].ok => answers[i].number < answers[j].number

(* Without bodies left behind exactly the answered requests have been taken    *)
(* out, and a thread that waits for more holds less than the next one.         *)
AlignedInv ==
  Clean(Len(answers)) =>
    /\ Len(answers) <= Len(sent) /\ Read = End(sent, Len(answers))
    /\ rpc = "recv" /\ Len(answers) < Len(sent) =>
         Read + Len(recv_buffer) < End(sent, Len(answers) + 1)

OrderInv ==
  \A i \in 1..Len(answers) : Clean(i - 1) =>
    i \in 1..Len(sent) /\ answers[i] = [number |-> i, ok |-> Understood(sent[i])]

Safe == TypeOK /\ StreamInv /\ HandledInv /\ AlignedInv /\ OrderInv

LEMMA Numbers ==
  ASSUME Safe
  PROVE  /\ sent \in Requests /\ Len(sent) \in Nat /\ Read \in Nat
         /\ recv_buffer \in Seq(Byte) /\ Len(recv_buffer) \in Nat
         /\ wire \in Seq(Byte) /\ Len(wire) \in Nat
         /\ Len(answers) \in Nat /\ DOMAIN answers = 1..Len(answers) /\ DOMAIN sent = 1..Len(sent)
         /\ End(sent, Len(sent)) \in Nat
         /\ End(sent, Len(sent)) = Read + Len(recv_buffer) + Len(wire)
<1>1. /\ sent \in Seq(Kinds) /\ Len(sent) <= MAX_SENT /\ wire \in Seq(Byte)
      /\ recv_buffer \in Seq(Byte) /\ answers \in Seq([number : Byte, ok : BOOLEAN])
  BY DEF Safe, TypeOK, Byte
<1>2. sent \in Requests /\ Len(sent) \in Nat /\ Len(sent) \in 0..Len(sent)
  BY <1>1 DEF Requests
<1>3. End(sent, Len(sent)) \in Nat
  BY <1>2, StreamEnds
<1>4. Len(recv_buffer) \in Nat /\ Len(wire) \in Nat
  BY <1>1
<1>5. Read \in Nat
  BY DEF Safe, StreamInv, Window
<1>6. End(sent, Len(sent)) = Read + Len(recv_buffer) + Len(wire)
  BY <1>3, <1>4 DEF Read
<1>7. Len(answers) \in Nat /\ DOMAIN answers = 1..Len(answers) /\ DOMAIN sent = 1..Len(sent)
  BY <1>1
<1> QED
  BY <1>1, <1>2, <1>3, <1>4, <1>5, <1>6, <1>7

LEMMA SafeInit ==
  ASSUME Init
  PROVE  Safe
<1>1. /\ sent = <<>> /\ wire = <<>> /\ recv_buffer = <<>> /\ rpc = "recv" /\ answers = <<>>
  BY DEF Init
<1>2. TypeOK
  BY <1>1, BoundAssumption DEF TypeOK
<1>3. sent \in Requests /\ Len(sent) = 0 /\ Len(recv_buffer) = 0 /\ Len(wire) = 0
      /\ Len(answers) = 0
  BY <1>1, BoundAssumption DEF Requests
<1>4. End(sent, 0) = 0
  BY <1>3, StreamEnds
<1>5. Read = 0
  BY <1>3, <1>4 DEF Read
<1>6. StreamInv
  <2>1. <<>> \in Seq(Byte) /\ 1..0 = {}
    OBVIOUS
  <2> QED
    BY <1>1, <1>3, <1>4, <1>5, <2>1 DEF StreamInv, Window
<1>7. HandledInv /\ OrderInv
  <2>1. 1..Len(answers) = {}
    BY <1>3
  <2> QED
    BY <2>1 DEF HandledInv, OrderInv
<1>8. AlignedInv
  BY <1>3, <1>4, <1>5 DEF AlignedInv
<1> QED
  BY <1>2, <1>6, <1>7, <1>8 DEF Safe

(* A request more: the bytes of the others stay, its own end the stream. *)
LEMMA SendStep ==
  ASSUME Safe, NEW kind \in Kinds, Send(kind)
  PROVE  Safe'
<1>0. /\ sent \in Requests /\ Len(sent) \in Nat /\ Read \in Nat
      /\ recv_buffer \in Seq(Byte) /\ Len(recv_buffer) \in Nat
      /\ wire \in Seq(Byte) /\ Len(wire) \in Nat /\ Len(answers) \in Nat
      /\ DOMAIN sent = 1..Len(sent) /\ End(sent, Len(sent)) \in Nat
      /\ End(sent, Len(sent)) = Read + Len(recv_buffer) + Len(wire)
  BY Numbers
<1>1. /\ Len(sent) < MAX_SENT /\ sent' = Append(sent, kind)
      /\ wire' = wire \o Encoded(Len(sent) + 1, kind)
      /\ UNCHANGED <<recv_buffer, rpc, answers>>
  BY DEF Send
<1> DEFINE n == Len(sent)
           e == Encoded(n + 1, kind)
           k == Size(kind)
<1>2. /\ sent' \in Requests /\ Len(sent') = n + 1 /\ sent'[n + 1] = kind
      /\ \A i \in 1..n : sent'[i] = sent[i]
      /\ \A i \in 0..n : Stream(sent', i) = Stream(sent, i) /\ End(sent', i) = End(sent, i)
  BY <1>0, <1>1, StreamStays
<1>3. n + 1 \in 1..Len(sent') /\ n + 1 \in Byte
  <2>1. n + 1 \in 1..Len(sent')
    BY <1>0, <1>2
  <2> QED
    BY <1>2, <2>1, RequestAt
<1>4. e \in Seq(Byte) /\ Len(e) = k /\ k \in Nat /\ k > 0
  <2>1. e \in Seq(Byte) /\ Len(e) = k
    BY <1>3, EncodedBytes
  <2>2. k \in Nat /\ k = 4 + Len(kind.body) /\ Len(kind.body) \in Nat
    BY KindType DEF Byte
  <2> QED
    BY <2>1, <2>2
<1>5. /\ Stream(sent', n + 1) = Stream(sent, n) \o e /\ Stream(sent, n) \in Seq(Byte)
      /\ Len(Stream(sent, n)) = End(sent, n)
  <2>1. n \in 0..n /\ n + 1 <= Len(sent')
    BY <1>0, <1>2
  <2>2. Stream(sent', n + 1) = Stream(sent', n) \o Encoded(n + 1, sent'[n + 1])
    BY <1>0, <1>2, <2>1, StreamGrows
  <2>3. Stream(sent, n) \in Seq(Byte)
    BY <1>0, <2>1, StreamEnds
  <2> QED
    BY <1>2, <2>1, <2>2, <2>3 DEF End
<1> DEFINE S == Stream(sent, n)
           l == End(sent, n)
<1>6. /\ \A i \in 1..l : (S \o e)[i] = S[i]
      /\ \A i \in 1..k : (S \o e)[l + i] = e[i]
      /\ Len(S \o e) = l + k
  <2> HIDE DEF S, e, l
  <2>1. S \in Seq(Byte) /\ e \in Seq(Byte) /\ Len(S) = l /\ Len(e) = k
    BY <1>4, <1>5 DEF S, l
  <2>2. Len(S \o e) = Len(S) + Len(e) /\ \A i \in 1..Len(S) : (S \o e)[i] = S[i]
    BY <2>1, Joined
  <2>3. \A i \in 1..Len(e) : (S \o e)[Len(S) + i] = e[i]
    BY <2>1, Joined
  <2> QED
    BY <2>1, <2>2, <2>3
<1>7. End(sent', n + 1) = l + k
  BY <1>5, <1>6 DEF End
<1>8. /\ wire' \in Seq(Byte) /\ Len(wire') = Len(wire) + k
      /\ \A i \in 1..Len(wire) : wire'[i] = wire[i]
      /\ \A i \in 1..k : wire'[Len(wire) + i] = e[i]
  <2> HIDE DEF e
  <2>1. wire' = wire \o e /\ wire \in Seq(Byte) /\ e \in Seq(Byte) /\ Len(e) = k
    BY <1>0, <1>1, <1>4 DEF e
  <2>2. /\ wire \o e \in Seq(Byte) /\ Len(wire \o e) = Len(wire) + Len(e)
        /\ \A i \in 1..Len(wire) : (wire \o e)[i] = wire[i]
    BY <2>1, Joined
  <2>3. \A i \in 1..Len(e) : (wire \o e)[Len(wire) + i] = e[i]
    BY <2>1, Joined
  <2> QED
    BY <2>1, <2>2, <2>3
<1> HIDE DEF n, e, k, S, l
<1>9. Read' = Read
  <2>1. Read' = End(sent', n + 1) - Len(recv_buffer) - Len(wire')
    BY <1>1, <1>2 DEF Read
  <2>2. Read = l - Len(recv_buffer) - Len(wire) /\ l \in Nat
    BY <1>0 DEF Read, n, l
  <2>3. End(sent', n + 1) = l + k /\ Len(wire') = Len(wire) + k
    BY <1>7, <1>8
  <2>4. Read' = (l + k) - Len(recv_buffer) - (Len(wire) + k)
    BY <2>1, <2>3
  <2> QED
    BY <1>0, <1>4, <2>2, <2>4
<1>10. TypeOK'
  BY <1>0, <1>1, <1>2, <1>8 DEF Safe, TypeOK, Requests, Byte
<1>11. /\ \A i \in 1..Len(recv_buffer) : recv_buffer[i] = S[Read + i]
       /\ \A i \in 1..Len(wire) : wire[i] = S[Read + Len(recv_buffer) + i]
  BY DEF Safe, StreamInv, Window, S, n
<1>12. StreamInv'
  <2> DEFINE r == Read
             m == Len(recv_buffer)
             w == Len(wire)
             T == Stream(sent', n + 1)
  <2>1. l = r + m + w /\ r \in Nat /\ m \in Nat /\ w \in Nat /\ T = S \o e
    BY <1>0, <1>5 DEF l, n, S
  <2>2. \A i \in 1..m : recv_buffer[i] = T[r + i]
    <3> TAKE i \in 1..m
    <3>1. r + i \in 1..l
      BY <2>1
    <3> QED
      BY <1>6, <1>11, <2>1, <3>1
  <2>3. \A i \in 1..(w + k) : wire'[i] = T[(r + m) + i]
    <3> TAKE i \in 1..(w + k)
    <3>1. CASE i <= w
      <4>1. (r + m) + i \in 1..l /\ i \in 1..w
        BY <2>1, <3>1
      <4> QED
        BY <1>6, <1>8, <1>11, <2>1, <4>1
    <3>2. CASE i > w
      <4> DEFINE j == i - w
      <4>1. j \in 1..k /\ i = w + j /\ (r + m) + i = l + j
        BY <1>4, <2>1, <3>2
      <4> HIDE DEF j
      <4>2. wire'[i] = e[j] /\ T[(r + m) + i] = e[j]
        BY <1>6, <1>8, <2>1, <4>1
      <4> QED
        BY <4>2
    <3> QED
      BY <2>1, <3>1, <3>2
  <2>4. r + m <= l + k /\ (r + m) + (w + k) <= l + k /\ r + m \in Nat
    BY <1>4, <2>1
  <2>5. r' = r /\ recv_buffer' = recv_buffer /\ Len(sent') = n + 1 /\ Len(wire') = w + k
    BY <1>1, <1>2, <1>8, <1>9 DEF n
  <2> HIDE DEF r, m, w, T
  <2>6. Window(recv_buffer, sent', r)
    BY <1>0, <1>7, <2>1, <2>2, <2>4, <2>5 DEF Window, m, T
  <2>7. Window(wire', sent', r + m)
    BY <1>7, <1>8, <2>3, <2>4, <2>5 DEF Window, T
  <2> QED
    BY <2>5, <2>6, <2>7 DEF StreamInv, r, m
<1>13. ASSUME NEW m, Clean(m)'
       PROVE  Clean(m)
  <2>1. \A i \in 1..n : i \in DOMAIN sent' /\ sent'[i] = sent[i]
    BY <1>0, <1>2 DEF n, Requests
  <2> QED
    BY <1>0, <1>13, <2>1 DEF Clean, n
<1>14. HandledInv'
  <2>1. \A i \in 1..n : i \in 1..Len(sent') /\ sent'[i] = sent[i] /\ End(sent', i) = End(sent, i)
    BY <1>0, <1>2 DEF n
  <2> QED
    BY <1>1, <1>9, <2>1 DEF Safe, HandledInv, n
<1>15. AlignedInv'
  <2> SUFFICES ASSUME Clean(Len(answers))'
               PROVE  /\ Len(answers) <= Len(sent') /\ Read = End(sent', Len(answers))
                      /\ rpc = "recv" /\ Len(answers) < Len(sent') =>
                           Read + Len(recv_buffer) < End(sent', Len(answers) + 1)
    BY <1>1, <1>9 DEF AlignedInv
  <2> DEFINE m == Len(answers)
  <2>1. Clean(m)
    <3>1. PICK c : c = Len(answers)
      OBVIOUS
    <3>2. Clean(c)'
      BY <1>1, <3>1
    <3> QED
      BY <1>13, <3>1, <3>2
  <2>2. /\ m <= n /\ Read = End(sent, m) /\ m \in Nat /\ n \in Nat
        /\ rpc = "recv" /\ m < n => Read + Len(recv_buffer) < End(sent, m + 1)
    BY <1>0, <2>1 DEF Safe, AlignedInv, n
  <2> HIDE DEF m
  <2>3. m <= n + 1 /\ Read = End(sent', m)
    BY <1>2, <2>2
  <2>4. CASE m < n
    <3>1. m + 1 \in 0..n
      BY <2>2, <2>4
    <3> QED
      BY <1>2, <2>2, <2>3, <2>4, <3>1 DEF m
  <2>5. CASE m = n
    <3>1. Read + Len(recv_buffer) < End(sent', m + 1)
      BY <1>0, <1>4, <1>7, <2>2, <2>5 DEF l, n
    <3> QED
      BY <1>2, <2>3, <3>1 DEF m
  <2> QED
    BY <2>2, <2>4, <2>5
<1>16. OrderInv'
  <2> SUFFICES ASSUME NEW i \in 1..Len(answers), Clean(i - 1)'
               PROVE  i \in 1..Len(sent') /\ answers[i] = [number |-> i, ok |-> Understood(sent'[i])]
    BY <1>1 DEF OrderInv
  <2>1. Clean(i - 1)
    BY <1>13
  <2>2. i \in 1..n /\ answers[i] = [number |-> i, ok |-> Understood(sent[i])]
    BY <2>1 DEF Safe, OrderInv, n
  <2>3. i \in 1..Len(sent') /\ sent'[i] = sent[i]
    BY <1>0, <1>2, <2>2 DEF n
  <2> QED
    BY <2>2, <2>3
<1> QED
  BY <1>10, <1>12, <1>14, <1>15, <1>16 DEF Safe

(* Receiving moves the line between the two windows. *)
LEMMA ReceiveStep ==
  ASSUME Safe, Receive
  PROVE  Safe'
<1>0. /\ sent \in Requests /\ Read \in Nat
      /\ recv_buffer \in Seq(Byte) /\ Len(recv_buffer) \in Nat
      /\ wire \in Seq(Byte) /\ Len(wire) \in Nat
      /\ End(sent, Len(sent)) \in Nat
      /\ End(sent, Len(sent)) = Read + Len(recv_buffer) + Len(wire)
  BY Numbers
<1>1. PICK n \in 1..Len(wire) : /\ recv_buffer' = recv_buffer \o SubSeq(wire, 1, n)
                                /\ wire' = From(wire, n + 1)
  BY DEF Receive
<1>2. rpc' = "decode" /\ UNCHANGED <<sent, answers>>
  BY DEF Receive
<1> DEFINE u == SubSeq(wire, 1, n)
           S == Stream(sent, Len(sent))
           r == Read
           m == Len(recv_buffer)
           w == Len(wire)
<1>3. n \in 0..w /\ n \in Nat /\ n <= w
  BY <1>0
<1>4. /\ wire' \in Seq(Byte) /\ Len(wire') = w - n
      /\ u \in Seq(Byte) /\ Len(u) = n
  BY <1>0, <1>1, <1>3, Cut
<1>5. Window(recv_buffer, sent, r) /\ Window(wire, sent, r + m)
  BY DEF Safe, StreamInv
<1>6. Window(wire', sent, (r + m) + n) /\ Window(u, sent, r + m)
  BY <1>0, <1>1, <1>3, <1>5, WindowCut
<1> HIDE DEF u
<1>7. /\ recv_buffer' \in Seq(Byte) /\ Len(recv_buffer') = m + n
      /\ \A i \in 1..m : recv_buffer'[i] = recv_buffer[i]
      /\ \A i \in 1..n : recv_buffer'[m + i] = u[i]
  <2>1. recv_buffer' = recv_buffer \o u
    BY <1>1 DEF u
  <2>2. /\ recv_buffer \o u \in Seq(Byte) /\ Len(recv_buffer \o u) = m + n
        /\ \A i \in 1..m : (recv_buffer \o u)[i] = recv_buffer[i]
    BY <1>0, <1>4, Joined
  <2>3. \A i \in 1..n : (recv_buffer \o u)[m + i] = u[i]
    BY <1>0, <1>4, Joined
  <2> QED
    BY <2>1, <2>2, <2>3
<1>8. Read' = r
  <2>1. Read' = End(sent, Len(sent)) - Len(recv_buffer') - Len(wire')
    BY <1>2, Zenon DEF Read
  <2>2. Read' = (Read + m + w) - (m + n) - (w - n)
    BY <1>0, <1>4, <1>7, <2>1
  <2> QED
    BY <1>0, <1>3, <2>2
<1>9. TypeOK'
  BY <1>2, <1>4, <1>7 DEF Safe, TypeOK, Byte
<1> HIDE DEF r, m, w, S
<1>10. Window(recv_buffer', sent, r)
  <2>1. \A i \in 1..m : recv_buffer[i] = S[r + i]
    BY <1>5 DEF Window, S, m
  <2>2. \A i \in 1..n : u[i] = S[(r + m) + i]
    BY <1>4, <1>6 DEF Window, S
  <2>3. r \in Nat /\ m \in Nat /\ w \in Nat /\ r + (m + n) <= End(sent, Len(sent))
    BY <1>0, <1>3 DEF r, m, w
  <2>4. \A i \in 1..(m + n) : recv_buffer'[i] = S[r + i]
    <3> TAKE i \in 1..(m + n)
    <3>1. CASE i <= m
      <4>1. i \in 1..m
        BY <2>3, <3>1
      <4> QED
        BY <1>7, <2>1, <4>1
    <3>2. CASE i > m
      <4> DEFINE j == i - m
      <4>1. j \in 1..n /\ i = m + j /\ r + i = (r + m) + j
        BY <1>3, <2>3, <3>2
      <4> HIDE DEF j
      <4>2. recv_buffer'[i] = u[j] /\ u[j] = S[(r + m) + j]
        BY <1>7, <2>2, <4>1
      <4> QED
        BY <4>1, <4>2
    <3> QED
      BY <2>3, <3>1, <3>2
  <2> QED
    BY <1>7, <2>3, <2>4 DEF Window, S
<1>11. StreamInv'
  <2>1. Read' + Len(recv_buffer') = (r + m) + n
    BY <1>0, <1>3, <1>7, <1>8 DEF r, m
  <2> QED
    BY <1>2, <1>6, <1>8, <1>10, <2>1 DEF StreamInv
<1>12. HandledInv'
  BY <1>2, <1>8 DEF Safe, HandledInv, r
<1>13. AlignedInv'
  <2>1. Clean(Len(answers))' => Clean(Len(answers))
    BY <1>2 DEF Clean
  <2> QED
    BY <1>2, <1>8, <2>1 DEF Safe, AlignedInv, r
<1>14. OrderInv'
  <2>1. \A i : Clean(i - 1)' => Clean(i - 1)
    BY <1>2 DEF Clean
  <2> QED
    BY <1>2, <2>1 DEF Safe, OrderInv
<1> QED
  BY <1>9, <1>11, <1>12, <1>13, <1>14 DEF Safe

(* What decoding leaves in the buffer is a window into the stream again. *)
LEMMA RestStep ==
  ASSUME Safe, NEW c \in 0..Len(recv_buffer), recv_buffer' = From(recv_buffer, c + 1),
         UNCHANGED <<sent, wire>>
  PROVE  /\ StreamInv' /\ Read' = Read + c /\ recv_buffer' \in Seq(Byte)
         /\ Len(recv_buffer') = Len(recv_buffer) - c
<1>1. /\ sent \in Requests /\ Read \in Nat
      /\ recv_buffer \in Seq(Byte) /\ Len(recv_buffer) \in Nat
      /\ Len(wire) \in Nat /\ End(sent, Len(sent)) \in Nat
      /\ End(sent, Len(sent)) = Read + Len(recv_buffer) + Len(wire)
  BY Numbers
<1>2. recv_buffer' \in Seq(Byte) /\ Len(recv_buffer') = Len(recv_buffer) - c
  BY <1>1, Cut
<1>3. Read' = Read + c
  <2>1. Read' = End(sent, Len(sent)) - Len(recv_buffer') - Len(wire)
    BY Zenon DEF Read
  <2>2. c \in Nat
    BY <1>1
  <2> QED
    BY <1>1, <1>2, <2>1, <2>2
<1>4. Window(recv_buffer, sent, Read) /\ Window(wire, sent, Read + Len(recv_buffer))
  BY DEF Safe, StreamInv
<1>5. Window(recv_buffer', sent, Read + c)
  BY <1>1, <1>4, WindowCut
<1>6. Read' + Len(recv_buffer') = Read + Len(recv_buffer)
  BY <1>1, <1>2, <1>3
<1>7. StreamInv'
  BY <1>3, <1>4, <1>5, <1>6 DEF StreamInv
<1> QED
  BY <1>2, <1>3, <1>7

(* While nothing was left behind, the buffer begins with the next request.     *)
LEMMA NextFrame ==
  ASSUME Safe, Clean(Len(answers)), NEW n, n = Len(answers) + 1
  PROVE  /\ Len(answers) < Len(sent) =>
              /\ n \in 1..Len(sent) /\ Read = End(sent, n - 1)
              /\ Window(recv_buffer, sent, End(sent, n - 1))
              /\ End(sent, n) = Read + Size(sent[n]) /\ Size(sent[n]) \in Nat
         /\ Len(answers) >= Len(sent) =>
              Len(answers) = Len(sent) /\ D = Outcome("more", 0, recv_buffer)
<1>1. /\ sent \in Requests /\ Read \in Nat /\ Len(sent) \in Nat /\ Len(answers) \in Nat
      /\ recv_buffer \in Seq(Byte) /\ Len(recv_buffer) \in Nat /\ Len(wire) \in Nat
      /\ End(sent, Len(sent)) = Read + Len(recv_buffer) + Len(wire)
  BY Numbers
<1>2. Len(answers) <= Len(sent) /\ Read = End(sent, Len(answers))
  BY DEF Safe, AlignedInv
<1>3. ASSUME Len(answers) < Len(sent)
      PROVE  /\ n \in 1..Len(sent) /\ Read = End(sent, n - 1)
             /\ Window(recv_buffer, sent, End(sent, n - 1))
             /\ End(sent, n) = Read + Size(sent[n]) /\ Size(sent[n]) \in Nat
  <2>1. n \in 1..Len(sent) /\ n - 1 = Len(answers)
    BY <1>1, <1>3
  <2>2. Window(recv_buffer, sent, Read)
    BY DEF Safe, StreamInv
  <2>3. End(sent, n) = End(sent, n - 1) + Size(sent[n]) /\ Size(sent[n]) \in Nat
    BY <1>1, <2>1, StreamEnds, RequestAt
  <2> QED
    BY <1>2, <2>1, <2>2, <2>3
<1>4. ASSUME Len(answers) >= Len(sent)
      PROVE  Len(answers) = Len(sent) /\ D = Outcome("more", 0, recv_buffer)
  <2>1. Len(answers) = Len(sent)
    BY <1>1, <1>2, <1>4
  <2>2. Len(recv_buffer) < HEADER_SIZE
    BY <1>1, <1>2, <2>1 DEF HEADER_SIZE
  <2> QED
    BY <2>1, <2>2, Zenon DEF D, Decoded
<1> QED
  BY <1>3, <1>4

LEMMA NeedMoreStep ==
  ASSUME Safe, NeedMore
  PROVE  Safe'
<1>0. /\ sent \in Requests /\ Read \in Nat /\ Len(answers) \in Nat /\ Len(sent) \in Nat
      /\ recv_buffer \in Seq(Byte) /\ Len(recv_buffer) \in Nat
  BY Numbers
<1>1. /\ D.kind = "more" /\ recv_buffer' = D.rest /\ rpc' = "recv"
      /\ UNCHANGED <<sent, wire, answers>>
  BY DEF NeedMore
<1>2. PICK c \in 0..Len(recv_buffer) : D.rest = From(recv_buffer, c + 1)
  <2>1. Window(recv_buffer, sent, Read)
    BY DEF Safe, StreamInv
  <2> QED
    BY <1>0, <2>1, DecodedAnywhere DEF D
<1>3. /\ StreamInv' /\ Read' = Read + c /\ recv_buffer' \in Seq(Byte)
      /\ Len(recv_buffer') = Len(recv_buffer) - c /\ c \in Nat
  BY <1>0, <1>1, <1>2, RestStep
<1>4. TypeOK'
  BY <1>1, <1>3 DEF Safe, TypeOK, Byte
<1>5. \A i : Clean(i)' => Clean(i)
  BY <1>1 DEF Clean
<1>6. HandledInv'
  <2>1. \A i \in 1..Len(answers) : answers[i].ok =>
          /\ answers[i].number \in 1..Len(sent) /\ Understood(sent[answers[i].number])
          /\ End(sent, answers[i].number) <= Read + c
    <3> SUFFICES ASSUME NEW i \in 1..Len(answers), answers[i].ok
                 PROVE  /\ answers[i].number \in 1..Len(sent)
                        /\ Understood(sent[answers[i].number])
                        /\ End(sent, answers[i].number) <= Read + c
      OBVIOUS
    <3>1. /\ answers[i].number \in 1..Len(sent) /\ Understood(sent[answers[i].number])
          /\ End(sent, answers[i].number) <= Read
      BY DEF Safe, HandledInv
    <3>2. End(sent, answers[i].number) \in Nat
      BY <1>0, <3>1, StreamEnds
    <3> QED
      BY <1>0, <1>3, <3>1, <3>2
  <2> QED
    BY <1>1, <1>3, <2>1 DEF Safe, HandledInv
<1>7. AlignedInv'
  <2> SUFFICES ASSUME Clean(Len(answers))
               PROVE  /\ Len(answers) <= Len(sent) /\ Read' = End(sent, Len(answers))
                      /\ Len(answers) < Len(sent) =>
                           Read' + Len(recv_buffer') < End(sent, Len(answers) + 1)
    <3>1. Clean(Len(answers))' => Clean(Len(answers))
      BY <1>1 DEF Clean
    <3> QED
      BY <1>1, <3>1 DEF AlignedInv
  <2> DEFINE n == Len(answers) + 1
  <2>1. Len(answers) <= Len(sent) /\ Read = End(sent, Len(answers))
    BY DEF Safe, AlignedInv
  <2>2. CASE Len(answers) < Len(sent)
    <3>1. /\ n \in 1..Len(sent) /\ Window(recv_buffer, sent, End(sent, n - 1))
          /\ End(sent, n) = Read + Size(sent[n]) /\ Size(sent[n]) \in Nat
      BY <2>2, NextFrame
    <3>2. D.rest = recv_buffer /\ Len(recv_buffer) < Size(sent[n])
      <4>1. \/ D = Outcome("more", 0, recv_buffer) /\ Len(recv_buffer) < Size(sent[n])
            \/ \E rest : D = Outcome("version", n, rest)
            \/ \E rest : D = Outcome("request", n, rest)
            \/ \E rest : D = Outcome("data", n, rest)
        BY <1>0, <3>1, DecodedAligned DEF D
      <4> QED
        BY <1>1, <4>1 DEF Outcome
    <3>3. c = 0
      BY <1>0, <1>1, <1>3, <3>2
    <3> QED
      BY <1>0, <1>1, <1>3, <2>1, <2>2, <3>1, <3>2, <3>3
  <2>3. CASE ~(Len(answers) < Len(sent))
    <3>1. D = Outcome("more", 0, recv_buffer)
      BY <1>0, <2>3, NextFrame
    <3>2. D.rest = recv_buffer
      BY <3>1 DEF Outcome
    <3>3. c = 0
      BY <1>0, <1>1, <1>3, <3>2
    <3> QED
      BY <1>0, <1>3, <2>1, <2>3, <3>3
  <2> QED
    BY <2>2, <2>3
<1>8. OrderInv'
  BY <1>1, <1>5 DEF Safe, OrderInv
<1> QED
  BY <1>3, <1>4, <1>6, <1>7, <1>8 DEF Safe

(* A request is handled or refused: the buffer is cut behind what was decoded. *)
LEMMA AnswerStep ==
  ASSUME Safe, NEW ok \in BOOLEAN, ok <=> D.kind = "request",
         D.kind \in {"request", "version", "data"}, recv_buffer' = D.rest,
         answers' = Append(answers, [number |-> D.number, ok |-> ok]),
         rpc' \in {"decode", "refused"}, UNCHANGED <<sent, wire>>
  PROVE  Safe'
<1> DEFINE m == Len(answers)
           s == recv_buffer
           r == Read
           a == [number |-> D.number, ok |-> ok]
<1>0. /\ sent \in Requests /\ r \in Nat /\ m \in Nat /\ Len(sent) \in Nat
      /\ s \in Seq(Byte) /\ Len(s) \in Nat
  BY Numbers
<1>1. Window(s, sent, r)
  BY DEF Safe, StreamInv
<1>2. PICK d : d = Decoded(s)
  OBVIOUS
<1>3. /\ d = D /\ d.number \in Byte
      /\ \E c \in 0..Len(s) : d.rest = From(s, c + 1)
      /\ d.kind = "request" =>
           \E n \in 1..Len(sent) :
             /\ d.number = n /\ Understood(sent[n]) /\ r <= End(sent, n - 1)
             /\ End(sent, n) - r \in 0..Len(s)
             /\ d.rest = From(s, (End(sent, n) - r) + 1)
  <2>1. d = D
    BY <1>2 DEF D
  <2> HIDE DEF s, r
  <2>2. d.number \in Byte /\ \E c \in 0..Len(s) : d.rest = From(s, c + 1)
    BY <1>0, <1>1, <1>2, DecodedAnywhere
  <2>3. d.kind = "request" =>
          \E n \in 1..Len(sent) :
            /\ d.number = n /\ Understood(sent[n]) /\ r <= End(sent, n - 1)
            /\ End(sent, n) - r \in 0..Len(s)
            /\ d.rest = From(s, (End(sent, n) - r) + 1)
    BY <1>0, <1>1, <1>2, DecodedAnywhere
  <2> QED
    BY <2>1, <2>2, <2>3
<1>4. PICK c \in 0..Len(s) : d.rest = From(s, c + 1)
  BY <1>3
<1>5. StreamInv' /\ recv_buffer' \in Seq(Byte) /\ Read' = r + c /\ c \in Nat
  BY <1>0, <1>3, <1>4, RestStep
<1>6. /\ Len(answers') = m + 1 /\ answers'[m + 1] = a /\ m + 1 \in 1..(m + 1)
      /\ \A i \in 1..m : answers'[i] = answers[i]
      /\ answers' \in Seq([number : Byte, ok : BOOLEAN])
  <2>1. answers \in Seq([number : Byte, ok : BOOLEAN])
    BY DEF Safe, TypeOK, Byte
  <2>2. a \in [number : Byte, ok : BOOLEAN]
    BY <1>3
  <2>3. answers' = Append(answers, a)
    OBVIOUS
  <2> HIDE DEF a
  <2> QED
    BY <1>0, <2>1, <2>2, <2>3
<1>7. a.number = d.number /\ (a.ok <=> d.kind = "request")
  BY <1>3
<1>8. TypeOK'
  BY <1>5, <1>6 DEF Safe, TypeOK, Byte
<1>9. \A i \in 1..m : answers[i].ok =>
        /\ answers[i].number \in 1..Len(sent) /\ Understood(sent[answers[i].number])
        /\ End(sent, answers[i].number) <= r /\ End(sent, answers[i].number) \in Nat
  <2> TAKE i \in 1..m
  <2> HAVE answers[i].ok
  <2>1. /\ answers[i].number \in 1..Len(sent) /\ Understood(sent[answers[i].number])
        /\ End(sent, answers[i].number) <= r
    BY DEF Safe, HandledInv
  <2>2. answers[i].number \in 0..Len(sent)
    BY <1>0, <2>1
  <2> QED
    BY <1>0, <2>1, <2>2, StreamEnds
<1> HIDE DEF a, r
<1>10. a.ok => /\ a.number \in 1..Len(sent) /\ Understood(sent[a.number])
               /\ r <= End(sent, a.number - 1) /\ End(sent, a.number) <= r + c
  <2> SUFFICES ASSUME a.ok
               PROVE  /\ a.number \in 1..Len(sent) /\ Understood(sent[a.number])
                      /\ r <= End(sent, a.number - 1) /\ End(sent, a.number) <= r + c
    OBVIOUS
  <2>1. PICK n \in 1..Len(sent) :
          /\ d.number = n /\ Understood(sent[n]) /\ r <= End(sent, n - 1)
          /\ End(sent, n) - r \in 0..Len(s)
          /\ d.rest = From(s, (End(sent, n) - r) + 1)
    BY <1>3, <1>7
  <2> DEFINE e == End(sent, n) - r
  <2>2. e \in 0..Len(s) /\ d.rest = From(s, e + 1)
    BY <2>1
  <2>3. Len(d.rest) = Len(s) - c
    BY <1>0, <1>4, Cut
  <2> HIDE DEF e
  <2>4. Len(d.rest) = Len(s) - e
    BY <1>0, <2>2, Cut
  <2>5. e = c
    BY <1>0, <2>2, <2>3, <2>4
  <2>6. End(sent, n) \in Nat
    <3>1. n \in 0..Len(sent)
      BY <1>0
    <3> QED
      BY <1>0, <3>1, StreamEnds
  <2>7. End(sent, n) <= r + c
    BY <1>0, <1>5, <2>5, <2>6 DEF e
  <2> QED
    BY <1>7, <2>1, <2>7
<1>11. ASSUME NEW i \in 1..m, answers[i].ok, a.ok
       PROVE  answers[i].number < a.number
  <2> DEFINE x == answers[i].number
             y == a.number
  <2>1. /\ x \in 1..Len(sent) /\ y \in 1..Len(sent) /\ End(sent, x) <= End(sent, y - 1)
        /\ x - 1 \in 0..Len(sent) /\ y - 1 \in 0..Len(sent) /\ x \in 0..Len(sent)
    <3>1. /\ x \in 1..Len(sent) /\ y \in 1..Len(sent) /\ End(sent, x) <= r
          /\ r <= End(sent, y - 1) /\ End(sent, x) \in Nat
      BY <1>9, <1>10, <1>11
    <3>2. x - 1 \in 0..Len(sent) /\ y - 1 \in 0..Len(sent) /\ x \in 0..Len(sent)
      BY <1>0, <3>1
    <3>3. End(sent, y - 1) \in Nat
      BY <1>0, <3>2, StreamEnds
    <3> QED
      BY <1>0, <3>1, <3>2, <3>3
  <2> HIDE DEF x, y
  <2>2. /\ End(sent, x) = End(sent, x - 1) + Size(sent[x]) /\ Size(sent[x]) \in Nat
        /\ Size(sent[x]) > 0 /\ End(sent, x - 1) \in Nat /\ End(sent, y - 1) \in Nat
    <3>1. End(sent, x) = End(sent, x - 1) + Size(sent[x])
      BY <1>0, <2>1, StreamEnds
    <3>2. End(sent, x - 1) \in Nat /\ End(sent, y - 1) \in Nat
      BY <1>0, <2>1, StreamEnds
    <3>3. Size(sent[x]) \in Nat /\ Size(sent[x]) > 0
      <4>1. sent[x] \in Kinds
        BY <1>0, <2>1, RequestAt
      <4>2. Size(sent[x]) = 4 + Len(sent[x].body) /\ Len(sent[x].body) \in Nat
        BY <4>1, KindType DEF Byte
      <4> QED
        BY <4>2
    <3> QED
      BY <3>1, <3>2, <3>3
  <2>3. ASSUME y <= x PROVE FALSE
    <3>1. y - 1 <= x - 1
      BY <2>1, <2>3
    <3>2. End(sent, y - 1) <= End(sent, x - 1)
      BY <1>0, <2>1, <3>1, EndsGrow
    <3> QED
      BY <2>1, <2>2, <3>2
  <2>4. x < y
    BY <1>0, <2>1, <2>3
  <2> QED
    BY <2>4 DEF x, y
<1>12. HandledInv'
  <2>1. ASSUME NEW i \in 1..(m + 1), answers'[i].ok
        PROVE  /\ answers'[i].number \in 1..Len(sent)
               /\ Understood(sent[answers'[i].number])
               /\ End(sent, answers'[i].number) <= r + c
    <3>1. CASE i \in 1..m
      BY <1>0, <1>5, <1>6, <1>9, <2>1, <3>1
    <3>2. CASE i = m + 1
      BY <1>6, <1>10, <2>1, <3>2
    <3> QED
      BY <1>0, <3>1, <3>2
  <2>2. ASSUME NEW i \in 1..(m + 1), NEW j \in 1..(m + 1), i < j,
               answers'[i].ok, answers'[j].ok
        PROVE  answers'[i].number < answers'[j].number
    <3>1. i \in 1..m
      BY <1>0, <2>2
    <3>2. CASE j \in 1..m
      BY <1>6, <2>2, <3>1, <3>2 DEF Safe, HandledInv
    <3>3. CASE j = m + 1
      BY <1>6, <1>11, <2>2, <3>1, <3>3
    <3> QED
      BY <1>0, <3>2, <3>3
  <2>3. Len(answers') = m + 1 /\ sent' = sent /\ Read' = r + c
    BY <1>5, <1>6
  <2> HIDE DEF m
  <2> QED
    BY <2>1, <2>2, <2>3 DEF HandledInv
<1>13. ASSUME Clean(m)
       PROVE  /\ m + 1 \in 1..Len(sent)
              /\ a = [number |-> m + 1, ok |-> Understood(sent[m + 1])]
              /\ ~LeavesBody(sent[m + 1]) => r + c = End(sent, m + 1)
  <2> DEFINE n == m + 1
             k == Size(sent[n])
  <2>1. Len(answers) < Len(sent)
    <3>1. Len(answers) >= Len(sent) => D = Outcome("more", 0, recv_buffer)
      BY <1>13, NextFrame
    <3>2. D # Outcome("more", 0, recv_buffer)
      BY DEF Outcome
    <3> QED
      BY <1>0, <3>1, <3>2
  <2>2. /\ n \in 1..Len(sent) /\ Window(s, sent, End(sent, n - 1))
        /\ End(sent, n) = r + k /\ k \in Nat
    BY <1>13, <2>1, NextFrame DEF r
  <2>3. /\ a.number = n
        /\ ok <=> Understood(sent[n])
        /\ \/ Len(s) >= HEADER_SIZE /\ D.rest = From(s, HEADER_SIZE + 1)
              /\ sent[n].version # PROTOCOL_VERSION
           \/ Len(s) >= k /\ D.rest = From(s, k + 1)
    <3>1. \/ d = Outcome("more", 0, s)
          \/ /\ d = Outcome("version", n, From(s, HEADER_SIZE + 1))
             /\ Len(s) >= HEADER_SIZE /\ sent[n].version # PROTOCOL_VERSION
          \/ /\ d = Outcome("request", n, From(s, k + 1))
             /\ Len(s) >= k /\ Understood(sent[n])
          \/ /\ d = Outcome("data", n, From(s, k + 1))
             /\ Len(s) >= k /\ ~Understood(sent[n])
      BY <1>0, <1>2, <2>2, DecodedAligned
    <3>2. sent[n].version # PROTOCOL_VERSION => ~Understood(sent[n])
      BY DEF Understood
    <3> HIDE DEF n, k, s
    <3>3. \A kind, number, rest : /\ Outcome(kind, number, rest).kind = kind
                                  /\ Outcome(kind, number, rest).number = number
                                  /\ Outcome(kind, number, rest).rest = rest
      BY DEF Outcome
    <3>4. d.kind \in {"request", "version", "data"} /\ d = D
      BY <1>3
    <3>5. CASE /\ d = Outcome("version", n, From(s, HEADER_SIZE + 1))
               /\ Len(s) >= HEADER_SIZE /\ sent[n].version # PROTOCOL_VERSION
      BY <1>7, <3>2, <3>3, <3>4, <3>5
    <3>6. CASE /\ d = Outcome("request", n, From(s, k + 1))
               /\ Len(s) >= k /\ Understood(sent[n])
      BY <1>7, <3>3, <3>4, <3>6
    <3>7. CASE /\ d = Outcome("data", n, From(s, k + 1))
               /\ Len(s) >= k /\ ~Understood(sent[n])
      BY <1>7, <3>3, <3>4, <3>7
    <3>8. d # Outcome("more", 0, s)
      BY <3>3, <3>4
    <3> QED
      BY <3>1, <3>5, <3>6, <3>7, <3>8
  <2>4. a = [number |-> n, ok |-> Understood(sent[n])]
    <3>1. D.number = n
      BY <2>3 DEF a
    <3>2. ok = Understood(sent[n])
      BY <2>3, Zenon DEF Understood
    <3> QED
      BY <3>1, <3>2 DEF a
  <2>5. ~LeavesBody(sent[n]) => c = k
    <3> SUFFICES ASSUME ~LeavesBody(sent[n]) PROVE c = k
      OBVIOUS
    <3>1. Len(D.rest) = Len(s) - c /\ c <= Len(s)
      <4>1. Len(From(s, c + 1)) = Len(s) - c
        BY <1>0, <1>4, Cut
      <4> QED
        BY <1>0, <1>3, <1>4, <4>1
    <3>2. CASE Len(s) >= HEADER_SIZE /\ D.rest = From(s, HEADER_SIZE + 1)
               /\ sent[n].version # PROTOCOL_VERSION
      <4>1. sent[n].body = <<>>
        BY <3>2 DEF LeavesBody
      <4>2. k = HEADER_SIZE
        <5>1. Len(sent[n].body) = 0
          BY <4>1
        <5>2. Size(sent[n]) = HEADER_SIZE + 0
          BY <5>1, Zenon DEF Size
        <5> QED
          BY <5>2 DEF HEADER_SIZE
      <4>3. HEADER_SIZE \in 0..Len(s)
        BY <1>0, <3>2 DEF HEADER_SIZE
      <4>4. Len(D.rest) = Len(s) - HEADER_SIZE
        BY <1>0, <3>2, <4>3, Cut
      <4> QED
        BY <1>0, <1>5, <3>1, <4>2, <4>3, <4>4 DEF HEADER_SIZE
    <3>3. CASE Len(s) >= k /\ D.rest = From(s, k + 1)
      <4>1. k \in 0..Len(s)
        BY <1>0, <2>2, <3>3
      <4>2. Len(D.rest) = Len(s) - k
        BY <1>0, <3>3, <4>1, Cut
      <4> QED
        BY <1>0, <1>5, <2>2, <3>1, <4>2
    <3> QED
      BY <2>3, <3>2, <3>3
  <2> QED
    BY <2>2, <2>4, <2>5
<1>14. AlignedInv'
  <2>1. PICK l : l = m + 1
    OBVIOUS
  <2>2. Clean(l)' => Clean(m) /\ (m + 1 \in 1..Len(sent) => ~LeavesBody(sent[m + 1]))
    <3>1. DOMAIN sent = 1..Len(sent)
      BY Numbers
    <3> QED
      BY <1>0, <2>1, <3>1 DEF Clean
  <2>3. Clean(l)' => l <= Len(sent) /\ Read' = End(sent, l)
    BY <1>0, <1>5, <1>13, <2>1, <2>2
  <2>4. Clean(Len(answers))' => Clean(l)'
    BY <1>6, <2>1 DEF Clean
  <2> QED
    BY <1>6, <2>1, <2>3, <2>4 DEF AlignedInv
<1>15. OrderInv'
  <2>1. ASSUME NEW i \in 1..(m + 1), Clean(i - 1)'
        PROVE  i \in 1..Len(sent) /\ answers'[i] = [number |-> i, ok |-> Understood(sent[i])]
    <3>1. Clean(i - 1)
      BY <2>1 DEF Clean
    <3>2. CASE i \in 1..m
      BY <1>6, <3>1, <3>2 DEF Safe, OrderInv
    <3>3. CASE i = m + 1
      <4>1. i - 1 = m
        BY <1>0, <3>3
      <4>2. Clean(m)
        BY <3>1, <4>1
      <4> QED
        BY <1>6, <1>13, <3>3, <4>2
    <3> QED
      BY <1>0, <3>2, <3>3
  <2>2. Len(answers') = m + 1 /\ sent' = sent
    BY <1>6
  <2> HIDE DEF m
  <2> QED
    BY <2>1, <2>2 DEF OrderInv
<1> QED
  BY <1>5, <1>8, <1>12, <1>14, <1>15 DEF Safe

LEMMA SafeUnchanged ==
  ASSUME Safe, UNCHANGED <<sent, wire, recv_buffer, answers>>,
         rpc' \in {"closed", rpc}
  PROVE  Safe'
<1>1. Read' = Read
  BY DEF Read
<1>2. \A i : Clean(i)' => Clean(i)
  BY DEF Clean
<1>3. Clean(Len(answers))' => Clean(Len(answers))
  BY DEF Clean
<1>4. TypeOK'
  BY DEF Safe, TypeOK
<1>5. StreamInv' /\ HandledInv'
  BY <1>1 DEF Safe, StreamInv, HandledInv
<1>6. AlignedInv'
  BY <1>1, <1>3 DEF Safe, AlignedInv
<1>7. OrderInv'
  BY <1>2 DEF Safe, OrderInv
<1> QED
  BY <1>4, <1>5, <1>6, <1>7 DEF Safe

LEMMA SafeStep == Safe /\ [Next]_vars => Safe'
<1> SUFFICES ASSUME Safe, [Next]_vars PROVE Safe'
  OBVIOUS
<1>1. ASSUME NEW kind \in Kinds, Send(kind)
      PROVE  Safe'
  BY <1>1, SendStep
<1>2. CASE Receive
  BY <1>2, ReceiveStep
<1>3. CASE NeedMore
  BY <1>3, NeedMoreStep
<1>4. CASE HandleRequest
  <2>1. PICK ok \in BOOLEAN : ok = TRUE
    OBVIOUS
  <2>2. answers' = Append(answers, [number |-> D.number, ok |-> ok]) /\ ok
        /\ D.kind = "request"
    BY <1>4, <2>1, Zenon DEF HandleRequest
  <2>3. recv_buffer' = D.rest /\ rpc' \in {"decode", "refused"} /\ UNCHANGED <<sent, wire>>
    BY <1>4 DEF HandleRequest
  <2> QED
    BY <2>2, <2>3, AnswerStep
<1>5. CASE RefuseRequest
  <2>1. PICK ok \in BOOLEAN : ok = FALSE
    OBVIOUS
  <2>2. answers' = Append(answers, [number |-> D.number, ok |-> ok]) /\ ~ok
        /\ D.kind \in {"version", "data"}
    BY <1>5, <2>1, Zenon DEF RefuseRequest
  <2>3. recv_buffer' = D.rest /\ rpc' \in {"decode", "refused"} /\ UNCHANGED <<sent, wire>>
    BY <1>5 DEF RefuseRequest
  <2>4. D.kind # "request" /\ D.kind \in {"request", "version", "data"}
    BY <2>2
  <2> QED
    BY <2>2, <2>3, <2>4, AnswerStep
<1>6. CASE CloseConnection
  BY <1>6, SafeUnchanged DEF CloseConnection
<1>7. CASE UNCHANGED vars
  BY <1>7, SafeUnchanged DEF vars
<1> QED
  BY <1>1, <1>2, <1>3, <1>4, <1>5, <1>6, <1>7 DEF Next

(* The strengthened invariant holds of every connection. *)
THEOREM SafeHolds == Spec => []Safe
<1>1. Init => Safe
  BY SafeInit
<1> QED
  BY <1>1, SafeStep, PTL DEF Spec

-----------------------------------------------------------------------------
(* The thread holds bytes, and its answers carry the numbers it read. *)
THEOREM TypeCorrect == Spec => []TypeOK
<1>1. Safe => TypeOK
  BY DEF Safe
<1> QED
  BY <1>1, SafeHolds, PTL

(* Whatever is sent and however it is cut: only requests that were sent are    *)
(* handled, in order, and none twice.                                          *)
THEOREM NothingInventedHolds == Spec => []NothingInvented
<1>1. ASSUME Safe PROVE NothingInvented
  <2>1. DOMAIN answers = 1..Len(answers) /\ DOMAIN sent = 1..Len(sent)
    BY <1>1, Numbers
  <2> QED
    BY <1>1, <2>1 DEF Safe, HandledInv, NothingInvented
<1>2. Safe => NothingInvented
  BY <1>1
<1> QED
  BY <1>2, SafeHolds, PTL

(* Until a body is left behind, the n-th answer is that to the n-th request. *)
THEOREM AnsweredInOrderHolds == Spec => []AnsweredInOrder
<1>1. ASSUME Safe PROVE AnsweredInOrder
  <2>1. DOMAIN answers = 1..Len(answers) /\ DOMAIN sent = 1..Len(sent)
    BY <1>1, Numbers
  <2> QED
    BY <1>1, <2>1 DEF Safe, OrderInv, AnsweredInOrder
<1>2. Safe => AnsweredInOrder
  BY <1>1
<1> QED
  BY <1>2, SafeHolds, PTL

(* A thread that waits, its last answer no error, owes no answer. *)
THEOREM WaitsOnlyWhenAnsweredHolds == Spec => []WaitsOnlyWhenAnswered
<1>1. ASSUME Safe PROVE WaitsOnlyWhenAnswered
  <2>0. /\ sent \in Requests /\ Len(sent) \in Nat /\ Len(answers) \in Nat /\ Read \in Nat
        /\ Len(recv_buffer) \in Nat /\ Len(wire) \in Nat /\ DOMAIN sent = 1..Len(sent)
        /\ End(sent, Len(sent)) = Read + Len(recv_buffer) + Len(wire)
    BY <1>1, Numbers
  <2> SUFFICES ASSUME rpc = "recv", Clean(Len(sent)), NEW n \in 1..Len(sent),
                      End(sent, n) <= End(sent, Len(sent)) - Len(wire)
               PROVE  n <= Len(answers)
    BY <2>0 DEF WaitsOnlyWhenAnswered, End
  <2>1. Clean(Len(answers))
    BY <2>0 DEF Clean
  <2>2. Len(answers) < Len(sent) =>
          Read + Len(recv_buffer) < End(sent, Len(answers) + 1)
    BY <1>1, <2>1 DEF Safe, AlignedInv
  <2>3. ASSUME n > Len(answers) PROVE FALSE
    <3> DEFINE m == Len(answers) + 1
    <3>1. m \in 0..Len(sent) /\ n \in 0..Len(sent) /\ m <= n /\ Len(answers) < Len(sent)
      BY <2>0, <2>3
    <3>2. End(sent, m) <= End(sent, n) /\ End(sent, m) \in Nat /\ End(sent, n) \in Nat
      BY <2>0, <3>1, EndsGrow, StreamEnds
    <3> QED
      BY <2>0, <2>2, <3>1, <3>2
  <2> QED
    BY <2>0, <2>3
<1>2. Safe => WaitsOnlyWhenAnswered
  BY <1>1
<1> QED
  BY <1>2, SafeHolds, PTL
=============================================================================
