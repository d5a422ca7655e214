----------------------------- MODULE FramingProofs -----------------------------
(***************************************************************************)
(* Proofs about Framing, for any streams, any chunk and tag length and any *)
(* slices.  The writer's half: what it has sealed is cut into the chunks   *)
(* the stream must have, and what it holds is the text after them.  The    *)
(* reader's half: every byte there is was sealed with the text of its own  *)
(* place (Bytes), so a chunk that opens carries the text that is next.     *)
(***************************************************************************)
EXTENDS Framing, SequenceTheorems, TLAPS

\* The sealed bytes there can be: none is sealed with other text than that of
\* its place in its stream.
Bytes ==
  {b \in [stream : Streams, index : Nat, final : BOOLEAN,
          text : Seq(Streams \X Nat), at : Nat] :
     b.text = Text(b.stream, b.index * ChunkSize,
                   b.index * ChunkSize + TextLen(b.stream, b.index))}

\* The first N chunks of stream S are where they must be in BYTES.
Cut(bytes, s, n) ==
  \A i \in 0 .. n - 1 : \A j \in 1 .. SealedLen(s, i) :
    bytes[Start(i) + j] = Chunk(s, i)[j]

\* The text and the bytes before chunk N, which may be one past the last.
TextBefore(s, n) == IF n < Count(s) THEN n * ChunkSize ELSE s.len
BytesBefore(s, n) == IF n < Count(s) THEN Start(n) ELSE ExpectedLen(s.len)

WriterTypeOK ==
  /\ writing \in Streams \union {Nothing}
  /\ wbuf \in Seq(Streams \X Nat) /\ wnext \in Nat /\ received \in Nat
  /\ wire \in Seq(Bytes)
  /\ stored \in [Streams -> Seq(Bytes)]

\* What an encryptor has sealed, and what it holds.
UnderWay ==
  writing # Nothing =>
    /\ stored[writing] = <<>> /\ wnext < Count(writing)
    /\ Len(wire) = Start(wnext) /\ Cut(wire, writing, wnext)
    /\ IF received <= writing.len
       THEN /\ wnext * ChunkSize <= received
            /\ wbuf = Text(writing, wnext * ChunkSize, received)
       ELSE ~ChunkIsFull

Complete ==
  \A s \in Kept : Len(stored[s]) = ExpectedLen(s.len) /\ Cut(stored[s], s, Count(s))

Writer == WriterTypeOK /\ UnderWay /\ Complete

ReaderTypeOK ==
  /\ pc \in {"closed", "read", "push", "over"}
  /\ verdict \in {"none", "whole", "refused"}
  /\ rbuf \in Seq(Bytes) /\ rnext \in Nat /\ decoded \in Nat /\ jumps \in Nat
  /\ at \in [of : Streams \union {Nothing}, pos : Nat]

\* Where a reader is in its own life.
Reading ==
  /\ pc = "closed" =>
       /\ opened = Nothing /\ verdict = "none" /\ jumps = 0
       /\ rbuf = <<>> /\ rnext = 0 /\ decoded = 0 /\ held = <<>> /\ given = <<>>
  /\ pc \in {"read", "push"} => Sequential /\ verdict = "none" /\ at.of \in Streams
  /\ pc = "read" =>
       held = <<>> /\ ~ChunkIsHere /\ (rnext < Count(opened) \/ rbuf = <<>>)

\* What was given and what this push has opened are the text, as far as decoded.
TextFollows ==
  Sequential =>
    /\ opened \in Kept /\ Accepts(opened, asked.place)
    /\ rnext <= Count(opened) /\ decoded = TextBefore(opened, rnext)
    /\ Len(given) \in Nat /\ Len(given) <= decoded
    /\ given = Text(opened, 0, Len(given))
    /\ pc # "over" => held = Text(opened, Len(given), decoded)

\* Storage that never jumped is just behind the bytes that wait to be opened.
BytesFollow ==
  (Sequential /\ jumps = 0 /\ pc \in {"read", "push"}) =>
    /\ at.of = opened /\ at.pos <= Len(stored[opened])
    /\ BytesBefore(opened, rnext) + Len(rbuf) = at.pos
    /\ \A k \in 1 .. Len(rbuf) : rbuf[k] = stored[opened][BytesBefore(opened, rnext) + k]

Reader ==
  /\ ReaderTypeOK /\ Reading /\ TextFollows /\ BytesFollow
  /\ WholeIsWhole /\ HonestStorageIsEnough /\ RangedReadIsRight

IInv == Writer /\ Reader

-----------------------------------------------------------------------------
(* Geometry *)

LEMMA StreamLen == ASSUME NEW s \in Streams PROVE s.len \in Nat
BY FramingAssumption DEF FramingAssumption

LEMMA Sizes == ChunkSize \in Nat \ {0} /\ TagLen \in Nat \ {0}
BY FramingAssumption DEF FramingAssumption

\* Multiplying keeps order.
LEMMA TimesMonotonic ==
  ASSUME NEW a \in Nat, NEW b \in Nat, NEW c \in Nat, a <= b
  PROVE  a * c <= b * c /\ a * c \in Nat /\ b * c \in Nat
<1>1. PICK d \in Nat : b = a + d
  <2> b - a \in Nat /\ b = a + (b - a)
    OBVIOUS
  <2> QED
    OBVIOUS
<1>2. b * c = a * c + d * c
  BY <1>1
<1>3. a * c \in Nat /\ d * c \in Nat
  OBVIOUS
<1> QED
  BY <1>2, <1>3

LEMMA CeilDivIs ==
  ASSUME NEW a \in Nat, NEW b \in Nat \ {0}
  PROVE  /\ CeilDiv(a, b) \in Nat
         /\ a <= CeilDiv(a, b) * b
         /\ a # 0 => CeilDiv(a, b) # 0 /\ (CeilDiv(a, b) - 1) * b < a
         /\ a = 0 => CeilDiv(a, b) = 0
<1> DEFINE n == a + b - 1
           q == n \div b
<1>1. n \in Nat /\ q \in Nat /\ q * b <= n /\ n < q * b + b
  OBVIOUS
<1>2. (q - 1) * b = q * b - b
  BY <1>1
<1>3. a = 0 => q = 0
  <2>1. q # 0 => q * b >= b
    BY <1>1, TimesMonotonic
  <2> QED
    BY <1>1, <2>1
<1> QED
  BY <1>1, <1>2, <1>3 DEF CeilDiv

\* A stream has at least one chunk; all of them but the last are full, and the
\* last one has the rest.
LEMMA CountIs ==
  ASSUME NEW s \in Streams
  PROVE  /\ Count(s) \in Nat \ {0}
         /\ (Count(s) - 1) * ChunkSize <= s.len
         /\ s.len <= Count(s) * ChunkSize
<1>1. s.len \in Nat /\ ChunkSize \in Nat \ {0}
  BY StreamLen, Sizes
<1>2. CASE s.len = 0
  BY <1>1, <1>2 DEF Count
<1>3. CASE s.len # 0
  <2> DEFINE q == CeilDiv(s.len, ChunkSize)
  <2>1. q \in Nat \ {0} /\ s.len <= q * ChunkSize /\ (q - 1) * ChunkSize < s.len
    BY <1>1, <1>3, CeilDivIs
  <2>2. Count(s) = q
    BY <1>3 DEF Count
  <2>3. (q - 1) * ChunkSize <= s.len
    <3>1. (q - 1) * ChunkSize \in Nat
      BY <1>1, <2>1
    <3> QED
      BY <3>1, <2>1, <1>1
  <2> QED
    BY <2>1, <2>2, <2>3
<1> QED
  BY <1>2, <1>3

LEMMA TextLenIs ==
  ASSUME NEW s \in Streams, NEW i \in 0 .. Count(s) - 1
  PROVE  /\ TextLen(s, i) \in 0 .. ChunkSize
         /\ i + 1 < Count(s) => TextLen(s, i) = ChunkSize
         /\ SealedLen(s, i) \in Nat /\ SealedLen(s, i) >= 1
         /\ i * ChunkSize \in Nat
         /\ i * ChunkSize + TextLen(s, i) = TextBefore(s, i + 1)
         /\ i * ChunkSize + TextLen(s, i) <= s.len
         /\ TextBefore(s, i) = i * ChunkSize
<1>1. s.len \in Nat /\ ChunkSize \in Nat \ {0} /\ TagLen \in Nat \ {0} /\ Count(s) \in Nat \ {0}
  BY StreamLen, Sizes, CountIs
<1>2. i * ChunkSize \in Nat /\ (i + 1) * ChunkSize = i * ChunkSize + ChunkSize
  BY <1>1
<1>3. CASE i + 1 < Count(s)
  <2>1. (i + 1) * ChunkSize <= (Count(s) - 1) * ChunkSize
    BY <1>1, <1>3, TimesMonotonic
  <2> QED
    BY <1>1, <1>2, <1>3, <2>1, CountIs DEF TextLen, SealedLen, TextBefore
<1>4. CASE i + 1 = Count(s)
  <2>1. Count(s) * ChunkSize = i * ChunkSize + ChunkSize /\ i = Count(s) - 1
    BY <1>1, <1>2, <1>4
  <2>2. TextLen(s, i) = s.len - i * ChunkSize
    BY <2>1, <1>4 DEF TextLen
  <2> QED
    BY <1>1, <1>2, <1>4, <2>1, <2>2, CountIs DEF SealedLen, TextBefore
<1> QED
  BY <1>1, <1>3, <1>4

LEMMA StartIs ==
  ASSUME NEW i \in Nat
  PROVE  /\ Start(i) \in Nat /\ Start(0) = 0
         /\ Start(i + 1) = Start(i) + ChunkSize + TagLen
         /\ \A k \in Nat : i < k => Start(i + 1) <= Start(k)
<1>1. ChunkSize + TagLen \in Nat
  BY Sizes
<1>2. (i + 1) * (ChunkSize + TagLen) = i * (ChunkSize + TagLen) + (ChunkSize + TagLen)
  BY <1>1
<1>3. ASSUME NEW k \in Nat, i < k PROVE Start(i + 1) <= Start(k)
  BY <1>1, <1>3, TimesMonotonic DEF Start
<1> QED
  BY <1>1, <1>2, <1>3, Sizes DEF Start

\* Chunks follow one another, and the last one ends where the stream does.
LEMMA BytesBeforeIs ==
  ASSUME NEW s \in Streams, NEW i \in 0 .. Count(s) - 1
  PROVE  /\ BytesBefore(s, i) = Start(i) /\ BytesBefore(s, i) \in Nat
         /\ BytesBefore(s, i + 1) = Start(i) + SealedLen(s, i)
         /\ BytesBefore(s, i + 1) <= ExpectedLen(s.len)
         /\ BytesBefore(s, Count(s)) = ExpectedLen(s.len)
<1>1. s.len \in Nat /\ ChunkSize \in Nat \ {0} /\ TagLen \in Nat \ {0} /\ Count(s) \in Nat \ {0}
  BY StreamLen, Sizes, CountIs
<1>2. ExpectedLen(s.len) = s.len + TagLen * Count(s)
  <2>1. CeilDiv(s.len, ChunkSize) \in Nat
        /\ (s.len = 0 => CeilDiv(s.len, ChunkSize) = 0)
        /\ (s.len # 0 => CeilDiv(s.len, ChunkSize) # 0)
    BY <1>1, CeilDivIs
  <2>2. (IF CeilDiv(s.len, ChunkSize) > 1 THEN CeilDiv(s.len, ChunkSize) ELSE 1) = Count(s)
    BY <2>1 DEF Count
  <2> QED
    BY <2>2 DEF ExpectedLen
<1>3. ASSUME NEW n \in Nat
      PROVE  Start(n) = n * ChunkSize + TagLen * n
  BY <1>1 DEF Start
<1>4. SealedLen(s, i) = TextLen(s, i) + TagLen /\ TextLen(s, i) \in Nat /\ i * ChunkSize \in Nat
  BY TextLenIs DEF SealedLen
<1>5. CASE i + 1 < Count(s)
  <2>1. Start(i + 1) <= Start(Count(s) - 1)
    <3>1. CASE i + 1 = Count(s) - 1
      BY <3>1, <1>1, StartIs
    <3>2. CASE i + 1 # Count(s) - 1
      <4>1. i < Count(s) - 1
        BY <3>2, <1>1, <1>5
      <4> QED
        BY <4>1, <1>1, StartIs
    <3> QED
      BY <3>1, <3>2
  <2>2. Start(Count(s) - 1) = (Count(s) - 1) * ChunkSize + TagLen * (Count(s) - 1)
    BY <1>1, <1>3
  <2>3. TagLen * (Count(s) - 1) <= TagLen * Count(s)
    BY <1>1
  <2>4. Start(Count(s) - 1) <= ExpectedLen(s.len)
    BY <1>1, <1>2, <2>2, <2>3, CountIs
  <2>5. Start(i) \in Nat /\ Start(i + 1) = Start(i) + ChunkSize + TagLen /\ Start(i + 1) \in Nat
        /\ Start(Count(s) - 1) \in Nat
    BY <1>1, StartIs
  <2> QED
    BY <1>1, <1>2, <1>4, <1>5, <2>1, <2>4, <2>5, TextLenIs DEF BytesBefore
<1>6. CASE i + 1 = Count(s)
  <2>1. i * ChunkSize + TextLen(s, i) = s.len
    BY <1>1, <1>6, TextLenIs DEF TextBefore
  <2>2. TagLen * Count(s) = TagLen * i + TagLen
    BY <1>1, <1>6
  <2>3. Start(i) = i * ChunkSize + TagLen * i /\ Start(i) \in Nat
    BY <1>3, StartIs
  <2> QED
    BY <1>1, <1>2, <1>4, <1>6, <2>1, <2>2, <2>3 DEF BytesBefore
<1> QED
  BY <1>1, <1>5, <1>6

-----------------------------------------------------------------------------
(* Texts and sealed bytes *)

LEMMA TextIs ==
  ASSUME NEW s \in Streams, NEW a \in Nat, NEW b \in Nat, a <= b
  PROVE  /\ Text(s, a, b) \in Seq(Streams \X Nat)
         /\ Len(Text(s, a, b)) = b - a
         /\ \A k \in 1 .. b - a : Text(s, a, b)[k] = <<s, a + k>>
<1>1. b - a \in Nat /\ \A k \in 1 .. b - a : <<s, a + k>> \in Streams \X Nat
  OBVIOUS
<1> QED
  BY <1>1 DEF Text

\* What a concatenation has where.
LEMMA JoinIs ==
  ASSUME NEW S, NEW x \in Seq(S), NEW y \in Seq(S), NEW m, NEW n, Len(x) = m, Len(y) = n
  PROVE  /\ x \o y \in Seq(S) /\ Len(x \o y) = m + n
         /\ \A k \in 1 .. m : (x \o y)[k] = x[k]
         /\ \A k \in 1 .. n : (x \o y)[m + k] = y[k]
<1>1. Len(x) \in Nat /\ Len(y) \in Nat
  OBVIOUS
<1>2. /\ x \o y \in Seq(S) /\ Len(x \o y) = Len(x) + Len(y)
      /\ \A k \in 1 .. Len(x) + Len(y) : (x \o y)[k] =
           IF k <= Len(x) THEN x[k] ELSE y[k - Len(x)]
  BY ConcatProperties
<1>3. ASSUME NEW k \in 1 .. Len(y) PROVE (x \o y)[Len(x) + k] = y[k]
  <2>1. Len(x) + k \in 1 .. Len(x) + Len(y) /\ ~(Len(x) + k <= Len(x)) /\ Len(x) + k - Len(x) = k
    BY <1>1
  <2> QED
    BY <1>2, <2>1
<1>4. ASSUME NEW k \in 1 .. Len(x) PROVE (x \o y)[k] = x[k]
  BY <1>1, <1>2
<1> QED
  BY <1>2, <1>3, <1>4

LEMMA TextJoins ==
  ASSUME NEW s \in Streams, NEW a \in Nat, NEW b \in Nat, NEW c \in Nat, a <= b, b <= c
  PROVE  Text(s, a, b) \o Text(s, b, c) = Text(s, a, c)
<1> DEFINE T == Streams \X Nat
           x == Text(s, a, b)
           y == Text(s, b, c)
           z == Text(s, a, c)
<1>0. a <= c
  OBVIOUS
<1>1. x \in Seq(T) /\ Len(x) = b - a /\ \A k \in 1 .. b - a : x[k] = <<s, a + k>>
  BY TextIs
<1>2. y \in Seq(T) /\ Len(y) = c - b /\ \A k \in 1 .. c - b : y[k] = <<s, b + k>>
  BY TextIs
<1>3. z \in Seq(T) /\ Len(z) = c - a /\ \A k \in 1 .. c - a : z[k] = <<s, a + k>>
  BY <1>0, TextIs
<1> HIDE DEF T, x, y, z
<1>4. /\ x \o y \in Seq(T) /\ Len(x \o y) = c - a
      /\ \A k \in 1 .. b - a : (x \o y)[k] = x[k]
      /\ \A k \in 1 .. c - b : (x \o y)[b - a + k] = y[k]
  BY <1>1, <1>2, JoinIs
<1>5. ASSUME NEW k \in 1 .. c - a PROVE (x \o y)[k] = z[k]
  <2>1. CASE k <= b - a
    <3>1. k \in 1 .. b - a
      BY <2>1
    <3> QED
      BY <3>1, <1>1, <1>3, <1>4
  <2>2. CASE ~(k <= b - a)
    <3>1. k - (b - a) \in 1 .. c - b /\ b + (k - (b - a)) = a + k /\ b - a + (k - (b - a)) = k
      BY <2>2
    <3> QED
      BY <3>1, <1>2, <1>3, <1>4
  <2> QED
    BY <2>1, <2>2
<1>6. x \o y = z
  <2>1. Len(x \o y) = Len(z) /\ Len(z) = c - a
    BY <1>3, <1>4
  <2>2. \A k \in 1 .. Len(z) : (x \o y)[k] = z[k]
    BY <1>5, <2>1
  <2> QED
    BY <1>3, <1>4, <2>1, <2>2, SeqEqual
<1> QED
  BY <1>6 DEF x, y, z

\* Cutting a text gives the texts of the two halves.
LEMMA TextCut ==
  ASSUME NEW s \in Streams, NEW a \in Nat, NEW b \in Nat, NEW c \in Nat, a <= b, b <= c
  PROVE  /\ SubSeq(Text(s, a, c), 1, b - a) = Text(s, a, b)
         /\ SubSeq(Text(s, a, c), b - a + 1, Len(Text(s, a, c))) = Text(s, b, c)
<1> DEFINE T == Streams \X Nat
           x == Text(s, a, b)
           y == Text(s, b, c)
           z == Text(s, a, c)
<1>0. a <= c
  OBVIOUS
<1>1. x \in Seq(T) /\ Len(x) = b - a /\ \A k \in 1 .. b - a : x[k] = <<s, a + k>>
  BY TextIs
<1>2. y \in Seq(T) /\ Len(y) = c - b /\ \A k \in 1 .. c - b : y[k] = <<s, b + k>>
  BY TextIs
<1>3. z \in Seq(T) /\ Len(z) = c - a /\ \A k \in 1 .. c - a : z[k] = <<s, a + k>>
  BY <1>0, TextIs
<1> HIDE DEF T, x, y, z
<1>4. SubSeq(z, 1, b - a) = x
  <2> DEFINE w == SubSeq(z, 1, b - a)
  <2>1. \A k \in 1 .. b - a : z[k] \in T
    BY <1>3, ElementOfSeq
  <2>2. /\ w \in Seq(T) /\ Len(w) = b - a /\ \A k \in 1 .. b - a : w[k] = z[k]
    BY <2>1, SubSeqProperties
  <2> HIDE DEF w
  <2>3. ASSUME NEW k \in 1 .. b - a PROVE w[k] = x[k]
    <3>1. k \in 1 .. c - a
      OBVIOUS
    <3> QED
      BY <3>1, <2>2, <1>1, <1>3
  <2>4. w = x
    BY <2>2, <2>3, <1>1, SeqEqual
  <2> QED
    BY <2>4 DEF w
<1>5. SubSeq(z, b - a + 1, c - a) = y
  <2> DEFINE w == SubSeq(z, b - a + 1, c - a)
  <2>1. \A k \in b - a + 1 .. c - a : z[k] \in T
    BY <1>3, ElementOfSeq
  <2>2. /\ w \in Seq(T) /\ Len(w) = c - b /\ \A k \in 1 .. c - b : w[k] = z[b - a + k]
    BY <2>1, SubSeqProperties
  <2> HIDE DEF w
  <2>3. ASSUME NEW k \in 1 .. c - b PROVE w[k] = y[k]
    <3>1. b - a + k \in 1 .. c - a /\ a + (b - a + k) = b + k
      OBVIOUS
    <3> QED
      BY <3>1, <2>2, <1>2, <1>3
  <2>4. w = y
    BY <2>2, <2>3, <1>2, SeqEqual
  <2> QED
    BY <2>4 DEF w
<1> QED
  BY <1>3, <1>4, <1>5 DEF x, y, z

\* The text of a chunk is as long as the chunk says.
LEMMA ChunkTextIs ==
  ASSUME NEW s \in Streams, NEW i \in 0 .. Count(s) - 1
  PROVE  LET text == Text(s, i * ChunkSize, i * ChunkSize + TextLen(s, i))
         IN  text \in Seq(Streams \X Nat) /\ Len(text) = TextLen(s, i) /\ Len(text) \in Nat
<1> DEFINE a == i * ChunkSize
           b == a + TextLen(s, i)
<1>1. a \in Nat /\ TextLen(s, i) \in Nat
  BY TextLenIs
<1>2. b \in Nat /\ a <= b /\ b - a = TextLen(s, i)
  <2> HIDE DEF a
  <2> QED
    BY <1>1 DEF b
<1> HIDE DEF a, b
<1>3. Text(s, a, b) \in Seq(Streams \X Nat) /\ Len(Text(s, a, b)) = b - a
  BY <1>1, <1>2, TextIs
<1> QED
  BY <1>1, <1>2, <1>3 DEF a, b

\* Sealing a chunk's own text gives bytes that are genuine.
LEMMA SealedIs ==
  ASSUME NEW s \in Streams, NEW i \in 0 .. Count(s) - 1, NEW final \in BOOLEAN
  PROVE  LET text == Text(s, i * ChunkSize, i * ChunkSize + TextLen(s, i))
         IN  /\ Sealed(s, i, final, text) \in Seq(Bytes)
             /\ Len(Sealed(s, i, final, text)) = SealedLen(s, i)
<1> DEFINE a == i * ChunkSize
           text == Text(s, a, a + TextLen(s, i))
           n == Len(text) + TagLen
           byte(k) == [stream |-> s, index |-> i, final |-> final, text |-> text, at |-> k]
<1>1. i \in Nat /\ a \in Nat /\ TextLen(s, i) \in Nat /\ TagLen \in Nat
  BY CountIs, TextLenIs, Sizes
<1>2. text \in Seq(Streams \X Nat) /\ Len(text) = TextLen(s, i)
  BY ChunkTextIs, ZenonT(30)
<1>3. n \in Nat /\ n = SealedLen(s, i)
  <2>1. SealedLen(s, i) = TextLen(s, i) + TagLen
    BY DEF SealedLen
  <2> HIDE DEF text
  <2> QED
    BY <1>1, <1>2, <2>1
<1>4. \A k \in 1 .. n : byte(k) \in Bytes
  <2> TAKE k \in 1 .. n
  <2>1. byte(k) \in [stream : Streams, index : Nat, final : BOOLEAN,
                     text : Seq(Streams \X Nat), at : Nat]
    <3> HIDE DEF text, n
    <3> QED
      BY <1>1, <1>2, <1>3
  <2>2. /\ byte(k).text = text /\ byte(k).stream = s /\ byte(k).index = i
    OBVIOUS
  <2> HIDE DEF byte
  <2> QED
    BY <2>1, <2>2 DEF Bytes
<1>5. Sealed(s, i, final, text) = [k \in 1 .. n |-> byte(k)]
  BY DEF Sealed
<1> HIDE DEF n, byte, text
<1>6. [k \in 1 .. n |-> byte(k)] \in Seq(Bytes) /\ Len([k \in 1 .. n |-> byte(k)]) = n
  BY <1>3, <1>4
<1> QED
  BY <1>3, <1>5, <1>6 DEF text

LEMMA ChunkIs ==
  ASSUME NEW s \in Streams, NEW i \in 0 .. Count(s) - 1
  PROVE  Chunk(s, i) \in Seq(Bytes) /\ Len(Chunk(s, i)) = SealedLen(s, i)
BY SealedIs DEF Chunk

\* A chunk behind the chunks before it makes one chunk more.
LEMMA CutGrows ==
  ASSUME NEW s \in Streams, NEW n \in 0 .. Count(s) - 1, NEW bytes \in Seq(Bytes),
         Len(bytes) = Start(n), Cut(bytes, s, n)
  PROVE  /\ bytes \o Chunk(s, n) \in Seq(Bytes)
         /\ Len(bytes \o Chunk(s, n)) = BytesBefore(s, n + 1)
         /\ Cut(bytes \o Chunk(s, n), s, n + 1)
<1>1. Chunk(s, n) \in Seq(Bytes) /\ Len(Chunk(s, n)) = SealedLen(s, n) /\ Start(n) \in Nat
      /\ n \in Nat /\ SealedLen(s, n) \in Nat /\ Count(s) \in Nat
  BY ChunkIs, StartIs, CountIs, TextLenIs
<1>2. /\ bytes \o Chunk(s, n) \in Seq(Bytes)
      /\ Len(bytes \o Chunk(s, n)) = Start(n) + SealedLen(s, n)
      /\ \A k \in 1 .. Start(n) : (bytes \o Chunk(s, n))[k] = bytes[k]
      /\ \A k \in 1 .. SealedLen(s, n) : (bytes \o Chunk(s, n))[Start(n) + k] = Chunk(s, n)[k]
  <2>1. bytes \o Chunk(s, n) \in Seq(Bytes)
    BY <1>1
  <2>2. Len(bytes \o Chunk(s, n)) = Start(n) + SealedLen(s, n)
    BY <1>1, JoinIs
  <2>3. \A k \in 1 .. Start(n) : (bytes \o Chunk(s, n))[k] = bytes[k]
    BY <1>1, JoinIs
  <2>4. \A k \in 1 .. SealedLen(s, n) : (bytes \o Chunk(s, n))[Start(n) + k] = Chunk(s, n)[k]
    BY <1>1, JoinIs
  <2> QED
    BY <2>1, <2>2, <2>3, <2>4
<1>3. ASSUME NEW i \in 0 .. n, NEW j \in 1 .. SealedLen(s, i)
      PROVE  (bytes \o Chunk(s, n))[Start(i) + j] = Chunk(s, i)[j]
  <2>1. CASE i = n
    BY <1>1, <1>2, <1>3, <2>1
  <2>2. CASE i # n
    <3>1. i \in 0 .. n - 1 /\ i \in Nat /\ i < n /\ i \in 0 .. Count(s) - 1
      BY <2>2, <1>1
    <3>2. i + 1 < Count(s) /\ SealedLen(s, i) = ChunkSize + TagLen
      BY <3>1, <1>1, TextLenIs DEF SealedLen
    <3>3. Start(i) \in Nat /\ Start(i + 1) = Start(i) + ChunkSize + TagLen /\ Start(i + 1) <= Start(n)
      BY <1>1, <3>1, StartIs
    <3>4. Start(i) + j \in 1 .. Start(n)
      BY <1>1, <3>2, <3>3, Sizes
    <3>5. bytes[Start(i) + j] = Chunk(s, i)[j]
      BY <3>1 DEF Cut
    <3> QED
      BY <1>1, <1>2, <3>4, <3>5
  <2> QED
    BY <2>1, <2>2
<1>4. BytesBefore(s, n + 1) = Start(n) + SealedLen(s, n)
  BY BytesBeforeIs
<1>5. 0 .. (n + 1) - 1 = 0 .. n
  BY <1>1
<1> QED
  BY <1>2, <1>3, <1>4, <1>5 DEF Cut

-----------------------------------------------------------------------------
(* The writer *)

LEMMA CutNone == \A s \in Streams : \A bytes : Cut(bytes, s, 0)
BY DEF Cut

LEMMA StartZero == Start(0) = 0 /\ 0 * ChunkSize = 0
BY Sizes, StartIs

LEMMA WriterInit == Init => Writer
BY DEF Init, Writer, WriterTypeOK, UnderWay, Complete, Kept

\* What the reader does, and steps that only the reader sees.
LEMMA WriterSame == ASSUME Writer, UNCHANGED <<encryptor, stored>> PROVE Writer'
BY DEF Writer, WriterTypeOK, UnderWay, Complete, Kept, encryptor, ChunkIsFull

LEMMA BeginKeeps == ASSUME Writer, NEW s \in Streams, Begin(s) PROVE Writer'
<1>1. WriterTypeOK'
  BY DEF Writer, WriterTypeOK, Begin
<1>2. UnderWay'
  <2>1. s.len \in Nat /\ Count(s) \in Nat \ {0}
    BY StreamLen, CountIs
  <2>2. Text(s, 0, 0) = <<>>
    <3>1. Text(s, 0, 0) \in Seq(Streams \X Nat) /\ Len(Text(s, 0, 0)) = 0
      BY TextIs
    <3> QED
      BY <3>1, EmptySeq
  <2>3. stored[s] = <<>> /\ stored' = stored /\ writing' = s
        /\ wbuf' = <<>> /\ wnext' = 0 /\ received' = 0 /\ wire' = <<>>
    BY DEF Begin
  <2> QED
    BY <2>1, <2>2, <2>3, CutNone, StartZero DEF UnderWay
<1>3. Complete'
  BY DEF Writer, Complete, Kept, Begin
<1> QED
  BY <1>1, <1>2, <1>3 DEF Writer

LEMMA PushKeeps == ASSUME Writer, NEW n \in Nat, Push(n) PROVE Writer'
<1> DEFINE s == writing
           a == wnext * ChunkSize
<1>1. /\ s \in Streams /\ received \in Nat /\ wnext \in Nat /\ wire \in Seq(Bytes)
      /\ stored \in [Streams -> Seq(Bytes)] /\ received <= s.len /\ ~ChunkIsFull
      /\ stored[s] = <<>> /\ wnext < Count(s) /\ Len(wire) = Start(wnext) /\ Cut(wire, s, wnext)
      /\ a <= received /\ wbuf = Text(s, a, received) /\ received' = received + n
      /\ UNCHANGED <<writing, wnext, wire, stored>>
  BY DEF Writer, WriterTypeOK, UnderWay, Push
<1>2. s.len \in Nat /\ a \in Nat
  BY <1>1, StreamLen, Sizes
<1>3. Complete'
  BY <1>1 DEF Writer, Complete, Kept
<1>4. CASE received + n > s.len
  <2>1. wbuf' = wbuf /\ ~ChunkIsFull'
    BY <1>1, <1>4 DEF Push, ChunkIsFull
  <2>2. ~(received' <= writing'.len)
    BY <1>1, <1>2, <1>4
  <2> QED
    BY <1>1, <1>3, <2>1, <2>2 DEF Writer, WriterTypeOK, UnderWay
<1>5. CASE ~(received + n > s.len)
  <2>1. wbuf' = Text(s, a, received) \o Text(s, received, received + n)
    BY <1>1, <1>5 DEF Push
  <2>2. wbuf' = Text(s, a, received + n)
    <3> HIDE DEF a
    <3>1. received + n \in Nat /\ received <= received + n
      BY <1>1
    <3>2. Text(s, a, received) \o Text(s, received, received + n) = Text(s, a, received + n)
      BY <1>1, <1>2, <3>1, TextJoins
    <3> QED
      BY <2>1, <3>2
  <2>3. wbuf' \in Seq(Streams \X Nat)
    <3> HIDE DEF a
    <3>1. received + n \in Nat /\ a <= received + n
      BY <1>1, <1>2
    <3>2. Text(s, a, received + n) \in Seq(Streams \X Nat)
      BY <1>1, <1>2, <3>1, TextIs
    <3> QED
      BY <2>2, <3>2
  <2>4. received' <= s.len /\ a <= received' /\ received' \in Nat
    <3> HIDE DEF a
    <3> QED
      BY <1>1, <1>2, <1>5
  <2>5. WriterTypeOK'
    BY <1>1, <2>3, <2>4 DEF Writer, WriterTypeOK
  <2>6. UnderWay'
    BY <1>1, <2>2, <2>4 DEF UnderWay
  <2> QED
    BY <1>3, <2>5, <2>6 DEF Writer
<1> QED
  BY <1>4, <1>5

\* How much text the encryptor holds, and that a full chunk of it is in time.
LEMMA HeldText ==
  ASSUME Writer, writing # Nothing, received <= writing.len
  PROVE  /\ writing \in Streams /\ wnext \in 0 .. Count(writing) - 1
         /\ wnext * ChunkSize \in Nat /\ received \in Nat
         /\ wnext * ChunkSize <= received
         /\ wbuf = Text(writing, wnext * ChunkSize, received)
         /\ Len(wbuf) = received - wnext * ChunkSize
<1>1. /\ writing \in Streams /\ wnext \in Nat /\ received \in Nat /\ wnext < Count(writing)
      /\ wnext * ChunkSize <= received
      /\ wbuf = Text(writing, wnext * ChunkSize, received)
  BY DEF Writer, WriterTypeOK, UnderWay
<1>2. wnext \in 0 .. Count(writing) - 1
  BY <1>1, CountIs
<1>3. wnext * ChunkSize \in Nat
  BY <1>1, Sizes
<1> QED
  BY <1>1, <1>2, <1>3, TextIs

LEMMA SealChunkKeeps == ASSUME Writer, SealChunk PROVE Writer'
<1> DEFINE s == writing
           a == wnext * ChunkSize
<1>1. /\ s # Nothing /\ ChunkIsFull
      /\ wire' = wire \o Sealed(s, wnext, FALSE, SubSeq(wbuf, 1, ChunkSize))
      /\ wbuf' = SubSeq(wbuf, ChunkSize + 1, Len(wbuf)) /\ wnext' = wnext + 1
      /\ UNCHANGED <<writing, received, stored>>
  BY DEF SealChunk
<1>2. received <= s.len
  BY <1>1 DEF Writer, UnderWay
<1>3. /\ s \in Streams /\ wnext \in 0 .. Count(s) - 1 /\ a \in Nat /\ received \in Nat
      /\ a <= received /\ wbuf = Text(s, a, received) /\ Len(wbuf) = received - a
  BY <1>1, <1>2, HeldText
<1>4. wnext + 1 < Count(s) /\ a + ChunkSize <= received /\ ChunkSize \in Nat
  BY <1>1, <1>3, Sizes DEF ChunkIsFull
<1>5. /\ SubSeq(wbuf, 1, ChunkSize) = Text(s, a, a + ChunkSize)
      /\ SubSeq(wbuf, ChunkSize + 1, Len(wbuf)) = Text(s, a + ChunkSize, received)
  <2> DEFINE b == a + ChunkSize
  <2>1. b - a = ChunkSize /\ b \in Nat /\ a <= b /\ b <= received
    <3> HIDE DEF a
    <3> QED
      BY <1>3, <1>4 DEF b
  <2> HIDE DEF a, b
  <2>2. /\ SubSeq(Text(s, a, received), 1, b - a) = Text(s, a, b)
        /\ SubSeq(Text(s, a, received), b - a + 1, Len(Text(s, a, received))) = Text(s, b, received)
    BY <1>3, <2>1, TextCut
  <2> QED
    BY <1>3, <2>1, <2>2 DEF b
<1>6. TextLen(s, wnext) = ChunkSize
  BY <1>3, <1>4, TextLenIs
<1>7. wire' = wire \o Chunk(s, wnext)
  <2>1. (wnext + 1 = Count(s)) = FALSE
    BY <1>3, <1>4, CountIs
  <2>2. Chunk(s, wnext) = Sealed(s, wnext, FALSE, Text(s, a, a + ChunkSize))
    BY <1>6, <2>1 DEF Chunk
  <2> QED
    BY <1>1, <1>5, <2>2
<1>8. wire \in Seq(Bytes) /\ Len(wire) = Start(wnext) /\ Cut(wire, s, wnext) /\ stored[s] = <<>>
      /\ stored \in [Streams -> Seq(Bytes)]
  BY <1>1 DEF Writer, WriterTypeOK, UnderWay
<1>9. /\ wire' \in Seq(Bytes) /\ Len(wire') = BytesBefore(s, wnext + 1)
      /\ Cut(wire', s, wnext + 1)
  BY <1>3, <1>7, <1>8, CutGrows
<1>10. BytesBefore(s, wnext + 1) = Start(wnext + 1)
  BY <1>4 DEF BytesBefore
<1>11. (wnext + 1) * ChunkSize = a + ChunkSize /\ wnext + 1 \in Nat /\ a + ChunkSize \in Nat
  BY <1>3, <1>4, CountIs
<1>12. wbuf' = Text(s, (wnext + 1) * ChunkSize, received) /\ wbuf' \in Seq(Streams \X Nat)
  <2> HIDE DEF a
  <2> QED
    BY <1>1, <1>3, <1>4, <1>5, <1>11, TextIs
<1>13. WriterTypeOK'
  BY <1>1, <1>3, <1>8, <1>9, <1>11, <1>12 DEF WriterTypeOK
<1>14. UnderWay'
  BY <1>1, <1>2, <1>4, <1>8, <1>9, <1>10, <1>11, <1>12 DEF UnderWay
<1>15. Complete'
  BY <1>1 DEF Writer, Complete, Kept
<1> QED
  BY <1>13, <1>14, <1>15 DEF Writer

LEMMA FinishKeeps == ASSUME Writer, Finish PROVE Writer'
<1> DEFINE s == writing
           a == wnext * ChunkSize
<1>1. /\ s # Nothing /\ ~ChunkIsFull /\ received = s.len
      /\ stored' = [stored EXCEPT ![s] = wire \o Sealed(s, Count(s) - 1, TRUE, wbuf)]
      /\ writing' = Nothing /\ wbuf' = <<>> /\ wnext' = 0 /\ received' = 0 /\ wire' = <<>>
  BY DEF Finish
<1>2. s \in Streams /\ s.len \in Nat /\ Count(s) \in Nat \ {0} /\ ChunkSize \in Nat \ {0}
  BY <1>1, StreamLen, CountIs, Sizes DEF Writer, WriterTypeOK
<1>3. /\ wnext \in 0 .. Count(s) - 1 /\ a \in Nat /\ a <= received
      /\ wbuf = Text(s, a, received) /\ Len(wbuf) = received - a
  BY <1>1, <1>2, HeldText
<1>4. wnext = Count(s) - 1
  <2> SUFFICES ASSUME wnext + 1 < Count(s) PROVE FALSE
    BY <1>2, <1>3
  <2>1. (wnext + 1) * ChunkSize <= (Count(s) - 1) * ChunkSize
    BY <1>2, <1>3, TimesMonotonic
  <2>2. (wnext + 1) * ChunkSize = a + ChunkSize
    BY <1>2, <1>3
  <2>3. (Count(s) - 1) * ChunkSize <= s.len /\ (Count(s) - 1) * ChunkSize \in Nat
    BY <1>2, CountIs
  <2>4. Len(wbuf) >= ChunkSize
    <3> HIDE DEF a
    <3> QED
      BY <1>1, <1>2, <1>3, <2>1, <2>2, <2>3
  <2> QED
    BY <1>1, <2>4 DEF ChunkIsFull
<1>5. a + TextLen(s, wnext) = s.len
  <2>1. wnext + 1 = Count(s)
    BY <1>2, <1>4
  <2> QED
    BY <1>2, <1>3, <2>1, TextLenIs DEF TextBefore
<1>6. Sealed(s, Count(s) - 1, TRUE, wbuf) = Chunk(s, wnext)
  <2>1. (wnext + 1 = Count(s)) = TRUE
    BY <1>2, <1>4
  <2>2. Chunk(s, wnext) = Sealed(s, wnext, TRUE, Text(s, a, s.len))
    BY <1>5, <2>1 DEF Chunk
  <2> QED
    BY <1>1, <1>3, <1>4, <2>2
<1>7. wire \in Seq(Bytes) /\ Len(wire) = Start(wnext) /\ Cut(wire, s, wnext)
      /\ stored \in [Streams -> Seq(Bytes)]
  BY <1>1 DEF Writer, WriterTypeOK, UnderWay
<1> DEFINE whole == wire \o Chunk(s, wnext)
<1>8. /\ whole \in Seq(Bytes) /\ Len(whole) = BytesBefore(s, wnext + 1) /\ Cut(whole, s, wnext + 1)
  BY <1>2, <1>3, <1>7, CutGrows
<1>9. wnext + 1 = Count(s) /\ BytesBefore(s, Count(s)) = ExpectedLen(s.len)
  BY <1>2, <1>3, <1>4, BytesBeforeIs
<1>10. stored' = [stored EXCEPT ![s] = whole]
  BY <1>1, <1>6
<1> HIDE DEF whole
<1>11. WriterTypeOK'
  <2>1. <<>> \in Seq(Streams \X Nat) /\ <<>> \in Seq(Bytes)
    BY EmptySeq
  <2>2. stored' \in [Streams -> Seq(Bytes)]
    BY <1>2, <1>7, <1>8, <1>10
  <2> QED
    BY <1>1, <2>1, <2>2 DEF WriterTypeOK
<1>12. UnderWay'
  BY <1>1 DEF UnderWay
<1>13. Complete'
  <2> SUFFICES ASSUME NEW r \in Streams, stored'[r] # <<>>
               PROVE  Len(stored'[r]) = ExpectedLen(r.len) /\ Cut(stored'[r], r, Count(r))
    BY DEF Complete, Kept
  <2>1. CASE r = s
    BY <1>7, <1>8, <1>9, <1>10, <2>1
  <2>2. CASE r # s
    BY <1>7, <1>10, <2>2 DEF Writer, Complete, Kept
  <2> QED
    BY <2>1, <2>2
<1> QED
  BY <1>11, <1>12, <1>13 DEF Writer

LEMMA GiveUpKeeps == ASSUME Writer, GiveUp PROVE Writer'
BY DEF Writer, WriterTypeOK, UnderWay, Complete, Kept, GiveUp

\* A step never changes a stream that is kept.
LEMMA WriterStep ==
  ASSUME Writer, [Next]_vars
  PROVE  Writer' /\ \A s \in Kept : s \in Kept' /\ stored'[s] = stored[s]
<1>1. CASE UNCHANGED <<encryptor, stored>>
  BY <1>1, WriterSame DEF Kept
<1>2. CASE Write
  <2>1. ASSUME NEW s \in Streams, Begin(s) PROVE Writer' /\ stored' = stored
    BY <2>1, BeginKeeps DEF Begin
  <2>2. ASSUME NEW n \in 1 .. MaxPush, Push(n) PROVE Writer' /\ stored' = stored
    <3>1. n \in Nat
      BY <2>2, FramingAssumption DEF FramingAssumption
    <3> QED
      BY <2>2, <3>1, PushKeeps DEF Push
  <2>3. CASE SealChunk
    BY <2>3, SealChunkKeeps DEF SealChunk, Kept
  <2>4. CASE Finish
    <3>1. writing # Nothing /\ writing \in Streams /\ stored[writing] = <<>>
      BY <2>4 DEF Finish, Writer, WriterTypeOK, UnderWay
    <3>2. \A s \in Kept : s \in Kept' /\ stored'[s] = stored[s]
      BY <2>4, <3>1 DEF Finish, Kept, Writer, WriterTypeOK
    <3> QED
      BY <2>4, <3>2, FinishKeeps
  <2>5. CASE GiveUp
    BY <2>5, GiveUpKeeps DEF GiveUp, Kept
  <2>6. stored' = stored => \A s \in Kept : s \in Kept' /\ stored'[s] = stored[s]
    BY DEF Kept
  <2> QED
    BY <1>2, <2>1, <2>2, <2>3, <2>4, <2>5, <2>6 DEF Write
<1>3. CASE Read
  <2>1. UNCHANGED <<encryptor, stored>>
    BY <1>3 DEF Read, Open, Jump, Feed, OpenChunk, ChunkFails, Trailing, PushReturns, End, OpenRanged
  <2> QED
    BY <1>1, <2>1
<1>4. CASE Over \/ UNCHANGED vars
  BY <1>1, <1>4 DEF Over, vars
<1> QED
  BY <1>2, <1>3, <1>4 DEF Next

-----------------------------------------------------------------------------
(* The reader *)

LEMMA NothingElse == Nothing \notin Streams /\ Nothing \notin Nat
BY FramingAssumption DEF FramingAssumption

LEMMA ReaderInit == Init => Reader
<1> SUFFICES ASSUME Init PROVE Reader
  OBVIOUS
<1>1. ReaderTypeOK
  <2>1. <<>> \in Seq(Bytes)
    BY EmptySeq
  <2> QED
    BY <2>1 DEF Init, ReaderTypeOK
<1> QED
  BY <1>1 DEF Init, Reader, Reading, TextFollows, BytesFollow, WholeIsWhole,
     HonestStorageIsEnough, RangedReadIsRight, Sequential

\* The writer's steps leave the reader, and what it reads, alone.
LEMMA ReaderSame ==
  ASSUME Reader, UNCHANGED reader, \A s \in Kept : s \in Kept' /\ stored'[s] = stored[s]
  PROVE  Reader'
<1>0. /\ pc' = pc /\ asked' = asked /\ opened' = opened /\ rbuf' = rbuf /\ rnext' = rnext
      /\ decoded' = decoded /\ held' = held /\ given' = given /\ verdict' = verdict
      /\ at' = at /\ jumps' = jumps
  BY DEF reader, decryptor
<1>1. ReaderTypeOK' /\ Reading' /\ WholeIsWhole' /\ RangedReadIsRight'
  BY <1>0 DEF Reader, ReaderTypeOK, Reading, WholeIsWhole, RangedReadIsRight, Sequential, ChunkIsHere
<1>2. TextFollows'
  BY <1>0 DEF Reader, TextFollows, Sequential
<1>3. Sequential => stored'[opened] = stored[opened]
  BY DEF Reader, TextFollows
<1>4. BytesFollow'
  BY <1>0, <1>3 DEF Reader, BytesFollow, Sequential
<1>5. HonestStorageIsEnough'
  BY <1>0, <1>3 DEF Reader, HonestStorageIsEnough, Sequential
<1> QED
  BY <1>1, <1>2, <1>4, <1>5 DEF Reader

\* A stream that is kept, as a reader meets it.
LEMMA KeptIs ==
  ASSUME Writer, NEW s \in Kept
  PROVE  /\ s \in Streams /\ stored[s] \in Seq(Bytes)
         /\ Len(stored[s]) = ExpectedLen(s.len) /\ Cut(stored[s], s, Count(s))
BY DEF Writer, WriterTypeOK, Complete, Kept

LEMMA BeforeIs ==
  ASSUME NEW s \in Streams, NEW n \in 0 .. Count(s)
  PROVE  /\ TextBefore(s, n) \in Nat /\ BytesBefore(s, n) \in Nat
         /\ TextBefore(s, n) <= s.len
         /\ n = Count(s) => TextBefore(s, n) = s.len /\ BytesBefore(s, n) = ExpectedLen(s.len)
<1>1. s.len \in Nat /\ Count(s) \in Nat \ {0}
  BY StreamLen, CountIs
<1>2. CASE n = Count(s)
  <2>1. Count(s) - 1 \in 0 .. Count(s) - 1 /\ (Count(s) - 1) + 1 = Count(s)
    BY <1>1
  <2>2. BytesBefore(s, Count(s)) = ExpectedLen(s.len)
    BY <2>1, BytesBeforeIs
  <2>3. BytesBefore(s, Count(s)) = Start(Count(s) - 1) + SealedLen(s, Count(s) - 1)
    BY <2>1, BytesBeforeIs
  <2>4. Start(Count(s) - 1) \in Nat /\ SealedLen(s, Count(s) - 1) \in Nat
    BY <1>1, <2>1, StartIs, TextLenIs
  <2> QED
    BY <1>1, <1>2, <2>2, <2>3, <2>4 DEF TextBefore
<1>3. CASE n # Count(s)
  <2>1. n \in 0 .. Count(s) - 1
    BY <1>1, <1>3
  <2>2. TextBefore(s, n) \in Nat /\ BytesBefore(s, n) \in Nat
    BY <2>1, TextLenIs, BytesBeforeIs
  <2>3. TextBefore(s, n) <= s.len
    <3>1. TextLen(s, n) \in Nat /\ n * ChunkSize + TextLen(s, n) <= s.len /\ n * ChunkSize \in Nat
          /\ TextBefore(s, n) = n * ChunkSize
      BY <2>1, TextLenIs, Sizes
    <3> QED
      BY <3>1, <1>1
  <2> QED
    BY <1>3, <2>2, <2>3
<1> QED
  BY <1>2, <1>3

\* What is known of a reader that reads, or is in a push.
LEMMA ReadingIs ==
  ASSUME Writer, Reader, pc \in {"read", "push"}
  PROVE  /\ Sequential /\ verdict = "none" /\ opened \in Kept /\ opened \in Streams
         /\ at.of \in Streams /\ at.pos \in Nat
         /\ Accepts(opened, asked.place)
         /\ rnext \in 0 .. Count(opened) /\ Count(opened) \in Nat \ {0}
         /\ decoded = TextBefore(opened, rnext) /\ decoded \in Nat /\ decoded <= opened.len
         /\ Len(given) \in 0 .. decoded /\ given = Text(opened, 0, Len(given))
         /\ held = Text(opened, Len(given), decoded)
         /\ rbuf \in Seq(Bytes)
<1>1. Sequential /\ verdict = "none" /\ at.of \in Streams
  BY DEF Reader, Reading
<1>2. opened \in Kept /\ opened \in Streams
  BY <1>1 DEF Reader, TextFollows, Kept
<1>3. Count(opened) \in Nat \ {0}
  BY <1>2, CountIs
<1>4. rnext \in 0 .. Count(opened) /\ at.pos \in Nat /\ rbuf \in Seq(Bytes)
  BY <1>1, <1>3 DEF Reader, ReaderTypeOK, TextFollows
<1>5. /\ Accepts(opened, asked.place) /\ decoded = TextBefore(opened, rnext)
      /\ Len(given) \in Nat /\ Len(given) <= decoded /\ given = Text(opened, 0, Len(given))
      /\ held = Text(opened, Len(given), decoded)
  BY <1>1 DEF Reader, TextFollows
<1>6. decoded \in Nat /\ decoded <= opened.len
  BY <1>2, <1>4, <1>5, BeforeIs
<1> QED
  BY <1>1, <1>2, <1>3, <1>4, <1>5, <1>6

LEMMA NoText == ASSUME NEW s \in Streams, NEW a \in Nat PROVE Text(s, a, a) = <<>>
<1>1. Text(s, a, a) \in Seq(Streams \X Nat) /\ Len(Text(s, a, a)) = 0
  BY TextIs
<1> QED
  BY <1>1, EmptySeq

LEMMA OpenKeeps ==
  ASSUME Writer, Reader, NEW place \in Places, NEW s \in Kept, Open(place, s)
  PROVE  Reader'
<1>1. /\ pc = "closed" /\ asked' = [place |-> place, chunk |-> Nothing] /\ stored' = stored
      /\ UNCHANGED <<rbuf, rnext, decoded, held, given, jumps>>
  BY DEF Open, decryptor
<1>2. /\ opened = Nothing /\ verdict = "none" /\ jumps = 0
      /\ rbuf = <<>> /\ rnext = 0 /\ decoded = 0 /\ held = <<>> /\ given = <<>>
  BY <1>1 DEF Reader, Reading
<1>3. CASE Accepts(s, place)
  <2>1. pc' = "read" /\ opened' = s /\ at' = [of |-> s, pos |-> 0] /\ verdict' = verdict
    BY <1>3 DEF Open
  <2>2. s \in Streams /\ Count(s) \in Nat \ {0} /\ s \in Kept' /\ stored[s] \in Seq(Bytes)
        /\ s # Nothing
    BY <1>1, KeptIs, CountIs, NothingElse DEF Kept
  <2>3. SealedLen(s, 0) \in Nat /\ SealedLen(s, 0) >= 1 /\ 0 < Count(s)
    BY <2>2, TextLenIs
  <2>4. TextBefore(s, 0) = 0 /\ BytesBefore(s, 0) = 0
    BY <2>3, StartZero DEF TextBefore, BytesBefore
  <2>5. ReaderTypeOK'
    BY <1>1, <1>2, <2>1, <2>2, EmptySeq DEF Reader, ReaderTypeOK
  <2>6. Reading'
    BY <1>1, <1>2, <2>1, <2>2, <2>3 DEF Reading, Sequential, ChunkIsHere
  <2>7. TextFollows'
    BY <1>1, <1>2, <1>3, <2>1, <2>2, <2>3, <2>4, NoText DEF TextFollows
  <2>8. BytesFollow'
    BY <1>1, <1>2, <2>1, <2>2, <2>4 DEF BytesFollow
  <2> QED
    BY <1>1, <1>2, <2>1, <2>5, <2>6, <2>7, <2>8
    DEF Reader, WholeIsWhole, HonestStorageIsEnough, RangedReadIsRight
<1>4. CASE ~Accepts(s, place)
  <2>1. pc' = "over" /\ verdict' = "refused" /\ opened' = opened /\ at' = at
    BY <1>4 DEF Open, Refuse
  <2> QED
    BY <1>1, <1>2, <2>1 DEF Reader, ReaderTypeOK, Reading, TextFollows, BytesFollow,
       Sequential, WholeIsWhole, HonestStorageIsEnough, RangedReadIsRight
<1> QED
  BY <1>3, <1>4

LEMMA JumpKeeps ==
  ASSUME Writer, Reader, NEW s \in Kept, NEW p \in 0 .. Len(stored[s]), Jump(s, p)
  PROVE  Reader'
<1>1. /\ pc = "read" /\ at' = [of |-> s, pos |-> p] /\ jumps' = jumps + 1 /\ stored' = stored
      /\ UNCHANGED <<pc, asked, opened, rbuf, rnext, decoded, held, given, verdict>>
  BY DEF Jump, decryptor
<1>2. s \in Streams /\ p \in Nat /\ jumps \in Nat /\ verdict = "none"
  BY <1>1, KeptIs, ReadingIs DEF Reader, ReaderTypeOK
<1>3. jumps' # 0 /\ jumps' \in Nat
  BY <1>1, <1>2
<1>4. ReaderTypeOK'
  BY <1>1, <1>2, <1>3 DEF Reader, ReaderTypeOK
<1>5. Reading'
  BY <1>1, <1>2 DEF Reader, Reading, Sequential, ChunkIsHere
<1>6. TextFollows'
  BY <1>1 DEF Reader, TextFollows, Sequential, Kept
<1> QED
  BY <1>1, <1>2, <1>3, <1>4, <1>5, <1>6
  DEF Reader, BytesFollow, WholeIsWhole, HonestStorageIsEnough, RangedReadIsRight

LEMMA FeedKeeps == ASSUME Writer, Reader, NEW n \in Nat, Feed(n) PROVE Reader'
<1> DEFINE src == stored[at.of]
           more == SubSeq(src, at.pos + 1, at.pos + n)
<1>1. /\ pc = "read" /\ pc' = "push" /\ at.pos + n <= Len(src) /\ rbuf' = rbuf \o more
      /\ at' = [at EXCEPT !.pos = @ + n] /\ stored' = stored
      /\ UNCHANGED <<asked, opened, rnext, decoded, held, given, verdict, jumps>>
  BY DEF Feed
<1>2. /\ Sequential /\ verdict = "none" /\ opened \in Kept /\ at.of \in Streams /\ at.pos \in Nat
      /\ rbuf \in Seq(Bytes) /\ rnext \in 0 .. Count(opened) /\ opened \in Streams
  BY <1>1, ReadingIs
<1>3. src \in Seq(Bytes)
  BY <1>2 DEF Writer, WriterTypeOK
<1>4. /\ more \in Seq(Bytes) /\ Len(more) = n
      /\ \A k \in 1 .. n : more[k] = src[at.pos + k]
  <2> DEFINE a == at.pos + 1
             b == at.pos + n
  <2>1. a \in Int /\ b \in Int /\ b - a + 1 = n /\ a <= b + 1
    BY <1>2
  <2>2. \A k \in a .. b : k \in 1 .. Len(src)
    <3>1. Len(src) \in Nat /\ b <= Len(src) /\ 1 <= a
      BY <1>1, <1>2, <1>3
    <3> HIDE DEF src, a, b
    <3> QED
      BY <3>1, <2>1
  <2> HIDE DEF src
  <2>3. \A k \in a .. b : src[k] \in Bytes
    <3> TAKE k \in a .. b
    <3>1. k \in 1 .. Len(src)
      BY <2>2
    <3> HIDE DEF a, b
    <3> QED
      BY <1>3, <3>1, ElementOfSeq
  <2> HIDE DEF a, b
  <2>4. /\ SubSeq(src, a, b) \in Seq(Bytes)
        /\ Len(SubSeq(src, a, b)) = b - a + 1
        /\ \A k \in 1 .. b - a + 1 : SubSeq(src, a, b)[k] = src[a + k - 1]
    BY <2>1, <2>3, SubSeqProperties
  <2>5. \A k \in 1 .. n : a + k - 1 = at.pos + k
    BY <1>2 DEF a
  <2> QED
    BY <2>1, <2>4, <2>5 DEF a, b
<1>5. at'.of = at.of /\ at'.pos = at.pos + n /\ at' \in [of : Streams \union {Nothing}, pos : Nat]
  <2>1. at \in [of : Streams \union {Nothing}, pos : Nat] /\ at' = [at EXCEPT !.pos = @ + n]
    BY <1>1 DEF Reader, ReaderTypeOK
  <2>2. at = [of |-> at.of, pos |-> at.pos]
    BY <2>1
  <2>3. at' = [of |-> at.of, pos |-> at.pos + n]
    BY <2>1, <2>2
  <2>4. at.pos + n \in Nat
    BY <1>2
  <2> QED
    BY <1>2, <2>3, <2>4
<1> HIDE DEF more
<1>6. Len(rbuf') = Len(rbuf) + n /\ rbuf' \in Seq(Bytes)
      /\ (\A k \in 1 .. Len(rbuf) : rbuf'[k] = rbuf[k])
      /\ \A k \in 1 .. n : rbuf'[Len(rbuf) + k] = more[k]
  <2> DEFINE m == Len(rbuf)
  <2>1. m = Len(rbuf)
    OBVIOUS
  <2> HIDE DEF m
  <2>2. /\ rbuf \o more \in Seq(Bytes) /\ Len(rbuf \o more) = m + n
        /\ \A k \in 1 .. m : (rbuf \o more)[k] = rbuf[k]
        /\ \A k \in 1 .. n : (rbuf \o more)[m + k] = more[k]
    <3>1. more \in Seq(Bytes) /\ Len(more) = n
      BY <1>4
    <3> QED
      BY <1>2, <2>1, <3>1, JoinIs
  <2> QED
    BY <1>1, <2>1, <2>2
<1>7. ReaderTypeOK'
  BY <1>1, <1>5, <1>6 DEF Reader, ReaderTypeOK
<1>8. Reading'
  BY <1>1, <1>2, <1>5 DEF Reading, Sequential
<1>9. TextFollows'
  BY <1>1 DEF Reader, TextFollows, Sequential, Kept
<1>10. BytesFollow'
  <2> SUFFICES ASSUME jumps = 0
      PROVE /\ at'.of = opened /\ at'.pos <= Len(stored[opened])
            /\ BytesBefore(opened, rnext) + Len(rbuf') = at'.pos
            /\ \A k \in 1 .. Len(rbuf') : rbuf'[k] = stored[opened][BytesBefore(opened, rnext) + k]
    BY <1>1 DEF BytesFollow
  <2> DEFINE before == BytesBefore(opened, rnext)
             m == Len(rbuf)
  <2>1. /\ at.of = opened /\ before + m = at.pos
        /\ \A k \in 1 .. m : rbuf[k] = src[before + k]
    BY <1>1, <1>2 DEF Reader, BytesFollow
  <2>2. before \in Nat /\ m \in Nat
    BY <1>2, BeforeIs
  <2>3. \A k \in 1 .. n : more[k] = src[at.pos + k]
    BY <1>4
  <2> HIDE DEF src, before, m
  <2>4. ASSUME NEW k \in 1 .. m + n PROVE rbuf'[k] = src[before + k]
    <3>1. CASE k <= m
      <4>1. k \in 1 .. m
        BY <3>1, <2>2
      <4> QED
        BY <4>1, <1>6, <2>1 DEF m
    <3>2. CASE ~(k <= m)
      <4>1. k - m \in 1 .. n /\ m + (k - m) = k /\ at.pos + (k - m) = before + k
        BY <3>2, <2>1, <2>2
      <4>2. rbuf'[m + (k - m)] = more[k - m]
        BY <4>1, <1>6 DEF m
      <4> QED
        BY <4>1, <4>2, <2>3
    <3> QED
      BY <3>1, <3>2
  <2>5. Len(rbuf') = m + n
    BY <1>6 DEF m
  <2>6. before + Len(rbuf') = at'.pos
    BY <2>1, <2>2, <2>5, <1>5
  <2>7. at'.of = opened /\ at'.pos <= Len(stored[opened])
    BY <1>1, <1>5, <2>1 DEF src
  <2> QED
    BY <2>1, <2>4, <2>5, <2>6, <2>7 DEF before, src
<1> QED
  BY <1>1, <1>2, <1>7, <1>8, <1>9, <1>10
  DEF Reader, WholeIsWhole, HonestStorageIsEnough, RangedReadIsRight

\* Bytes that open as a chunk carry the text of that chunk's place.
LEMMA OpensText ==
  ASSUME NEW bytes \in Seq(Bytes), NEW s \in Streams, NEW i \in 0 .. Count(s) - 1,
         NEW final, Opens(bytes, s, i, final)
  PROVE  /\ bytes[1].text = Text(s, i * ChunkSize, i * ChunkSize + TextLen(s, i))
         /\ Len(bytes[1].text) = TextLen(s, i)
<1> DEFINE text == bytes[1].text
           a == i * ChunkSize
<1>1. bytes # <<>> /\ bytes = Sealed(s, i, final, text)
  BY DEF Opens
<1>2. bytes[1] \in Bytes /\ 1 \in 1 .. Len(bytes)
  BY <1>1, EmptySeq, ElementOfSeq
<1>3. text \in Seq(Streams \X Nat)
      /\ text = Text(bytes[1].stream, bytes[1].index * ChunkSize,
                     bytes[1].index * ChunkSize + TextLen(bytes[1].stream, bytes[1].index))
  BY <1>2 DEF Bytes
<1>4. bytes[1].stream = s /\ bytes[1].index = i
  <2> HIDE DEF text
  <2>1. Len(text) + TagLen \in Nat /\ 1 \in 1 .. Len(text) + TagLen
    BY <1>3, Sizes
  <2>2. Sealed(s, i, final, text)[1] =
          [stream |-> s, index |-> i, final |-> final, text |-> text, at |-> 1]
    BY <2>1 DEF Sealed
  <2> QED
    BY <1>1, <2>2
<1>5. text = Text(s, a, a + TextLen(s, i))
  BY <1>3, <1>4
<1>6. Len(Text(s, a, a + TextLen(s, i))) = TextLen(s, i)
  BY ChunkTextIs
<1> QED
  BY <1>5, <1>6

\* The bytes that are taken for the next chunk, and those behind them.
LEMMA NextChunkIs ==
  ASSUME Writer, Reader, pc = "push", ChunkIsHere
  PROVE  LET n == SealedLen(opened, rnext)
             rest == SubSeq(rbuf, n + 1, Len(rbuf))
         IN  /\ rnext \in 0 .. Count(opened) - 1 /\ n \in Nat /\ 1 <= n /\ n <= Len(rbuf)
             /\ NextChunk \in Seq(Bytes) /\ Len(NextChunk) = n
             /\ \A k \in 1 .. n : NextChunk[k] = rbuf[k]
             /\ rest \in Seq(Bytes) /\ Len(rest) = Len(rbuf) - n
             /\ \A k \in 1 .. Len(rbuf) - n : rest[k] = rbuf[n + k]
<1> DEFINE n == SealedLen(opened, rnext)
           m == Len(rbuf)
<1>1. rbuf \in Seq(Bytes) /\ opened \in Streams /\ rnext \in 0 .. Count(opened)
      /\ Count(opened) \in Nat
  BY ReadingIs
<1>2. rnext \in 0 .. Count(opened) - 1 /\ n <= m
  BY <1>1 DEF ChunkIsHere
<1>3. n \in Nat /\ 1 <= n /\ m \in Nat
  BY <1>1, <1>2, TextLenIs
<1>4. \A k \in 1 .. m : rbuf[k] \in Bytes
  BY <1>1, ElementOfSeq
<1>5. NextChunk = SubSeq(rbuf, 1, n)
  BY DEF NextChunk
<1> HIDE DEF n, m
<1>6. /\ SubSeq(rbuf, 1, n) \in Seq(Bytes) /\ Len(SubSeq(rbuf, 1, n)) = n
      /\ \A k \in 1 .. n : SubSeq(rbuf, 1, n)[k] = rbuf[k]
  <2>1. \A k \in 1 .. n : rbuf[k] \in Bytes
    BY <1>2, <1>3, <1>4
  <2> QED
    BY <1>3, <2>1, SubSeqProperties
<1>7. /\ SubSeq(rbuf, n + 1, m) \in Seq(Bytes) /\ Len(SubSeq(rbuf, n + 1, m)) = m - n
      /\ \A k \in 1 .. m - n : SubSeq(rbuf, n + 1, m)[k] = rbuf[n + k]
  <2>1. \A k \in n + 1 .. m : rbuf[k] \in Bytes
    BY <1>2, <1>3, <1>4
  <2>2. n + 1 \in Int /\ m \in Int /\ n + 1 <= m + 1 /\ m - (n + 1) + 1 = m - n
    BY <1>2, <1>3
  <2>3. \A k \in 1 .. m - n : n + 1 + k - 1 = n + k
    BY <1>3
  <2> QED
    BY <2>1, <2>2, <2>3, SubSeqProperties
<1> QED
  BY <1>2, <1>3, <1>5, <1>6, <1>7 DEF n, m

LEMMA OpenChunkKeeps == ASSUME Writer, Reader, OpenChunk PROVE Reader'
<1> DEFINE s == opened
           i == rnext
           n == SealedLen(s, i)
           x == NextChunk[1].text
           g == Len(given)
           d == i * ChunkSize
           e == d + TextLen(s, i)
<1>1. /\ pc = "push" /\ ChunkIsHere /\ Opens(NextChunk, s, i, i + 1 = Count(s))
      /\ held' = held \o x /\ decoded' = decoded + Len(x) /\ rnext' = i + 1
      /\ rbuf' = SubSeq(rbuf, Len(NextChunk) + 1, Len(rbuf))
      /\ UNCHANGED <<pc, asked, opened, given, verdict, at, jumps, stored>>
  BY DEF OpenChunk
<1>2. /\ Sequential /\ verdict = "none" /\ s \in Kept /\ s \in Streams /\ at.of \in Streams
      /\ Accepts(s, asked.place) /\ decoded = TextBefore(s, i) /\ decoded \in Nat
      /\ g \in 0 .. decoded /\ given = Text(s, 0, g) /\ held = Text(s, g, decoded)
      /\ rbuf \in Seq(Bytes) /\ Count(s) \in Nat
  BY <1>1, ReadingIs
<1>3. /\ i \in 0 .. Count(s) - 1 /\ n \in Nat /\ 1 <= n /\ n <= Len(rbuf)
      /\ NextChunk \in Seq(Bytes) /\ Len(NextChunk) = n
      /\ rbuf' \in Seq(Bytes) /\ Len(rbuf') = Len(rbuf) - n
      /\ \A k \in 1 .. Len(rbuf) - n : rbuf'[k] = rbuf[n + k]
  <2>1. /\ i \in 0 .. Count(s) - 1 /\ n \in Nat /\ 1 <= n /\ n <= Len(rbuf)
        /\ NextChunk \in Seq(Bytes) /\ Len(NextChunk) = n
    BY <1>1, NextChunkIs
  <2>2. rbuf' = SubSeq(rbuf, n + 1, Len(rbuf))
    BY <1>1, <2>1
  <2>3. /\ SubSeq(rbuf, n + 1, Len(rbuf)) \in Seq(Bytes)
        /\ Len(SubSeq(rbuf, n + 1, Len(rbuf))) = Len(rbuf) - n
        /\ \A k \in 1 .. Len(rbuf) - n : SubSeq(rbuf, n + 1, Len(rbuf))[k] = rbuf[n + k]
    BY <1>1, NextChunkIs
  <2> QED
    BY <2>1, <2>2, <2>3
<1>4. x = Text(s, d, e) /\ Len(x) = TextLen(s, i)
  BY <1>1, <1>2, <1>3, OpensText
<1>5. d \in Nat /\ e \in Nat /\ d <= e /\ decoded = d /\ e = TextBefore(s, i + 1)
      /\ TextLen(s, i) \in Nat
  BY <1>2, <1>3, TextLenIs
<1>6. decoded' = e
  BY <1>1, <1>4, <1>5
<1>7. held' = Text(s, g, e)
  <2> HIDE DEF d, e, g, s, i
  <2>1. g \in Nat /\ g <= d
    BY <1>2, <1>5
  <2>2. Text(s, g, d) \o Text(s, d, e) = Text(s, g, e)
    <3>1. s \in Streams /\ d \in Nat /\ e \in Nat /\ d <= e
      BY <1>2, <1>5
    <3> QED
      BY <3>1, <2>1, TextJoins
  <2>3. held = Text(s, g, d)
    BY <1>2, <1>5
  <2> QED
    BY <1>1, <1>4, <2>2, <2>3
<1>8. ReaderTypeOK'
  BY <1>1, <1>3, <1>5, <1>6 DEF Reader, ReaderTypeOK
<1>9. Reading'
  BY <1>1, <1>2 DEF Reading, Sequential
<1>10. TextFollows'
  <2>1. i + 1 <= Count(s) /\ g \in Nat /\ g <= e
    BY <1>2, <1>3, <1>5
  <2>2. s \in Kept'
    BY <1>1, <1>2 DEF Kept
  <2> HIDE DEF d, e
  <2> QED
    BY <1>1, <1>2, <1>5, <1>6, <1>7, <2>1, <2>2 DEF TextFollows
<1>11. BytesFollow'
  <2> DEFINE before == BytesBefore(s, i)
             m == Len(rbuf)
  <2> SUFFICES ASSUME jumps = 0
      PROVE /\ at.of = s /\ at.pos <= Len(stored[s])
            /\ BytesBefore(s, i + 1) + Len(rbuf') = at.pos
            /\ \A k \in 1 .. Len(rbuf') : rbuf'[k] = stored[s][BytesBefore(s, i + 1) + k]
    BY <1>1 DEF BytesFollow
  <2>1. /\ at.of = s /\ at.pos <= Len(stored[s]) /\ before + m = at.pos
        /\ \A k \in 1 .. m : rbuf[k] = stored[s][before + k]
    BY <1>1, <1>2 DEF Reader, BytesFollow
  <2>2. before \in Nat /\ m \in Nat /\ BytesBefore(s, i + 1) = before + n
    BY <1>2, <1>3, BytesBeforeIs
  <2> HIDE DEF before, m, n
  <2>3. ASSUME NEW k \in 1 .. m - n PROVE rbuf'[k] = stored[s][before + n + k]
    <3>1. n + k \in 1 .. m /\ before + (n + k) = before + n + k
      BY <1>3, <2>2
    <3> QED
      BY <3>1, <1>3, <2>1 DEF m
  <2>4. Len(rbuf') = m - n
    BY <1>3 DEF m
  <2>5. before + n + (m - n) = before + m
    BY <1>3, <2>2
  <2> QED
    BY <2>1, <2>2, <2>3, <2>4, <2>5
<1> QED
  BY <1>1, <1>2, <1>8, <1>9, <1>10, <1>11
  DEF Reader, WholeIsWhole, HonestStorageIsEnough, RangedReadIsRight

\* From storage that never jumped, the next chunk's bytes are the next chunk.
LEMMA HonestChunkOpens ==
  ASSUME Writer, Reader, pc = "push", ChunkIsHere, jumps = 0
  PROVE  Opens(NextChunk, opened, rnext, rnext + 1 = Count(opened))
<1> DEFINE s == opened
           i == rnext
           n == SealedLen(s, i)
<1>1. s \in Kept /\ s \in Streams /\ Sequential /\ rbuf \in Seq(Bytes)
  BY ReadingIs
<1>2. /\ i \in 0 .. Count(s) - 1 /\ n \in Nat /\ 1 <= n /\ n <= Len(rbuf)
      /\ NextChunk \in Seq(Bytes) /\ Len(NextChunk) = n
      /\ \A k \in 1 .. n : NextChunk[k] = rbuf[k]
  BY NextChunkIs
<1>3. Cut(stored[s], s, Count(s)) /\ Count(s) \in Nat
  BY <1>1, KeptIs, CountIs
<1>4. Chunk(s, i) \in Seq(Bytes) /\ Len(Chunk(s, i)) = n
  BY <1>1, <1>2, ChunkIs
<1>5. BytesBefore(s, i) = Start(i)
  BY <1>1, <1>2, BytesBeforeIs
<1>6. \A k \in 1 .. Len(rbuf) : rbuf[k] = stored[s][Start(i) + k]
  BY <1>1, <1>5 DEF Reader, BytesFollow
<1>7. \A k \in 1 .. n : stored[s][Start(i) + k] = Chunk(s, i)[k]
  BY <1>1, <1>2, <1>3 DEF Cut
<1>8. NextChunk = Chunk(s, i)
  <2> HIDE DEF n
  <2>1. \A k \in 1 .. n : NextChunk[k] = Chunk(s, i)[k]
    <3>1. \A k \in 1 .. n : k \in 1 .. Len(rbuf)
      BY <1>1, <1>2
    <3> QED
      BY <1>2, <1>6, <1>7, <3>1
  <2> QED
    BY <1>2, <1>4, <2>1, SeqEqual
<1> DEFINE text == Text(s, i * ChunkSize, i * ChunkSize + TextLen(s, i))
<1>9. NextChunk = Sealed(s, i, i + 1 = Count(s), text)
  BY <1>8 DEF Chunk
<1>10. NextChunk # <<>> /\ 1 \in 1 .. Len(text) + TagLen
  <2>1. Len(<<>>) = 0
    OBVIOUS
  <2>2. NextChunk # <<>>
    BY <1>2, <2>1
  <2>3. Len(text) \in Nat
    BY <1>1, <1>2, ChunkTextIs
  <2> HIDE DEF text
  <2> QED
    BY <2>2, <2>3, Sizes
<1> HIDE DEF text
<1>11. NextChunk[1].text = text
  BY <1>9, <1>10 DEF Sealed
<1> QED
  BY <1>9, <1>10, <1>11 DEF Opens

LEMMA ChunkFailsKeeps == ASSUME Writer, Reader, ChunkFails PROVE Reader'
<1>1. /\ pc = "push" /\ pc' = "over" /\ verdict' = "refused" /\ ChunkIsHere
      /\ ~Opens(NextChunk, opened, rnext, rnext + 1 = Count(opened))
      /\ rbuf' = SubSeq(rbuf, Len(NextChunk) + 1, Len(rbuf)) /\ held' = <<>>
      /\ UNCHANGED <<asked, opened, rnext, decoded, given, at, jumps, stored>>
  BY DEF ChunkFails, Refuse
<1>2. jumps # 0
  BY <1>1, HonestChunkOpens
<1>3. rbuf' \in Seq(Bytes)
  <2>1. Len(NextChunk) = SealedLen(opened, rnext)
    BY <1>1, NextChunkIs
  <2>2. SubSeq(rbuf, SealedLen(opened, rnext) + 1, Len(rbuf)) \in Seq(Bytes)
    BY <1>1, NextChunkIs
  <2> QED
    BY <1>1, <2>1, <2>2
<1>4. ReaderTypeOK'
  BY <1>1, <1>3 DEF Reader, ReaderTypeOK
<1>5. Reading'
  BY <1>1 DEF Reading
<1>6. TextFollows'
  BY <1>1 DEF Reader, TextFollows, Sequential, Kept
<1> QED
  BY <1>1, <1>2, <1>4, <1>5, <1>6
  DEF Reader, BytesFollow, WholeIsWhole, HonestStorageIsEnough, RangedReadIsRight

LEMMA TrailingKeeps == ASSUME Writer, Reader, Trailing PROVE Reader'
<1>1. /\ pc = "push" /\ pc' = "over" /\ verdict' = "refused"
      /\ rnext >= Count(opened) /\ rbuf # <<>> /\ held' = <<>>
      /\ UNCHANGED <<asked, opened, rbuf, rnext, decoded, given, at, jumps, stored>>
  BY DEF Trailing, Refuse
<1>2. opened \in Kept /\ opened \in Streams /\ Sequential /\ rnext = Count(opened)
      /\ Count(opened) \in Nat /\ rbuf \in Seq(Bytes)
  BY <1>1, ReadingIs
<1>3. jumps # 0
  <2> SUFFICES ASSUME jumps = 0 PROVE FALSE
    OBVIOUS
  <2>1. at.of = opened /\ at.pos <= Len(stored[opened])
        /\ BytesBefore(opened, rnext) + Len(rbuf) = at.pos
    BY <1>1, <1>2 DEF Reader, BytesFollow
  <2>2. BytesBefore(opened, rnext) \in Nat /\ BytesBefore(opened, rnext) = ExpectedLen(opened.len)
    BY <1>2, BeforeIs
  <2>3. Len(stored[opened]) = ExpectedLen(opened.len)
    BY <1>2, KeptIs
  <2>4. Len(rbuf) \in Nat /\ Len(rbuf) # 0
    BY <1>1, <1>2, EmptySeq
  <2> QED
    BY <2>1, <2>2, <2>3, <2>4
<1>4. ReaderTypeOK'
  BY <1>1 DEF Reader, ReaderTypeOK
<1>5. Reading'
  BY <1>1 DEF Reading
<1>6. TextFollows'
  BY <1>1 DEF Reader, TextFollows, Sequential, Kept
<1> QED
  BY <1>1, <1>3, <1>4, <1>5, <1>6
  DEF Reader, BytesFollow, WholeIsWhole, HonestStorageIsEnough, RangedReadIsRight

LEMMA PushReturnsKeeps == ASSUME Writer, Reader, PushReturns PROVE Reader'
<1> DEFINE s == opened
           g == Len(given)
<1>1. /\ pc = "push" /\ pc' = "read" /\ ~ChunkIsHere /\ (rnext < Count(s) \/ rbuf = <<>>)
      /\ given' = given \o held /\ held' = <<>>
      /\ UNCHANGED <<asked, opened, rbuf, rnext, decoded, verdict, at, jumps, stored>>
  BY DEF PushReturns
<1>2. /\ Sequential /\ verdict = "none" /\ s \in Kept /\ s \in Streams /\ at.of \in Streams
      /\ Accepts(s, asked.place) /\ rnext \in 0 .. Count(s) /\ decoded = TextBefore(s, rnext)
      /\ decoded \in Nat /\ g \in 0 .. decoded /\ given = Text(s, 0, g)
      /\ held = Text(s, g, decoded) /\ Count(s) \in Nat
  BY <1>1, ReadingIs
<1>3. given' = Text(s, 0, decoded)
  <2> HIDE DEF g
  <2>1. g \in Nat /\ 0 <= g /\ g <= decoded
    BY <1>2
  <2>2. Text(s, 0, g) \o Text(s, g, decoded) = Text(s, 0, decoded)
    BY <1>2, <2>1, TextJoins
  <2> QED
    BY <1>1, <1>2, <2>2
<1>4. Len(given') = decoded
  <2>1. Len(Text(s, 0, decoded)) = decoded
    BY <1>2, TextIs
  <2> QED
    BY <1>3, <2>1
<1>5. ReaderTypeOK'
  BY <1>1 DEF Reader, ReaderTypeOK
<1>6. Reading'
  BY <1>1, <1>2 DEF Reading, Sequential, ChunkIsHere
<1>7. TextFollows'
  <2>1. held' = Text(s, decoded, decoded)
    BY <1>1, <1>2, NoText
  <2>2. s \in Kept' /\ rnext <= Count(s)
    BY <1>1, <1>2 DEF Kept
  <2> QED
    BY <1>1, <1>2, <1>3, <1>4, <2>1, <2>2 DEF TextFollows
<1>8. BytesFollow'
  BY <1>1 DEF Reader, BytesFollow, Sequential
<1> QED
  BY <1>1, <1>2, <1>5, <1>6, <1>7, <1>8
  DEF Reader, WholeIsWhole, HonestStorageIsEnough, RangedReadIsRight

LEMMA EndKeeps == ASSUME Writer, Reader, End PROVE Reader'
<1> DEFINE s == opened
           g == Len(given)
           Through == rnext >= Count(s) /\ rbuf = <<>> /\ decoded = s.len
<1>1. /\ pc = "read" /\ pc' = "over"
      /\ verdict' = IF Through THEN "whole" ELSE "refused"
      /\ UNCHANGED <<asked, opened, rbuf, rnext, decoded, held, given, at, jumps, stored>>
  BY DEF End, Refuse, decryptor
<1>2. /\ Sequential /\ s \in Kept /\ s \in Streams /\ Accepts(s, asked.place)
      /\ rnext \in 0 .. Count(s) /\ decoded = TextBefore(s, rnext) /\ decoded \in Nat
      /\ g \in 0 .. decoded /\ given = Text(s, 0, g) /\ held = Text(s, g, decoded)
      /\ rbuf \in Seq(Bytes) /\ Count(s) \in Nat /\ at.pos \in Nat
  BY <1>1, ReadingIs
<1>3. held = <<>> /\ ~ChunkIsHere /\ (rnext < Count(s) \/ rbuf = <<>>)
  BY <1>1 DEF Reader, Reading
<1>4. g = decoded
  <2>1. Len(held) = decoded - g
    <3> HIDE DEF g
    <3>1. g \in Nat /\ g <= decoded
      BY <1>2
    <3>2. Len(Text(s, g, decoded)) = decoded - g
      BY <1>2, <3>1, TextIs
    <3> QED
      BY <1>2, <3>2
  <2>2. Len(held) = 0
    BY <1>3
  <2> QED
    BY <1>2, <2>1, <2>2
<1>5. ReaderTypeOK'
  BY <1>1 DEF Reader, ReaderTypeOK
<1>6. Reading'
  BY <1>1 DEF Reading
<1>7. TextFollows'
  BY <1>1 DEF Reader, TextFollows, Sequential, Kept
<1>8. WholeIsWhole'
  <2> SUFFICES ASSUME Through
               PROVE  given = Text(s, 0, s.len) /\ rnext = Count(s) /\ rbuf = <<>>
    BY <1>1 DEF WholeIsWhole
  <2>1. rnext = Count(s)
    BY <1>2
  <2> QED
    BY <1>2, <1>4, <2>1
<1>9. HonestStorageIsEnough'
  <2> SUFFICES ASSUME jumps = 0, ~Through PROVE at.of = s /\ at.pos < Len(stored[s])
    BY <1>1 DEF HonestStorageIsEnough
  <2>1. at.of = s /\ BytesBefore(s, rnext) + Len(rbuf) = at.pos
    BY <1>1, <1>2 DEF Reader, BytesFollow
  <2>2. Len(stored[s]) = ExpectedLen(s.len)
    BY <1>2, KeptIs
  <2>3. rnext < Count(s)
    <3> SUFFICES ASSUME rnext = Count(s) PROVE FALSE
      BY <1>2
    <3>1. decoded = s.len
      BY <1>2, BeforeIs
    <3> QED
      BY <1>2, <1>3, <3>1
  <2>4. rnext \in 0 .. Count(s) - 1
    BY <1>2, <2>3
  <2>5. Len(rbuf) < SealedLen(s, rnext) /\ SealedLen(s, rnext) \in Nat /\ Len(rbuf) \in Nat
    <3>1. SealedLen(s, rnext) \in Nat
      BY <1>2, <2>4, TextLenIs
    <3>2. ~(Len(rbuf) >= SealedLen(s, rnext))
      BY <1>3, <2>3 DEF ChunkIsHere
    <3> QED
      BY <1>2, <3>1, <3>2
  <2>6. /\ BytesBefore(s, rnext) = Start(rnext) /\ Start(rnext) \in Nat
        /\ BytesBefore(s, rnext + 1) = Start(rnext) + SealedLen(s, rnext)
        /\ BytesBefore(s, rnext + 1) <= ExpectedLen(s.len)
    BY <1>2, <2>4, BytesBeforeIs, StartIs
  <2>7. ExpectedLen(s.len) \in Nat
    BY <1>2, <2>2, KeptIs
  <2> QED
    BY <2>1, <2>2, <2>5, <2>6, <2>7
<1>10. RangedReadIsRight' /\ BytesFollow'
  BY <1>1, <1>2 DEF RangedReadIsRight, BytesFollow, Sequential
<1> QED
  BY <1>5, <1>6, <1>7, <1>8, <1>9, <1>10 DEF Reader

LEMMA OpenRangedKeeps ==
  ASSUME Writer, Reader, NEW place \in Places, NEW s \in Kept, NEW i \in 0 .. Count(s),
         NEW bytes \in Seq(Bytes), OpenRanged(place, i, s, bytes)
  PROVE  Reader'
<1> DEFINE Good == /\ Accepts(s, place) /\ i < Count(s) /\ Len(bytes) = SealedLen(s, i)
                   /\ Opens(bytes, s, i, i + 1 = Count(s))
<1>1. /\ pc = "closed" /\ pc' = "over" /\ asked' = [place |-> place, chunk |-> i] /\ opened' = s
      /\ verdict' = (IF Good THEN "whole" ELSE "refused")
      /\ given' = (IF Good THEN bytes[1].text ELSE given)
      /\ UNCHANGED <<rbuf, rnext, decoded, held, at, jumps, stored>>
  BY DEF OpenRanged, Refuse, decryptor
<1>2. s \in Streams /\ Count(s) \in Nat /\ i \in Nat /\ i # Nothing
  BY KeptIs, CountIs, NothingElse
<1>3. ~Sequential'
  BY <1>1, <1>2 DEF Sequential
<1>4. ReaderTypeOK'
  BY <1>1 DEF Reader, ReaderTypeOK
<1>5. Reading'
  BY <1>1 DEF Reading
<1>6. RangedReadIsRight'
  <2> SUFFICES ASSUME Good
               PROVE  /\ Accepts(s, place)
                      /\ bytes[1].text = Text(s, i * ChunkSize, i * ChunkSize + TextLen(s, i))
    BY <1>1 DEF RangedReadIsRight
  <2>1. i \in 0 .. Count(s) - 1
    BY <1>2
  <2> QED
    BY <1>2, <2>1, OpensText
<1> QED
  BY <1>3, <1>4, <1>5, <1>6 DEF Reader, TextFollows, BytesFollow, WholeIsWhole, HonestStorageIsEnough

LEMMA ReaderStep == ASSUME Writer, Reader, [Next]_vars PROVE Reader'
<1>1. \A s \in Kept : s \in Kept' /\ stored'[s] = stored[s]
  BY WriterStep
<1>2. CASE UNCHANGED reader
  BY <1>1, <1>2, ReaderSame
<1>3. CASE Write
  <2>1. UNCHANGED reader
    BY <1>3 DEF Write, Begin, Push, SealChunk, Finish, GiveUp
  <2> QED
    BY <1>2, <2>1
<1>4. CASE Read
  <2>1. CASE \E place \in Places, s \in Kept : Open(place, s)
    BY <2>1, OpenKeeps
  <2>2. CASE \E s \in Kept : \E p \in 0 .. Len(stored[s]) : Jump(s, p)
    BY <2>2, JumpKeeps
  <2>3. CASE \E n \in 1 .. MaxPush : Feed(n)
    <3>1. \A n \in 1 .. MaxPush : n \in Nat
      BY FramingAssumption DEF FramingAssumption
    <3> QED
      BY <2>3, <3>1, FeedKeeps
  <2>4. CASE OpenChunk \/ ChunkFails \/ Trailing \/ PushReturns \/ End
    BY <2>4, OpenChunkKeeps, ChunkFailsKeeps, TrailingKeeps, PushReturnsKeeps, EndKeeps
  <2>5. ASSUME NEW place \in Places, NEW s \in Kept, NEW t \in Kept, NEW i \in 0 .. Count(s),
               NEW a \in 0 .. Len(stored[t]), NEW b \in a .. Len(stored[t]),
               OpenRanged(place, i, s, SubSeq(stored[t], a + 1, b))
        PROVE  Reader'
    <3>1. stored[t] \in Seq(Bytes)
      BY KeptIs
    <3>2. SubSeq(stored[t], a + 1, b) \in Seq(Bytes)
      <4>1. a + 1 \in 1 .. Len(stored[t]) + 1 /\ b \in Int /\ b <= Len(stored[t])
        BY <3>1
      <4>2. \A k \in a + 1 .. b : stored[t][k] \in Bytes
        BY <3>1, <4>1, ElementOfSeq
      <4> QED
        BY <4>1, <4>2, SubSeqProperties
    <3> QED
      BY <2>5, <3>2, OpenRangedKeeps
  <2> QED
    BY <1>4, <2>1, <2>2, <2>3, <2>4, <2>5 DEF Read
<1>5. CASE Over \/ UNCHANGED vars
  BY <1>2, <1>5 DEF Over, vars
<1> QED
  BY <1>3, <1>4, <1>5 DEF Next

-----------------------------------------------------------------------------
(* The theorems *)

\* What each half keeps true in every reachable state.
THEOREM Invariant == Spec => []IInv
<1>1. Init => IInv
  BY WriterInit, ReaderInit DEF IInv
<1>2. IInv /\ [Next]_vars => IInv'
  BY WriterStep, ReaderStep DEF IInv
<1> QED
  BY <1>1, <1>2, PTL DEF Spec

\* A stream that was finished is its chunks one after another, each its own
\* text under its own number and only the last one marked last, and exactly as
\* long as a reader lets it be, in whatever slices its text was pushed.
THEOREM SealedAsReference == Spec => []SealedIsReference
<1>1. IInv => SealedIsReference
  <2> SUFFICES ASSUME IInv, NEW s \in Kept
               PROVE  /\ Len(stored[s]) = ExpectedLen(s.len)
                      /\ \A i \in 0 .. Count(s) - 1 :
                           SubSeq(stored[s], Start(i) + 1, Start(i) + SealedLen(s, i)) = Chunk(s, i)
    BY DEF SealedIsReference
  <2>1. /\ s \in Streams /\ stored[s] \in Seq(Bytes)
        /\ Len(stored[s]) = ExpectedLen(s.len) /\ Cut(stored[s], s, Count(s))
        /\ Count(s) \in Nat
    BY KeptIs, CountIs DEF IInv
  <2>2. ASSUME NEW i \in 0 .. Count(s) - 1
        PROVE  SubSeq(stored[s], Start(i) + 1, Start(i) + SealedLen(s, i)) = Chunk(s, i)
    <3> DEFINE x == stored[s]
               c == Chunk(s, i)
               n == SealedLen(s, i)
               a == Start(i) + 1
               b == Start(i) + n
    <3>1. c \in Seq(Bytes) /\ Len(c) = n /\ n \in Nat /\ Start(i) \in Nat
      BY <2>1, ChunkIs, TextLenIs, StartIs
    <3>2. b <= Len(x)
      BY <2>1, BytesBeforeIs
    <3>3. \A j \in 1 .. n : x[Start(i) + j] = c[j]
      BY <2>1 DEF Cut
    <3> HIDE DEF x, c, n
    <3>4. a \in Int /\ b \in Int /\ a <= b + 1 /\ b - a + 1 = n
          /\ \A k \in 1 .. n : a + k - 1 = Start(i) + k
      BY <3>1
    <3>5. \A k \in a .. b : x[k] \in Bytes
      <4>1. x \in Seq(Bytes)
        BY <2>1 DEF x
      <4>2. \A k \in a .. b : k \in 1 .. Len(x)
        BY <3>1, <3>2, <4>1
      <4> QED
        BY <4>1, <4>2, ElementOfSeq
    <3> HIDE DEF a, b
    <3>6. /\ SubSeq(x, a, b) \in Seq(Bytes) /\ Len(SubSeq(x, a, b)) = b - a + 1
          /\ \A k \in 1 .. b - a + 1 : SubSeq(x, a, b)[k] = x[a + k - 1]
      BY <3>4, <3>5, SubSeqProperties
    <3>7. \A k \in 1 .. n : SubSeq(x, a, b)[k] = c[k]
      BY <3>3, <3>4, <3>6
    <3>8. SubSeq(x, a, b) = c
      BY <3>1, <3>4, <3>6, <3>7, SeqEqual
    <3> QED
      BY <3>8 DEF x, c, n, a, b
  <2> QED
    BY <2>1, <2>2
<1> QED
  BY <1>1, Invariant, PTL

\* Whatever bytes of whatever streams a reader is fed, what it was given is the
\* beginning of one stream's text, sealed for the place it is filling.
THEOREM GivesAPrefix == Spec => []GivenIsPrefix
<1>1. IInv => GivenIsPrefix
  <2> SUFFICES ASSUME IInv, Sequential
               PROVE  /\ Accepts(opened, asked.place)
                      /\ given = Text(opened, 0, Len(given)) /\ Len(given) <= opened.len
    BY DEF GivenIsPrefix
  <2>1. /\ opened \in Kept /\ Accepts(opened, asked.place) /\ rnext \in Nat
        /\ rnext <= Count(opened) /\ decoded = TextBefore(opened, rnext)
        /\ Len(given) \in Nat /\ Len(given) <= decoded /\ given = Text(opened, 0, Len(given))
    BY DEF IInv, Reader, ReaderTypeOK, TextFollows
  <2>2. opened \in Streams /\ rnext \in 0 .. Count(opened) /\ opened.len \in Nat
    BY <2>1, CountIs, StreamLen DEF Kept
  <2>3. decoded \in Nat /\ decoded <= opened.len
    BY <2>1, <2>2, BeforeIs
  <2> QED
    BY <2>1, <2>2, <2>3
<1> QED
  BY <1>1, Invariant, PTL

\* A stream that ended well was given to its last byte, and nothing is left over.
THEOREM WholeMeansWhole == Spec => []WholeIsWhole
<1>1. IInv => WholeIsWhole
  BY DEF IInv, Reader
<1> QED
  BY <1>1, Invariant, PTL

\* Fed the opened stream's own bytes in order, in slices of any size, a reader
\* refuses only what was cut off before its last byte.
THEOREM SlicesDoNotMatter == Spec => []HonestStorageIsEnough
<1>1. IInv => HonestStorageIsEnough
  BY DEF IInv, Reader
<1> QED
  BY <1>1, Invariant, PTL

\* One chunk read by range is the chunk that was asked for, of a stream sealed
\* for the place that was asked for.
THEOREM RangedReadGivesItsChunk == Spec => []RangedReadIsRight
<1>1. IInv => RangedReadIsRight
  BY DEF IInv, Reader
<1> QED
  BY <1>1, Invariant, PTL

=============================================================================
