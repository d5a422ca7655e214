-------------------------------- MODULE Framing --------------------------------
(***************************************************************************)
(* The NCF-3 stream of crypto/src/framing: StreamEncryptor, which seals a  *)
(* part chunk by chunk as its text is pushed, StreamDecryptor, which opens *)
(* one as its bytes are pushed, and decrypt_chunk, which opens one chunk   *)
(* of a ranged read.                                                       *)
(*                                                                         *)
(* A stream is named by its header: the nonce drawn for it, the key, the   *)
(* place of the part in its file and the length of its text.  Its text is  *)
(* numbered bytes of its own.  Sealing a chunk gives as many bytes as it   *)
(* has text, and the tag; it opens again only from exactly those bytes,    *)
(* under the header, number and final mark it was sealed with.  Whoever    *)
(* stores the streams may give any header of them, and bytes of any of     *)
(* them from anywhere, in slices of any size.                              *)
(***************************************************************************)
EXTENDS Naturals, Sequences, FiniteSets

CONSTANTS
  Streams,      \* the streams to be written, by their headers
  ChunkSize, TagLen,
  Dek,          \* the reader's key
  Places,       \* the places a reader may be filling
  MaxPush,      \* bound: bytes pushed at once
  MaxJumps,     \* bound: how often the storage goes on somewhere else
  MaxSpoiled,   \* bound: streams of which too much was pushed
  Nothing

ASSUME FramingAssumption ==
  /\ ChunkSize \in Nat \ {0} /\ TagLen \in Nat \ {0}
  /\ \A s \in Streams :
       /\ s.len \in Nat /\ s.index \in Nat /\ s.total \in Nat /\ s.index < s.total
  /\ Places \subseteq [index : Nat, total : Nat]
  /\ MaxPush \in Nat /\ MaxJumps \in Nat /\ MaxSpoiled \in Nat
  /\ Nothing \notin Streams \union Nat

VARIABLES
  \* The encryptor, of one stream at a time.
  writing,    \* the stream being sealed
  wbuf,       \* text pushed and not yet sealed
  wnext,      \* the next chunk to seal
  received,   \* how much text was pushed
  wire,       \* what has been sealed of it
  stored,     \* stored[s]: the bytes of stream s, once it was finished
  spoiled,    \* streams whose encryptor was given up
  \* The reader.
  pc,         \* "closed", "read", in a "push", or "over"
  asked,      \* the place it is filling and, for a ranged read, the chunk
  opened,     \* the stream whose header it was given
  rbuf, rnext, decoded,
  held,       \* text opened during this push
  given,      \* text the caller was given
  verdict,    \* "none", "whole" or "refused"
  at,         \* where the storage gives bytes from
  jumps

encryptor == <<writing, wbuf, wnext, received, wire>>
decryptor == <<rbuf, rnext, decoded, held>>
reader == <<pc, asked, opened, decryptor, given, verdict, at, jumps>>
vars == <<encryptor, stored, spoiled, reader>>

-----------------------------------------------------------------------------
(* Geometry *)

CeilDiv(a, b) == (a + b - 1) \div b

\* Header::chunk_count.
Count(s) == IF s.len = 0 THEN 1 ELSE CeilDiv(s.len, ChunkSize)

\* Header::chunk_plaintext_len, for a chunk the stream has.
TextLen(s, i) == IF i + 1 < Count(s) THEN ChunkSize ELSE s.len - (Count(s) - 1) * ChunkSize

\* Header::chunk_ciphertext_len.
SealedLen(s, i) == TextLen(s, i) + TagLen

\* source.rs's expected_stream_len, without the header: what a reader will read
\* at most of a stream.
ExpectedLen(len) ==
  len + TagLen * (IF CeilDiv(len, ChunkSize) > 1 THEN CeilDiv(len, ChunkSize) ELSE 1)

\* The text of S from byte A + 1 to byte B.
Text(s, a, b) == [k \in 1 .. b - a |-> <<s, a + k>>]

\* The bytes of a chunk sealed under the header S as number I.
Sealed(s, i, final, text) ==
  [k \in 1 .. Len(text) + TagLen |->
     [stream |-> s, index |-> i, final |-> final, text |-> text, at |-> k]]

\* What BYTES open to under that header and number.
Opens(bytes, s, i, final) ==
  /\ bytes # <<>>
  /\ bytes = Sealed(s, i, final, bytes[1].text)

-----------------------------------------------------------------------------
Init ==
  /\ writing = Nothing /\ wbuf = <<>> /\ wnext = 0 /\ received = 0 /\ wire = <<>>
  /\ stored = [s \in Streams |-> <<>>] /\ spoiled = {}
  /\ pc = "closed" /\ asked = Nothing /\ opened = Nothing
  /\ rbuf = <<>> /\ rnext = 0 /\ decoded = 0 /\ held = <<>>
  /\ given = <<>> /\ verdict = "none" /\ at = [of |-> Nothing, pos |-> 0] /\ jumps = 0

-----------------------------------------------------------------------------
(* Writing *)

\* new_part, under a nonce of its own.
Begin(s) ==
  /\ writing = Nothing /\ stored[s] = <<>> /\ s \notin spoiled
  /\ writing' = s
  /\ wbuf' = <<>> /\ wnext' = 0 /\ received' = 0 /\ wire' = <<>>
  /\ UNCHANGED <<stored, spoiled, reader>>

\* The loop of push: a full chunk goes out unless it is the last.
ChunkIsFull == wnext + 1 < Count(writing) /\ Len(wbuf) >= ChunkSize

\* push: text beyond the declared length is counted and not kept.
Push(n) ==
  /\ writing # Nothing /\ ~ChunkIsFull /\ received <= writing.len
  /\ received' = received + n
  /\ wbuf' = IF received + n > writing.len THEN wbuf
             ELSE wbuf \o Text(writing, received, received + n)
  /\ UNCHANGED <<writing, wnext, wire, stored, spoiled, reader>>

\* Mistake: everything in the buffer goes into the chunk.
SealWholeBuffer ==
  /\ writing # Nothing /\ ChunkIsFull
  /\ wire' = wire \o Sealed(writing, wnext, FALSE, wbuf)
  /\ wbuf' = <<>>
  /\ wnext' = wnext + 1
  /\ UNCHANGED <<writing, received, stored, spoiled, reader>>

SealChunk ==
  /\ writing # Nothing /\ ChunkIsFull
  /\ wire' = wire \o Sealed(writing, wnext, FALSE, SubSeq(wbuf, 1, ChunkSize))
  /\ wbuf' = SubSeq(wbuf, ChunkSize + 1, Len(wbuf))
  /\ wnext' = wnext + 1
  /\ UNCHANGED <<writing, received, stored, spoiled, reader>>

\* Mistake: the last chunk is sealed as one of many.
FinishUnmarked ==
  /\ writing # Nothing /\ ~ChunkIsFull /\ received = writing.len
  /\ stored' = [stored EXCEPT ![writing] =
       wire \o Sealed(writing, Count(writing) - 1, FALSE, wbuf)]
  /\ writing' = Nothing
  /\ wbuf' = <<>> /\ wnext' = 0 /\ received' = 0 /\ wire' = <<>>
  /\ UNCHANGED <<spoiled, reader>>

\* finish: with all the text in, what is left of it is the last chunk.  Before
\* that, and after too much, it is refused and changes nothing.  Its own loop
\* over full chunks never has one.
Finish ==
  /\ writing # Nothing /\ ~ChunkIsFull /\ received = writing.len
  /\ stored' = [stored EXCEPT ![writing] =
       wire \o Sealed(writing, Count(writing) - 1, TRUE, wbuf)]
  /\ writing' = Nothing
  /\ wbuf' = <<>> /\ wnext' = 0 /\ received' = 0 /\ wire' = <<>>
  /\ UNCHANGED <<spoiled, reader>>

\* Too much was pushed: nothing this encryptor does will be a stream.
GiveUp ==
  /\ writing # Nothing /\ received > writing.len
  /\ spoiled' = spoiled \union {writing}
  /\ writing' = Nothing
  /\ wbuf' = <<>> /\ wnext' = 0 /\ received' = 0 /\ wire' = <<>>
  /\ UNCHANGED <<stored, reader>>

-----------------------------------------------------------------------------
(* Reading *)

Kept == {s \in Streams : stored[s] # <<>>}

Written == writing = Nothing /\ Kept \union spoiled = Streams

\* Header::verify_commitment, and Header::verify_placement.
Accepts(s, place) == s.dek = Dek /\ s.index = place.index /\ s.total = place.total

Refuse == pc' = "over" /\ verdict' = "refused"

\* The header of some stream arrives for the place that is being filled.
Open(place, s) ==
  /\ pc = "closed" /\ Written
  /\ asked' = [place |-> place, chunk |-> Nothing]
  /\ IF Accepts(s, place)
     THEN /\ pc' = "read" /\ opened' = s /\ at' = [of |-> s, pos |-> 0]
          /\ UNCHANGED verdict
     ELSE Refuse /\ UNCHANGED <<opened, at>>
  /\ UNCHANGED <<encryptor, stored, spoiled, decryptor, given, jumps>>

\* The storage goes on with other bytes than the next ones.
Jump(s, p) ==
  /\ pc = "read" /\ jumps < MaxJumps
  /\ at' = [of |-> s, pos |-> p] /\ jumps' = jumps + 1
  /\ UNCHANGED <<encryptor, stored, spoiled, pc, asked, opened, decryptor, given, verdict>>

\* N more bytes arrive, and are pushed.
Feed(n) ==
  /\ pc = "read" /\ at.pos + n <= Len(stored[at.of])
  /\ rbuf' = rbuf \o SubSeq(stored[at.of], at.pos + 1, at.pos + n)
  /\ at' = [at EXCEPT !.pos = @ + n]
  /\ pc' = "push"
  /\ UNCHANGED <<encryptor, stored, spoiled, asked, opened, rnext, decoded, held, given, verdict, jumps>>

ChunkIsHere == rnext < Count(opened) /\ Len(rbuf) >= SealedLen(opened, rnext)

NextChunk == SubSeq(rbuf, 1, SealedLen(opened, rnext))

OpenChunk ==
  /\ pc = "push" /\ ChunkIsHere
  /\ Opens(NextChunk, opened, rnext, rnext + 1 = Count(opened))
  /\ held' = held \o NextChunk[1].text
  /\ decoded' = decoded + Len(NextChunk[1].text)
  /\ rbuf' = SubSeq(rbuf, Len(NextChunk) + 1, Len(rbuf))
  /\ rnext' = rnext + 1
  /\ UNCHANGED <<encryptor, stored, spoiled, pc, asked, opened, given, verdict, at, jumps>>

\* Mistake: a chunk that does not open is passed over.
ChunkSkipped ==
  /\ pc = "push" /\ ChunkIsHere
  /\ ~Opens(NextChunk, opened, rnext, rnext + 1 = Count(opened))
  /\ rbuf' = SubSeq(rbuf, Len(NextChunk) + 1, Len(rbuf))
  /\ rnext' = rnext + 1 /\ decoded' = decoded + Len(NextChunk) - TagLen
  /\ UNCHANGED <<encryptor, stored, spoiled, pc, asked, opened, held, given, verdict, at, jumps>>

\* A chunk does not open: the push fails, and what it had opened is dropped.
ChunkFails ==
  /\ pc = "push" /\ ChunkIsHere
  /\ ~Opens(NextChunk, opened, rnext, rnext + 1 = Count(opened))
  /\ Refuse
  /\ rbuf' = SubSeq(rbuf, Len(NextChunk) + 1, Len(rbuf)) /\ held' = <<>>
  /\ UNCHANGED <<encryptor, stored, spoiled, asked, opened, rnext, decoded, given, at, jumps>>

\* Bytes after the last chunk: so does this push.
Trailing ==
  /\ pc = "push" /\ rnext >= Count(opened) /\ rbuf # <<>>
  /\ Refuse /\ held' = <<>>
  /\ UNCHANGED <<encryptor, stored, spoiled, asked, opened, rbuf, rnext, decoded, given, at, jumps>>

PushReturns ==
  /\ pc = "push" /\ ~ChunkIsHere /\ (rnext < Count(opened) \/ rbuf = <<>>)
  /\ given' = given \o held /\ held' = <<>> /\ pc' = "read"
  /\ UNCHANGED <<encryptor, stored, spoiled, asked, opened, rbuf, rnext, decoded, verdict, at, jumps>>

\* Mistake: the number of chunks is not looked at.
EndRegardless ==
  /\ pc = "read"
  /\ IF rbuf = <<>> THEN pc' = "over" /\ verdict' = "whole" ELSE Refuse
  /\ UNCHANGED <<encryptor, stored, spoiled, asked, opened, decryptor, given, at, jumps>>

\* The storage has no more to give, and the caller calls finish.
End ==
  /\ pc = "read"
  /\ IF rnext >= Count(opened) /\ rbuf = <<>> /\ decoded = opened.len
     THEN pc' = "over" /\ verdict' = "whole"
     ELSE Refuse
  /\ UNCHANGED <<encryptor, stored, spoiled, asked, opened, decryptor, given, at, jumps>>

\* Mistake: the place is taken from the header that came with the bytes.
OpenRangedAnywhere(place, i, s, bytes) ==
  /\ pc = "closed" /\ Written
  /\ asked' = [place |-> place, chunk |-> i]
  /\ IF /\ s.dek = Dek /\ i < Count(s) /\ Len(bytes) = SealedLen(s, i)
        /\ Opens(bytes, s, i, i + 1 = Count(s))
     THEN pc' = "over" /\ verdict' = "whole" /\ given' = bytes[1].text
     ELSE Refuse /\ UNCHANGED given
  /\ opened' = s
  /\ UNCHANGED <<encryptor, stored, spoiled, decryptor, at, jumps>>

\* decrypt_chunk: a header and the bytes of a range arrive together.
OpenRanged(place, i, s, bytes) ==
  /\ pc = "closed" /\ Written
  /\ asked' = [place |-> place, chunk |-> i]
  /\ IF /\ Accepts(s, place) /\ i < Count(s) /\ Len(bytes) = SealedLen(s, i)
        /\ Opens(bytes, s, i, i + 1 = Count(s))
     THEN pc' = "over" /\ verdict' = "whole" /\ given' = bytes[1].text
     ELSE Refuse /\ UNCHANGED given
  /\ opened' = s
  /\ UNCHANGED <<encryptor, stored, spoiled, decryptor, at, jumps>>

-----------------------------------------------------------------------------
Write ==
  \/ \E s \in Streams : Begin(s)
  \/ \E n \in 1 .. MaxPush :
       /\ writing # Nothing
       /\ received + n > writing.len => Cardinality(spoiled) < MaxSpoiled
       /\ Push(n)
  \/ SealChunk \/ Finish \/ GiveUp

Read ==
  \/ \E place \in Places, s \in Kept : Open(place, s)
  \/ \E s \in Kept : \E p \in 0 .. Len(stored[s]) : Jump(s, p)
  \/ \E n \in 1 .. MaxPush : Feed(n)
  \/ OpenChunk \/ ChunkFails \/ Trailing \/ PushReturns \/ End
  \/ \E place \in Places, s \in Kept, t \in Kept :
       \E i \in 0 .. Count(s), a \in 0 .. Len(stored[t]) :
         \E b \in a .. Len(stored[t]) :
           OpenRanged(place, i, s, SubSeq(stored[t], a + 1, b))

\* The reader has its answer.
Over == pc = "over" /\ UNCHANGED vars

Next == Write \/ Read \/ Over

Spec == Init /\ [][Next]_vars

-----------------------------------------------------------------------------
(* Properties *)

Sequential == opened # Nothing /\ asked.chunk = Nothing

\* The chunk a stream must have as number I: its place in the text, and only the
\* last one marked as such.
Chunk(s, i) ==
  Sealed(s, i, i + 1 = Count(s), Text(s, i * ChunkSize, i * ChunkSize + TextLen(s, i)))

\* The bytes before it.
Start(i) == i * (ChunkSize + TagLen)

\* However its text was sliced when it was pushed, a stream comes out the same:
\* its chunks one after another, and exactly as long as source.rs's
\* expected_stream_len lets a reader read.
SealedIsReference ==
  \A s \in Kept :
    /\ Len(stored[s]) = ExpectedLen(s.len)
    /\ \A i \in 0 .. Count(s) - 1 :
         SubSeq(stored[s], Start(i) + 1, Start(i) + SealedLen(s, i)) = Chunk(s, i)

\* Whatever bytes of whatever streams arrive, in whatever slices, the text a
\* caller was given is a prefix of the text of one stream, sealed under the
\* reader's key for the place the reader is filling.
GivenIsPrefix ==
  (Sequential /\ given # <<>>) =>
    /\ Accepts(opened, asked.place)
    /\ given = Text(opened, 0, Len(given))
    /\ Len(given) <= opened.len

\* A stream that ended well was given whole, and nothing of it is left over.
WholeIsWhole ==
  (Sequential /\ verdict = "whole") =>
    /\ given = Text(opened, 0, opened.len)
    /\ rnext = Count(opened) /\ rbuf = <<>>

\* Slices do not matter: from storage that gives the opened stream's bytes in
\* order, a read is refused only when it was ended before the last of them.
HonestStorageIsEnough ==
  (Sequential /\ verdict = "refused" /\ jumps = 0) =>
    at.of = opened /\ at.pos < Len(stored[opened])

\* A ranged read gives the text of the chunk that was asked for, of a stream
\* sealed under the reader's key for the place that was asked for.
RangedReadIsRight ==
  (opened # Nothing /\ asked.chunk # Nothing /\ verdict = "whole") =>
    /\ Accepts(opened, asked.place)
    /\ given = Text(opened, asked.chunk * ChunkSize,
                    asked.chunk * ChunkSize + TextLen(opened, asked.chunk))
=============================================================================
