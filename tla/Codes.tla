------------------------------- MODULE Codes -------------------------------
(***************************************************************************)
(* codes.rs: bytes spelled in the 32 symbols of Crockford's alphabet, five *)
(* bits each, the first bit first, with a check symbol of 37 at the end,   *)
(* and the way back from what a person types.                              *)
(***************************************************************************)
EXTENDS Integers, SequencesExt

\* A character: a symbol's value, 32 to 36 in the check alphabet only, or one of
\* those a person may write besides.
CheckAlphabet == 0 .. 36
Alphabet == 0 .. 31
Separator == 100
LetterO == 101
LetterI == 102
Stray == 103

Normalize(text) ==
  LET kept == SelectSeq(text, LAMBDA c : c # Separator)
  IN  [i \in DOMAIN kept |-> CASE kept[i] = LetterO -> 0
                               [] kept[i] = LetterI -> 1
                               [] OTHER -> kept[i]]

\* The buffer is a u16.
Shifted(buffer, width, value) == (buffer * 2 ^ width + value) % 2 ^ 16

Empty == [buffer |-> 0, bits |-> 0, out |-> <<>>]

\* The next `width` bits leave the buffer, if there are so many.
Emit(acc, width) ==
  IF acc.bits < width THEN acc
  ELSE [acc EXCEPT !.bits = @ - width,
                   !.out = Append(@, (acc.buffer \div 2 ^ (acc.bits - width)) % 2 ^ width)]

TakeIn(acc, width, value) ==
  [acc EXCEPT !.buffer = Shifted(@, width, value), !.bits = @ + width]

\* The accumulator after each byte, and after each symbol.
Encoding(bytes) ==
  LET acc[n \in 0 .. Len(bytes)] ==
        IF n = 0 THEN Empty ELSE Emit(Emit(TakeIn(acc[n - 1], 8, bytes[n]), 5), 5)
  IN  acc

Decoding(symbols) ==
  LET acc[n \in 0 .. Len(symbols)] ==
        IF n = 0 THEN Empty ELSE Emit(TakeIn(acc[n - 1], 5, symbols[n]), 8)
  IN  acc

EncodeBase32(bytes) ==
  LET all == Encoding(bytes)[Len(bytes)]
      last == (all.buffer * 2 ^ (5 - all.bits)) % 2 ^ 5
  IN  IF all.bits = 0 THEN all.out ELSE Append(all.out, last)

\* Mistake: the bits that are left over are not looked at.
Decode32Unpadded(symbols) ==
  [bytes |-> Decoding(symbols)[Len(symbols)].out, padded |-> TRUE]

Decode32(symbols) ==
  LET all == Decoding(symbols)[Len(symbols)]
  IN  [bytes |-> all.out, padded |-> all.buffer % 2 ^ all.bits = 0]

Remainders(bytes) ==
  LET acc[n \in 0 .. Len(bytes)] == IF n = 0 THEN 0 ELSE (acc[n - 1] * 256 + bytes[n]) % 37
  IN  acc

Checksum(bytes) == Remainders(bytes)[Len(bytes)]

Canonical(bytes) == Append(EncodeBase32(bytes), Checksum(bytes))

\* The reason it is refused, or the bytes.
ParseChecked(text, dataSymbols) ==
  LET normal == Normalize(text)
      data == Front(normal)
      decoded == Decode32(data)
      Refuse(why) == [why |-> why, bytes |-> <<>>]
  IN  IF normal = <<>> THEN Refuse("empty")
      ELSE IF Len(normal) # dataSymbols + 1 THEN Refuse("length")
      ELSE IF \E i \in DOMAIN data : data[i] \notin Alphabet THEN Refuse("symbol")
      ELSE IF ~decoded.padded THEN Refuse("padding")
      ELSE IF Last(normal) \notin CheckAlphabet THEN Refuse("check symbol")
      ELSE IF Last(normal) # Checksum(decoded.bytes) THEN Refuse("check")
      ELSE [why |-> "", bytes |-> decoded.bytes]
=============================================================================
