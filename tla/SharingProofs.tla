---------------------------- MODULE SharingProofs ----------------------------
(***************************************************************************)
(* A shared key reaches the one who was meant and nobody else, for any     *)
(* identities, addresses, bundles, rows and number of envelopes, if a      *)
(* person who types makes one slip and owners sign only their own keys.    *)
(* That one slip is told is arithmetic: an address is its number spelled   *)
(* in base 32 with the remainder modulo 37, and so it is proved, for every *)
(* 16 bytes.                                                               *)
(***************************************************************************)
EXTENDS Sharing, SequenceTheorems, NaturalsInduction, WellFoundedInduction, TLAPS

(***************************************************************************)
(* Loops.  What a turn keeps holds after every turn, because a set of numbers *)
(* has a least one; and a loop whose turns are functions has values, so that *)
(* the CHOOSE in a recursive function has something to choose.             *)
(***************************************************************************)
LEMMA LeastPlace ==
  ASSUME NEW S \in SUBSET Nat, S # {}
  PROVE  \E k \in S : \A j \in S : k <= j
<1> DEFINE R == OpToRel(<, Nat)
<1>1. PICK k \in S : \A j \in S : ~(<<j, k>> \in R)
  <2>1. IsWellFoundedOn(R, Nat)
    BY NatLessThanWellFounded
  <2> HIDE DEF R
  <2> QED
    BY <2>1, WFMin
<1>2. \A j \in S : ~(j < k)
  BY <1>1 DEF OpToRel
<1> QED
  BY <1>2

\* A set of numbers that has 0 and the successor of each of its own up to N.
LEMMA UpTo ==
  ASSUME NEW N \in Nat, NEW Q, 0 \in Q, \A n \in 1 .. N : n - 1 \in Q => n \in Q
  PROVE  0 .. N \subseteq Q
<1> DEFINE Bad == {n \in 0 .. N : n \notin Q}
<1> SUFFICES ASSUME Bad # {} PROVE FALSE
  OBVIOUS
<1>1. PICK k \in Bad : \A j \in Bad : k <= j
  <2>1. Bad \in SUBSET Nat
    OBVIOUS
  <2> QED
    BY <2>1, LeastPlace
<1>2. k # 0
  OBVIOUS
<1>3. k \in 1 .. N /\ k - 1 \in 0 .. N
  BY <1>2
<1>4. k - 1 \in Q
  BY <1>1, <1>3
<1> QED
  BY <1>1, <1>3, <1>4

\* The values of a loop that starts with `base` and takes turns F[1], F[2], ..., F[N].
IsLoop(f, N, S, base, F) ==
  /\ f \in [0 .. N -> S]
  /\ f[0] = base
  /\ \A n \in 1 .. N : f[n] = F[n][f[n - 1]]

\* Every loop has values.
LEMMA LoopHas ==
  ASSUME NEW N \in Nat, NEW S, NEW base \in S, NEW F \in [1 .. N -> [S -> S]]
  PROVE  \E f : IsLoop(f, N, S, base, F)
<1> DEFINE Done(n, f) == f[0] = base /\ \A k \in 1 .. n : f[k] = F[k][f[k - 1]]
           Q == {n \in 0 .. N : \E f \in [0 .. n -> S] : Done(n, f)}
<1>1. 0 \in Q
  <2>1. [i \in 0 .. 0 |-> base] \in [0 .. 0 -> S] /\ Done(0, [i \in 0 .. 0 |-> base])
    OBVIOUS
  <2> HIDE DEF Done
  <2> QED
    BY <2>1
<1>2. ASSUME NEW n \in 1 .. N, n - 1 \in Q PROVE n \in Q
  <2>1. PICK f \in [0 .. n - 1 -> S] : Done(n - 1, f)
    BY <1>2
  <2> DEFINE g == [i \in 0 .. n |-> IF i = n THEN F[n][f[n - 1]] ELSE f[i]]
  <2>2. f[n - 1] \in S
    OBVIOUS
  <2>3. F[n][f[n - 1]] \in S
    BY <2>2
  <2>4. g \in [0 .. n -> S]
    BY <2>3
  <2>5. ASSUME NEW k \in 1 .. n PROVE g[k] = F[k][g[k - 1]]
    <3>1. k - 1 \in 0 .. n - 1 /\ g[k - 1] = f[k - 1]
      OBVIOUS
    <3>2. CASE k = n
      <4>1. g[k] = F[n][f[n - 1]]
        BY <3>2
      <4> QED
        BY <3>1, <3>2, <4>1
    <3>3. CASE k # n
      <4>1. g[k] = f[k] /\ k \in 1 .. n - 1
        BY <3>3
      <4> QED
        BY <2>1, <3>1, <4>1
    <3> QED
      BY <3>2, <3>3
  <2>6. g[0] = base
    BY <2>1
  <2>7. n \in 0 .. N
    OBVIOUS
  <2> HIDE DEF g
  <2>8. Done(n, g)
    BY <2>5, <2>6
  <2> HIDE DEF Done
  <2> QED
    BY <2>4, <2>7, <2>8
<1>3. N \in Q
  <2> HIDE DEF Q
  <2>1. 0 .. N \subseteq Q
    BY <1>1, <1>2, UpTo
  <2> QED
    BY <2>1
<1> QED
  BY <1>3 DEF IsLoop

(***************************************************************************)
(* Bits.  The buffer of 16 bits as the number that is in its last n bits.  *)
(***************************************************************************)
LEMMA Powers ==
  /\ 2 ^ 0 = 1 /\ 2 ^ 1 = 2 /\ 2 ^ 2 = 4 /\ 2 ^ 3 = 8 /\ 2 ^ 4 = 16 /\ 2 ^ 5 = 32
  /\ 2 ^ 6 = 64 /\ 2 ^ 7 = 128 /\ 2 ^ 8 = 256 /\ 2 ^ 16 = 65536
OBVIOUS

\* The last n bits of a buffer, the `width` bits before them, and room for n more
\* behind a number; the number with the bits in it.
Low(y, n) == y % 2 ^ n
Middle(y, n, width) == (y \div 2 ^ n) % 2 ^ width
Room(w, n) == w * 2 ^ n
Held(w, n, y) == Room(w, n) + Low(y, n)

\* A number and one more digit behind it.
More(h, base, d) == h * base + d

\* The bits of a buffer that are not yet out, the room for them, and both with what is out.
LEMMA BitsAre ==
  ASSUME NEW y \in Nat, NEW w \in Nat, NEW n \in 0 .. 7
  PROVE  Low(y, n) \in Nat /\ Room(w, n) \in Nat /\ Held(w, n, y) \in Nat
<1>1. CASE n = 0
  BY <1>1, Powers DEF Low, Room, Held
<1>2. CASE n = 1
  BY <1>2, Powers DEF Low, Room, Held
<1>3. CASE n = 2
  BY <1>3, Powers DEF Low, Room, Held
<1>4. CASE n = 3
  BY <1>4, Powers DEF Low, Room, Held
<1>5. CASE n = 4
  BY <1>5, Powers DEF Low, Room, Held
<1>6. CASE n = 5
  BY <1>6, Powers DEF Low, Room, Held
<1>7. CASE n = 6
  BY <1>7, Powers DEF Low, Room, Held
<1>8. CASE n = 7
  BY <1>8, Powers DEF Low, Room, Held
<1> QED
  BY <1>1, <1>2, <1>3, <1>4, <1>5, <1>6, <1>7, <1>8

\* What a byte or a symbol makes of the buffer, which is 16 bits wide.
LEMMA ShiftedIs ==
  ASSUME NEW x \in Nat, NEW v \in Nat
  PROVE  /\ Shifted(x, 5, v) = (x * 32 + v) % 65536 /\ Shifted(x, 5, v) \in Nat
         /\ Shifted(x, 8, v) = (x * 256 + v) % 65536 /\ Shifted(x, 8, v) \in Nat
BY Powers DEF Shifted

\* A buffer stays a number.
LEMMA ShiftedIn ==
  ASSUME NEW x \in Nat, NEW v \in Nat
  PROVE  Shifted(x, 5, v) \in Nat /\ Shifted(x, 8, v) \in Nat
BY ShiftedIs

\* Five bits more in the buffer, of which fewer than eight are in use then.
LEMMA FiveMore ==
  ASSUME NEW x \in Nat, NEW v \in Nat, v < 32, NEW w \in Nat, NEW n \in 0 .. 2
  PROVE  \A m \in 5 .. 7, h \in Nat : m = n + 5 /\ h = Held(w, n, x) =>
           Held(w, m, Shifted(x, 5, v)) = More(h, 32, v)
<1> DEFINE y == Shifted(x, 5, v)
<1>1. y = (x * 32 + v) % 65536 /\ y \in Nat
  BY ShiftedIs
<1> HIDE DEF y
<1>2. Low(y, n + 5) = 32 * Low(x, n) + v /\ Room(w, n + 5) = 32 * Room(w, n)
  <2>1. CASE n = 0
    <3>1. y % 32 = 32 * (x % 1) + v
      BY <1>1
    <3>2. 2 ^ n = 1 /\ 2 ^ (n + 5) = 32
      BY <2>1, Powers
    <3> QED
      BY <3>1, <3>2 DEF Low, Room
  <2>2. CASE n = 1
    <3>1. y % 64 = 32 * (x % 2) + v
      BY <1>1
    <3>2. 2 ^ n = 2 /\ 2 ^ (n + 5) = 64
      BY <2>2, Powers
    <3> QED
      BY <3>1, <3>2 DEF Low, Room
  <2>3. CASE n = 2
    <3>1. y % 128 = 32 * (x % 4) + v
      BY <1>1
    <3>2. 2 ^ n = 4 /\ 2 ^ (n + 5) = 128
      BY <2>3, Powers
    <3> QED
      BY <3>1, <3>2 DEF Low, Room
  <2> QED
    BY <2>1, <2>2, <2>3
<1>3. Low(x, n) \in Nat /\ Room(w, n) \in Nat
  <2>1. n \in 0 .. 7
    OBVIOUS
  <2> QED
    BY <2>1, BitsAre
<1>4. Held(w, n + 5, y) = 32 * Held(w, n, x) + v /\ Held(w, n, x) \in Nat
  BY <1>2, <1>3 DEF Held
<1> QED
  BY <1>4 DEF More, y

\* Five more, and the first eight of them leave.
LEMMA EightLeave ==
  ASSUME NEW x \in Nat, NEW v \in Nat, v < 32, NEW w \in Nat, NEW n \in 3 .. 7
  PROVE  \A m \in 0 .. 4, h \in Nat : m = n - 3 /\ h = Held(w, n, x) =>
           LET y == Shifted(x, 5, v)
               byte == Middle(y, m, 8)
           IN  byte \in Nat /\ byte < 256 /\ Held(More(w, 256, byte), m, y) = More(h, 32, v)
<1> DEFINE y == Shifted(x, 5, v)
           byte == Middle(y, n - 3, 8)
<1>1. y = (x * 32 + v) % 65536 /\ y \in Nat
  BY ShiftedIs
<1> HIDE DEF y
<1>2. /\ byte \in Nat /\ byte < 256
      /\ 32 * Low(x, n) + v = Room(byte, n - 3) + Low(y, n - 3)
      /\ Room(w * 256 + byte, n - 3) = 32 * Room(w, n) + Room(byte, n - 3)
      /\ Room(byte, n - 3) \in Nat /\ Low(y, n - 3) \in Nat
  <2>1. CASE n = 3
    <3>1. 2 ^ n = 8 /\ 2 ^ (n - 3) = 1
      BY <2>1, Powers
    <3>2. byte = (y \div 1) % 256
      BY <2>1, Powers DEF Middle
    <3>3. 32 * (x % 8) + v = ((y \div 1) % 256) * 1 + (y % 1)
      BY <1>1
    <3>4. byte \in Nat /\ byte < 256
      BY <1>1, <3>2
    <3>5. 32 * Low(x, n) + v = Room(byte, n - 3) + Low(y, n - 3)
      BY <3>1, <3>2, <3>3 DEF Low, Room
    <3> HIDE DEF byte
    <3>6. /\ Room(w * 256 + byte, n - 3) = 32 * Room(w, n) + Room(byte, n - 3)
          /\ Room(byte, n - 3) \in Nat
      BY <3>1, <3>4 DEF Room
    <3>7. Low(y, n - 3) \in Nat
      BY <1>1, <3>1 DEF Low
    <3> QED
      BY <3>4, <3>5, <3>6, <3>7
  <2>2. CASE n = 4
    <3>1. 2 ^ n = 16 /\ 2 ^ (n - 3) = 2
      BY <2>2, Powers
    <3>2. byte = (y \div 2) % 256
      BY <2>2, Powers DEF Middle
    <3>3. 32 * (x % 16) + v = ((y \div 2) % 256) * 2 + (y % 2)
      BY <1>1
    <3>4. byte \in Nat /\ byte < 256
      BY <1>1, <3>2
    <3>5. 32 * Low(x, n) + v = Room(byte, n - 3) + Low(y, n - 3)
      BY <3>1, <3>2, <3>3 DEF Low, Room
    <3> HIDE DEF byte
    <3>6. /\ Room(w * 256 + byte, n - 3) = 32 * Room(w, n) + Room(byte, n - 3)
          /\ Room(byte, n - 3) \in Nat
      BY <3>1, <3>4 DEF Room
    <3>7. Low(y, n - 3) \in Nat
      BY <1>1, <3>1 DEF Low
    <3> QED
      BY <3>4, <3>5, <3>6, <3>7
  <2>3. CASE n = 5
    <3>1. 2 ^ n = 32 /\ 2 ^ (n - 3) = 4
      BY <2>3, Powers
    <3>2. byte = (y \div 4) % 256
      BY <2>3, Powers DEF Middle
    <3>3. 32 * (x % 32) + v = ((y \div 4) % 256) * 4 + (y % 4)
      BY <1>1
    <3>4. byte \in Nat /\ byte < 256
      BY <1>1, <3>2
    <3>5. 32 * Low(x, n) + v = Room(byte, n - 3) + Low(y, n - 3)
      BY <3>1, <3>2, <3>3 DEF Low, Room
    <3> HIDE DEF byte
    <3>6. /\ Room(w * 256 + byte, n - 3) = 32 * Room(w, n) + Room(byte, n - 3)
          /\ Room(byte, n - 3) \in Nat
      BY <3>1, <3>4 DEF Room
    <3>7. Low(y, n - 3) \in Nat
      BY <1>1, <3>1 DEF Low
    <3> QED
      BY <3>4, <3>5, <3>6, <3>7
  <2>4. CASE n = 6
    <3>1. 2 ^ n = 64 /\ 2 ^ (n - 3) = 8
      BY <2>4, Powers
    <3>2. byte = (y \div 8) % 256
      BY <2>4, Powers DEF Middle
    <3>3. 32 * (x % 64) + v = ((y \div 8) % 256) * 8 + (y % 8)
      BY <1>1
    <3>4. byte \in Nat /\ byte < 256
      BY <1>1, <3>2
    <3>5. 32 * Low(x, n) + v = Room(byte, n - 3) + Low(y, n - 3)
      BY <3>1, <3>2, <3>3 DEF Low, Room
    <3> HIDE DEF byte
    <3>6. /\ Room(w * 256 + byte, n - 3) = 32 * Room(w, n) + Room(byte, n - 3)
          /\ Room(byte, n - 3) \in Nat
      BY <3>1, <3>4 DEF Room
    <3>7. Low(y, n - 3) \in Nat
      BY <1>1, <3>1 DEF Low
    <3> QED
      BY <3>4, <3>5, <3>6, <3>7
  <2>5. CASE n = 7
    <3>1. 2 ^ n = 128 /\ 2 ^ (n - 3) = 16
      BY <2>5, Powers
    <3>2. byte = (y \div 16) % 256
      BY <2>5, Powers DEF Middle
    <3>3. 32 * (x % 128) + v = ((y \div 16) % 256) * 16 + (y % 16)
      BY <1>1
    <3>4. byte \in Nat /\ byte < 256
      BY <1>1, <3>2
    <3>5. 32 * Low(x, n) + v = Room(byte, n - 3) + Low(y, n - 3)
      BY <3>1, <3>2, <3>3 DEF Low, Room
    <3> HIDE DEF byte
    <3>6. /\ Room(w * 256 + byte, n - 3) = 32 * Room(w, n) + Room(byte, n - 3)
          /\ Room(byte, n - 3) \in Nat
      BY <3>1, <3>4 DEF Room
    <3>7. Low(y, n - 3) \in Nat
      BY <1>1, <3>1 DEF Low
    <3> QED
      BY <3>4, <3>5, <3>6, <3>7
  <2> QED
    BY <2>1, <2>2, <2>3, <2>4, <2>5
<1>3. Low(x, n) \in Nat /\ Room(w, n) \in Nat
  <2>1. n \in 0 .. 7
    OBVIOUS
  <2> QED
    BY <2>1, BitsAre
<1> HIDE DEF byte
<1>4. Held(w * 256 + byte, n - 3, y) = 32 * Held(w, n, x) + v /\ Held(w, n, x) \in Nat
  BY <1>2, <1>3 DEF Held
<1> QED
  BY <1>2, <1>4 DEF More, y, byte

\* Eight bits more, and one symbol leaves.
LEMMA OneLeaves ==
  ASSUME NEW x \in Nat, NEW v \in Nat, v < 256, NEW w \in Nat, NEW n \in 0 .. 1
  PROVE  \A m \in 3 .. 4, h \in Nat : m = n + 3 /\ h = Held(w, n, x) =>
           LET y == Shifted(x, 8, v)
               d == Middle(y, m, 5)
           IN  d \in Nat /\ d < 32 /\ Held(More(w, 32, d), m, y) = More(h, 256, v)
<1> DEFINE y == Shifted(x, 8, v)
           d == Middle(y, n + 3, 5)
<1>1. y = (x * 256 + v) % 65536 /\ y \in Nat
  BY ShiftedIs
<1> HIDE DEF y
<1>2. /\ d \in Nat /\ d < 32
      /\ 256 * Low(x, n) + v = Room(d, n + 3) + Low(y, n + 3)
      /\ Room(w * 32 + d, n + 3) = 256 * Room(w, n) + Room(d, n + 3)
      /\ Room(d, n + 3) \in Nat /\ Low(y, n + 3) \in Nat
  <2>1. CASE n = 0
    <3>1. 2 ^ n = 1 /\ 2 ^ (n + 3) = 8
      BY <2>1, Powers
    <3>2. d = (y \div 8) % 32
      BY <2>1, Powers DEF Middle
    <3>3. 256 * (x % 1) + v = ((y \div 8) % 32) * 8 + (y % 8)
      BY <1>1
    <3>4. d \in Nat /\ d < 32
      BY <1>1, <3>2
    <3>5. 256 * Low(x, n) + v = Room(d, n + 3) + Low(y, n + 3)
      BY <3>1, <3>2, <3>3 DEF Low, Room
    <3> HIDE DEF d
    <3>6. /\ Room(w * 32 + d, n + 3) = 256 * Room(w, n) + Room(d, n + 3)
          /\ Room(d, n + 3) \in Nat
      BY <3>1, <3>4 DEF Room
    <3>7. Low(y, n + 3) \in Nat
      BY <1>1, <3>1 DEF Low
    <3> QED
      BY <3>4, <3>5, <3>6, <3>7
  <2>2. CASE n = 1
    <3>1. 2 ^ n = 2 /\ 2 ^ (n + 3) = 16
      BY <2>2, Powers
    <3>2. d = (y \div 16) % 32
      BY <2>2, Powers DEF Middle
    <3>3. 256 * (x % 2) + v = ((y \div 16) % 32) * 16 + (y % 16)
      BY <1>1
    <3>4. d \in Nat /\ d < 32
      BY <1>1, <3>2
    <3>5. 256 * Low(x, n) + v = Room(d, n + 3) + Low(y, n + 3)
      BY <3>1, <3>2, <3>3 DEF Low, Room
    <3> HIDE DEF d
    <3>6. /\ Room(w * 32 + d, n + 3) = 256 * Room(w, n) + Room(d, n + 3)
          /\ Room(d, n + 3) \in Nat
      BY <3>1, <3>4 DEF Room
    <3>7. Low(y, n + 3) \in Nat
      BY <1>1, <3>1 DEF Low
    <3> QED
      BY <3>4, <3>5, <3>6, <3>7
  <2> QED
    BY <2>1, <2>2
<1>3. Low(x, n) \in Nat /\ Room(w, n) \in Nat
  <2>1. n \in 0 .. 7
    OBVIOUS
  <2> QED
    BY <2>1, BitsAre
<1> HIDE DEF d
<1>4. Held(w * 32 + d, n + 3, y) = 256 * Held(w, n, x) + v /\ Held(w, n, x) \in Nat
  BY <1>2, <1>3 DEF Held
<1> QED
  BY <1>2, <1>4 DEF More, y, d

\* Eight bits more, and two symbols leave.
LEMMA TwoLeave ==
  ASSUME NEW x \in Nat, NEW v \in Nat, v < 256, NEW w \in Nat, NEW n \in 2 .. 4
  PROVE  \A k \in 5 .. 7, m \in 0 .. 2, h \in Nat :
           k = n + 3 /\ m = n - 2 /\ h = Held(w, n, x) =>
             LET y == Shifted(x, 8, v)
                 d == Middle(y, k, 5)
                 e == Middle(y, m, 5)
             IN  /\ d \in Nat /\ d < 32 /\ e \in Nat /\ e < 32
                 /\ Held(More(More(w, 32, d), 32, e), m, y) = More(h, 256, v)
<1> DEFINE y == Shifted(x, 8, v)
           d == Middle(y, n + 3, 5)
           e == Middle(y, n - 2, 5)
<1>1. y = (x * 256 + v) % 65536 /\ y \in Nat
  BY ShiftedIs
<1> HIDE DEF y
<1>2. /\ d \in Nat /\ d < 32 /\ e \in Nat /\ e < 32
      /\ 256 * Low(x, n) + v = Room(32 * d + e, n - 2) + Low(y, n - 2)
      /\ Room((w * 32 + d) * 32 + e, n - 2) = 256 * Room(w, n) + Room(32 * d + e, n - 2)
      /\ Room(32 * d + e, n - 2) \in Nat /\ Low(y, n - 2) \in Nat
  <2>1. CASE n = 2
    <3>1. 2 ^ n = 4 /\ 2 ^ (n - 2) = 1
      BY <2>1, Powers
    <3>2. d = (y \div 32) % 32 /\ e = (y \div 1) % 32
      BY <2>1, Powers DEF Middle
    <3>3. 256 * (x % 4) + v
            = (32 * ((y \div 32) % 32) + ((y \div 1) % 32)) * 1 + (y % 1)
      BY <1>1
    <3>4. d \in Nat /\ d < 32 /\ e \in Nat /\ e < 32
      BY <1>1, <3>2
    <3>5. 256 * Low(x, n) + v = Room(32 * d + e, n - 2) + Low(y, n - 2)
      BY <3>1, <3>2, <3>3 DEF Low, Room
    <3> HIDE DEF d, e
    <3>6. /\ Room((w * 32 + d) * 32 + e, n - 2) = 256 * Room(w, n) + Room(32 * d + e, n - 2)
          /\ Room(32 * d + e, n - 2) \in Nat
      BY <3>1, <3>4 DEF Room
    <3>7. Low(y, n - 2) \in Nat
      BY <1>1, <3>1 DEF Low
    <3> QED
      BY <3>4, <3>5, <3>6, <3>7
  <2>2. CASE n = 3
    <3>1. 2 ^ n = 8 /\ 2 ^ (n - 2) = 2
      BY <2>2, Powers
    <3>2. d = (y \div 64) % 32 /\ e = (y \div 2) % 32
      BY <2>2, Powers DEF Middle
    <3>3. 256 * (x % 8) + v
            = (32 * ((y \div 64) % 32) + ((y \div 2) % 32)) * 2 + (y % 2)
      BY <1>1
    <3>4. d \in Nat /\ d < 32 /\ e \in Nat /\ e < 32
      BY <1>1, <3>2
    <3>5. 256 * Low(x, n) + v = Room(32 * d + e, n - 2) + Low(y, n - 2)
      BY <3>1, <3>2, <3>3 DEF Low, Room
    <3> HIDE DEF d, e
    <3>6. /\ Room((w * 32 + d) * 32 + e, n - 2) = 256 * Room(w, n) + Room(32 * d + e, n - 2)
          /\ Room(32 * d + e, n - 2) \in Nat
      BY <3>1, <3>4 DEF Room
    <3>7. Low(y, n - 2) \in Nat
      BY <1>1, <3>1 DEF Low
    <3> QED
      BY <3>4, <3>5, <3>6, <3>7
  <2>3. CASE n = 4
    <3>1. 2 ^ n = 16 /\ 2 ^ (n - 2) = 4
      BY <2>3, Powers
    <3>2. d = (y \div 128) % 32 /\ e = (y \div 4) % 32
      BY <2>3, Powers DEF Middle
    <3>3. 256 * (x % 16) + v
            = (32 * ((y \div 128) % 32) + ((y \div 4) % 32)) * 4 + (y % 4)
      BY <1>1
    <3>4. d \in Nat /\ d < 32 /\ e \in Nat /\ e < 32
      BY <1>1, <3>2
    <3>5. 256 * Low(x, n) + v = Room(32 * d + e, n - 2) + Low(y, n - 2)
      BY <3>1, <3>2, <3>3 DEF Low, Room
    <3> HIDE DEF d, e
    <3>6. /\ Room((w * 32 + d) * 32 + e, n - 2) = 256 * Room(w, n) + Room(32 * d + e, n - 2)
          /\ Room(32 * d + e, n - 2) \in Nat
      BY <3>1, <3>4 DEF Room
    <3>7. Low(y, n - 2) \in Nat
      BY <1>1, <3>1 DEF Low
    <3> QED
      BY <3>4, <3>5, <3>6, <3>7
  <2> QED
    BY <2>1, <2>2, <2>3
<1>3. Low(x, n) \in Nat /\ Room(w, n) \in Nat
  <2>1. n \in 0 .. 7
    OBVIOUS
  <2> QED
    BY <2>1, BitsAre
<1> HIDE DEF d, e
<1>4. Held((w * 32 + d) * 32 + e, n - 2, y) = 256 * Held(w, n, x) + v /\ Held(w, n, x) \in Nat
  BY <1>2, <1>3 DEF Held
<1> QED
  BY <1>2, <1>4 DEF More, y, d, e

\* What holds before the first turn and is kept by each holds after each.
LEMMA LoopKeeps ==
  ASSUME NEW N \in Nat, NEW S, NEW f, f[0] \in S, \A n \in 1 .. N : f[n - 1] \in S => f[n] \in S
  PROVE  \A n \in 0 .. N : f[n] \in S
<1> DEFINE Q == {n \in Nat : f[n] \in S}
<1>1. 0 \in Q /\ \A n \in 1 .. N : n - 1 \in Q => n \in Q
  OBVIOUS
<1>2. 0 .. N \subseteq Q
  <2> HIDE DEF Q
  <2> QED
    BY <1>1, UpTo
<1> QED
  BY <1>2

(***************************************************************************)
(* Numbers, digit by digit.                                                *)
(***************************************************************************)
\* The number a sequence of digits is, after each of them.
Value(s, base) ==
  LET v[n \in 0 .. Len(s)] == IF n = 0 THEN 0 ELSE v[n - 1] * base + s[n]
  IN  v

\* The number that digits spell, by its places.
LEMMA ValueIs ==
  ASSUME NEW base \in Nat, NEW s \in Seq(Nat)
  PROVE  /\ Value(s, base)[0] = 0
         /\ \A n \in 1 .. Len(s) : Value(s, base)[n] = Value(s, base)[n - 1] * base + s[n]
         /\ \A n \in 0 .. Len(s) : Value(s, base)[n] \in Nat
<1> DEFINE N == Len(s)
           Turn(v) == [n \in 0 .. N |-> IF n = 0 THEN 0 ELSE v[n - 1] * base + s[n]]
           F == [n \in 1 .. N |-> [w \in Nat |-> w * base + s[n]]]
<1>1. N \in Nat /\ \A n \in 1 .. N, w \in Nat : w * base + s[n] \in Nat
  <2>1. \A n \in 1 .. N, w \in Nat : w * base \in Nat /\ s[n] \in Nat
    OBVIOUS
  <2> QED
    BY <2>1
<1>2. F \in [1 .. N -> [Nat -> Nat]]
  <2> HIDE DEF N
  <2> QED
    BY <1>1
<1>3. PICK f \in [0 .. N -> Nat] : f[0] = 0 /\ \A n \in 1 .. N : f[n] = F[n][f[n - 1]]
  <2> HIDE DEF F, N
  <2>1. \E f : IsLoop(f, N, Nat, 0, F)
    BY <1>1, <1>2, LoopHas
  <2> QED
    BY <2>1 DEF IsLoop
<1> HIDE DEF N
<1>4. \A n \in 1 .. N : f[n] = f[n - 1] * base + s[n]
  <2> SUFFICES ASSUME NEW n \in 1 .. N PROVE f[n] = f[n - 1] * base + s[n]
    OBVIOUS
  <2>1. f[n - 1] \in Nat
    BY <1>1
  <2> QED
    BY <1>3, <2>1
<1>5. f = Turn(f)
  BY <1>1, <1>3, <1>4
<1>6. Value(s, base) = CHOOSE v : v = Turn(v)
  BY DEF Value, N
<1> DEFINE v == Value(s, base)
<1>7. v = Turn(v)
  <2> HIDE DEF Turn
  <2> QED
    BY <1>5, <1>6
<1> HIDE DEF v
<1>8. v[0] = 0 /\ \A n \in 1 .. N : v[n] = v[n - 1] * base + s[n]
  BY <1>1, <1>7
<1>9. \A n \in 1 .. N : v[n - 1] \in Nat => v[n] \in Nat
  BY <1>1, <1>8
<1>10. \A n \in 0 .. N : v[n] \in Nat
  <2> DEFINE S == Nat
  <2>1. v[0] \in S /\ \A n \in 1 .. N : v[n - 1] \in S => v[n] \in S
    BY <1>8, <1>9
  <2> HIDE DEF S
  <2>2. \A n \in 0 .. N : v[n] \in S
    BY <1>1, <2>1, LoopKeeps
  <2> QED
    BY <2>2 DEF S
<1> QED
  BY <1>8, <1>10 DEF v, N

\* Two sequences that agree on the first n digits are the same number there.
LEMMA ValueOfPrefix ==
  ASSUME NEW base \in Nat, NEW s \in Seq(Nat), NEW t \in Seq(Nat), NEW n \in Nat,
         n <= Len(s), n <= Len(t), \A i \in 1 .. n : s[i] = t[i]
  PROVE  Value(s, base)[n] = Value(t, base)[n]
<1> DEFINE v == Value(s, base)
           w == Value(t, base)
           Q == {k \in 0 .. n : v[k] = w[k]}
<1>1. /\ v[0] = 0 /\ \A k \in 1 .. n : v[k] = v[k - 1] * base + s[k]
      /\ w[0] = 0 /\ \A k \in 1 .. n : w[k] = w[k - 1] * base + t[k]
  BY ValueIs
<1> HIDE DEF v, w
<1>2. 0 \in Q /\ \A k \in 1 .. n : k - 1 \in Q => k \in Q
  BY <1>1
<1>3. 0 .. n \subseteq Q
  <2> HIDE DEF Q
  <2> QED
    BY <1>2, UpTo
<1> QED
  BY <1>3 DEF v, w

\* One more digit: the number times the base, and the digit.
LEMMA ValueOfAppend ==
  ASSUME NEW base \in Nat, NEW s \in Seq(Nat), NEW d \in Nat
  PROVE  Value(Append(s, d), base)[Len(s) + 1] = Value(s, base)[Len(s)] * base + d
<1> DEFINE t == Append(s, d)
           n == Len(s)
<1>1. t \in Seq(Nat) /\ Len(t) = n + 1 /\ t[n + 1] = d /\ n \in Nat
      /\ \A i \in 1 .. n : s[i] = t[i]
  OBVIOUS
<1> HIDE DEF t
<1>2. Value(t, base)[n + 1] = Value(t, base)[n] * base + t[n + 1]
  <2>1. n + 1 \in 1 .. Len(t) /\ (n + 1) - 1 = n
    BY <1>1
  <2>2. Value(t, base)[n + 1] = Value(t, base)[(n + 1) - 1] * base + t[n + 1]
    BY <1>1, <2>1, ValueIs, Zenon
  <2> QED
    BY <2>1, <2>2
<1>3. Value(s, base)[n] = Value(t, base)[n]
  <2>1. n <= Len(s) /\ n <= Len(t)
    BY <1>1
  <2> HIDE DEF n
  <2> QED
    BY <1>1, <2>1, ValueOfPrefix
<1> QED
  BY <1>1, <1>2, <1>3 DEF t

\* Digits of a base.
Digits(base) == {s \in Seq(Nat) : \A i \in 1 .. Len(s) : s[i] < base}

\* A digit after digits.
LEMMA DigitsAppend ==
  ASSUME NEW base, NEW s \in Digits(base), NEW d \in Nat, d < base
  PROVE  Append(s, d) \in Digits(base)
<1>1. /\ s \in Seq(Nat) /\ Len(s) \in Nat /\ \A i \in 1 .. Len(s) : s[i] < base
  BY DEF Digits
<1> DEFINE t == Append(s, d)
<1>2. t \in Seq(Nat) /\ Len(t) = Len(s) + 1
  BY <1>1
<1>3. ASSUME NEW i \in 1 .. Len(t) PROVE t[i] < base
  <2>1. CASE i = Len(t)
    BY <1>1, <1>2, <2>1
  <2>2. CASE i # Len(t)
    <3>1. i \in 1 .. Len(s) /\ t[i] = s[i]
      BY <1>1, <1>2, <2>2
    <3> QED
      BY <1>1, <3>1
  <2> QED
    BY <2>1, <2>2
<1> QED
  BY <1>2, <1>3 DEF Digits

\* Two numbers are equal only if their last bytes are.
LEMMA LastByte ==
  ASSUME NEW x \in Nat, NEW y \in Nat, NEW b \in Nat, NEW c \in Nat, b < 256, c < 256,
         More(x, 256, b) = More(y, 256, c)
  PROVE  x = y /\ b = c
BY DEF More

\* Bytes have one spelling as a number.
LEMMA BytesAreOne ==
  ASSUME NEW s \in Digits(256), NEW t \in Digits(256), Len(s) = Len(t),
         Value(s, 256)[Len(s)] = Value(t, 256)[Len(t)]
  PROVE  s = t
<1> DEFINE v == Value(s, 256)
           w == Value(t, 256)
           n == Len(s)
           Q == {k \in 0 .. n : v[k] = w[k] => \A i \in 1 .. k : s[i] = t[i]}
<1>1. /\ s \in Seq(Nat) /\ t \in Seq(Nat) /\ n \in Nat
      /\ \A k \in 1 .. n : s[k] \in Nat /\ s[k] < 256 /\ t[k] \in Nat /\ t[k] < 256
  BY DEF Digits
<1>2. /\ \A k \in 1 .. n : v[k] = v[k - 1] * 256 + s[k] /\ w[k] = w[k - 1] * 256 + t[k]
      /\ \A k \in 0 .. n : v[k] \in Nat /\ w[k] \in Nat
  BY <1>1, ValueIs
<1>3. v[n] = w[n]
  OBVIOUS
<1> HIDE DEF v, w, n
<1>4. ASSUME NEW k \in 1 .. n, k - 1 \in Q PROVE k \in Q
  <2> SUFFICES ASSUME v[k] = w[k] PROVE \A i \in 1 .. k : s[i] = t[i]
    BY <1>1
  <2>1. v[k - 1] \in Nat /\ w[k - 1] \in Nat
    BY <1>1, <1>2
  <2>2. v[k - 1] * 256 + s[k] = w[k - 1] * 256 + t[k]
    BY <1>2
  <2>3. v[k - 1] = w[k - 1] /\ s[k] = t[k]
    <3>1. PICK x \in Nat, y \in Nat : x = v[k - 1] /\ y = w[k - 1]
      BY <2>1
    <3>2. PICK b \in Nat, c \in Nat : b = s[k] /\ c = t[k] /\ b < 256 /\ c < 256
      <4>1. s[k] \in Nat /\ s[k] < 256 /\ t[k] \in Nat /\ t[k] < 256
        BY <1>1
      <4> QED
        BY <4>1
    <3>3. More(x, 256, b) = More(y, 256, c)
      BY <2>2, <3>1, <3>2 DEF More
    <3>4. x = y /\ b = c
      BY <3>2, <3>3, LastByte
    <3> QED
      BY <3>1, <3>2, <3>4
  <2>4. \A i \in 1 .. k - 1 : s[i] = t[i]
    BY <1>4, <2>3
  <2> QED
    BY <1>1, <2>3, <2>4
<1>5. 0 \in Q
  BY <1>1
<1>6. 0 .. n \subseteq Q
  <2> HIDE DEF Q
  <2> QED
    BY <1>1, <1>4, <1>5, UpTo
<1>7. \A i \in 1 .. n : s[i] = t[i]
  BY <1>1, <1>3, <1>6
<1> QED
  BY <1>1, <1>7 DEF n


(***************************************************************************)
(* Base 32 there and back.  The number in what left the accumulator and in *)
(* what has not is the number of what was taken in, after every turn.      *)
(***************************************************************************)
\* An accumulator by its parts.
Acc(x, n, o) == [buffer |-> x, bits |-> n, out |-> o]

\* What TakeIn does to the three parts of an accumulator.
LEMMA FeedIs ==
  ASSUME NEW x, NEW n, NEW o, NEW width, NEW v
  PROVE  TakeIn(Acc(x, n, o), width, v) = Acc(Shifted(x, width, v), n + width, o)
<1> DEFINE a == Acc(x, n, o)
<1>1. a.buffer = x /\ a.bits = n /\ a.out = o /\ a = [buffer |-> x, bits |-> n, out |-> o]
  BY DEF Acc
<1> HIDE DEF a
<1>2. TakeIn(a, width, v) = [a EXCEPT !.buffer = Shifted(x, width, v), !.bits = n + width]
  BY <1>1 DEF TakeIn
<1> QED
  BY <1>1, <1>2 DEF a, Acc

\* What Emit does to them: nothing, or the upper bits leave.
LEMMA EmitIs ==
  ASSUME NEW y, NEW n \in Nat, NEW o, NEW width \in Nat
  PROVE  /\ n < width => Emit(Acc(y, n, o), width) = Acc(y, n, o)
         /\ \A m \in Nat : n = m + width =>
              Emit(Acc(y, n, o), width) = Acc(y, m, Append(o, Middle(y, m, width)))
<1> DEFINE a == Acc(y, n, o)
<1>1. a.buffer = y /\ a.bits = n /\ a.out = o /\ a = [buffer |-> y, bits |-> n, out |-> o]
  BY DEF Acc
<1> HIDE DEF a
<1>2. n < width => Emit(a, width) = a
  BY <1>1 DEF Emit
<1>3. ASSUME NEW m \in Nat, n = m + width
      PROVE  Emit(a, width) = Acc(y, m, Append(o, Middle(y, m, width)))
  <2>1. ~(a.bits < width) /\ a.bits - width = m
    BY <1>1, <1>3
  <2>2. Emit(a, width) = [a EXCEPT !.bits = m, !.out = Append(o, Middle(y, m, width))]
    BY <1>1, <2>1 DEF Emit, Middle
  <2> HIDE DEF a
  <2> QED
    BY <1>1, <2>2 DEF Acc
<1> QED
  BY <1>2, <1>3 DEF a

Accumulators(bits, base) == [buffer : Nat, bits : 0 .. bits, out : Digits(base)]

\* An accumulator is its three parts.
LEMMA AccumulatorIs ==
  ASSUME NEW bits, NEW base, NEW a \in Accumulators(bits, base)
  PROVE  \E x \in Nat, n \in 0 .. bits, o \in Digits(base) : a = Acc(x, n, o)
BY DEF Accumulators, Acc

\* The bits that were taken in.
Taken(acc, width) == width * Len(acc.out) + acc.bits

\* The number in the symbols that left and the bits that have not.
Total(acc, base) == Held(Value(acc.out, base)[Len(acc.out)], acc.bits, acc.buffer)

\* The number that an accumulator has read: what is out, then what is held.
LEMMA TotalIs ==
  ASSUME NEW x, NEW n, NEW o, NEW base
  PROVE  /\ Total(Acc(x, n, o), base) = Held(Value(o, base)[Len(o)], n, x)
         /\ Acc(x, n, o).bits = n /\ Acc(x, n, o).out = o /\ Acc(x, n, o).buffer = x
BY DEF Total, Acc

\* The parts by their names.
LEMMA AccParts ==
  ASSUME NEW x, NEW n, NEW o
  PROVE  Acc(x, n, o).bits = n /\ Acc(x, n, o).out = o /\ Acc(x, n, o).buffer = x
BY DEF Acc

\* Any such parts are an accumulator.
LEMMA AccIn ==
  ASSUME NEW bits, NEW base, NEW x \in Nat, NEW n \in 0 .. bits, NEW o \in Digits(base)
  PROVE  Acc(x, n, o) \in Accumulators(bits, base)
BY DEF Acc, Accumulators

\* What digits spell is a number.
LEMMA NumberIn ==
  ASSUME NEW base \in Nat, NEW o \in Digits(base)
  PROVE  Len(o) \in Nat /\ Value(o, base)[Len(o)] \in Nat
<1>1. o \in Seq(Nat) /\ Len(o) \in Nat
  BY DEF Digits
<1> QED
  BY <1>1, ValueIs

\* The same with a digit more.
LEMMA NumberWith ==
  ASSUME NEW base \in Nat, NEW o \in Digits(base), NEW d \in Nat, d < base
  PROVE  /\ Append(o, d) \in Digits(base) /\ Len(Append(o, d)) = Len(o) + 1
         /\ Value(Append(o, d), base)[Len(Append(o, d))] = More(Value(o, base)[Len(o)], base, d)
<1>1. o \in Seq(Nat) /\ Len(o) \in Nat
  BY DEF Digits
<1>2. Append(o, d) \in Digits(base) /\ Len(Append(o, d)) = Len(o) + 1
  BY <1>1, DigitsAppend
<1> QED
  BY <1>1, <1>2, ValueOfAppend DEF More

\* Decode32 takes a symbol in: the number so far is 32 times what it was and the
\* symbol, and no bit is lost.
LEMMA DecodeTurn ==
  ASSUME NEW a \in Accumulators(7, 256), NEW v \in Nat, v < 32
  PROVE  LET b == Emit(TakeIn(a, 5, v), 8)
         IN  /\ b \in Accumulators(7, 256)
             /\ \A k \in Nat : Taken(a, 8) = k => Taken(b, 8) = k + 5
             /\ Total(b, 256) = More(Total(a, 256), 32, v)
<1>1. PICK x \in Nat, n \in 0 .. 7, o \in Digits(256) : a = Acc(x, n, o)
  BY AccumulatorIs
<1>2. PICK w \in Nat : w = Value(o, 256)[Len(o)]
  BY NumberIn
<1>3. PICK h \in Nat : h = Held(w, n, x)
  BY BitsAre
<1>4. PICK y \in Nat : y = Shifted(x, 5, v)
  BY ShiftedIn
<1>5. PICK size \in Nat : size = Len(o)
  BY NumberIn
<1>6. Total(a, 256) = h /\ a.bits = n /\ Len(a.out) = size
  BY <1>1, <1>2, <1>3, <1>5, TotalIs
<1>7. TakeIn(a, 5, v) = Acc(y, n + 5, o)
  BY <1>1, <1>4, FeedIs
<1>8. CASE n \in 0 .. 2
  <2>1. PICK m \in 5 .. 7 : m = n + 5
    BY <1>8
  <2>2. Emit(Acc(y, m, o), 8) = Acc(y, m, o)
    <3>1. m \in Nat /\ m < 8
      OBVIOUS
    <3> QED
      BY <3>1, EmitIs
  <2>3. Held(w, m, y) = More(h, 32, v)
    BY <1>3, <1>4, <1>8, <2>1, FiveMore
  <2>4. Total(Acc(y, m, o), 256) = More(h, 32, v) /\ Acc(y, m, o).bits = m /\ Acc(y, m, o).out = o
    BY <1>2, <2>3, TotalIs
  <2>5. Acc(y, m, o) \in Accumulators(7, 256)
    <3>1. m \in 0 .. 7
      OBVIOUS
    <3> QED
      BY <3>1, AccIn
  <2>6. 8 * size + m = (8 * size + n) + 5
    BY <2>1
  <2>7. Taken(a, 8) = 8 * size + n /\ Taken(Acc(y, m, o), 8) = 8 * size + m
    BY <1>5, <1>6, <2>4 DEF Taken
  <2> QED
    BY <1>6, <1>7, <2>1, <2>2, <2>4, <2>5, <2>6, <2>7
<1>9. CASE n \in 3 .. 7
  <2>1. PICK m \in 0 .. 4 : m = n - 3
    BY <1>9
  <2>2. PICK byte \in Nat : byte = Middle(y, m, 8) /\ byte < 256
                            /\ Held(More(w, 256, byte), m, y) = More(h, 32, v)
    <3>1. /\ Middle(y, m, 8) \in Nat /\ Middle(y, m, 8) < 256
          /\ Held(More(w, 256, Middle(y, m, 8)), m, y) = More(h, 32, v)
      BY <1>3, <1>4, <1>9, <2>1, EightLeave
    <3> QED
      BY <3>1
  <2>3. PICK out : out = Append(o, byte)
    OBVIOUS
  <2>4. /\ out \in Digits(256) /\ Len(out) = size + 1
        /\ Value(out, 256)[Len(out)] = More(w, 256, byte)
    BY <1>2, <1>5, <2>2, <2>3, NumberWith
  <2>5. Emit(Acc(y, n + 5, o), 8) = Acc(y, m, out)
    <3>1. n + 5 \in Nat /\ n + 5 = m + 8 /\ m \in Nat
      BY <2>1
    <3> QED
      BY <2>2, <2>3, <3>1, EmitIs
  <2>6. Total(Acc(y, m, out), 256) = More(h, 32, v) /\ Acc(y, m, out).bits = m
        /\ Acc(y, m, out).out = out
    BY <2>2, <2>4, TotalIs
  <2>7. Acc(y, m, out) \in Accumulators(7, 256)
    <3>1. m \in 0 .. 7
      OBVIOUS
    <3> QED
      BY <2>4, <3>1, AccIn
  <2>8. 8 * (size + 1) + m = (8 * size + n) + 5
    BY <2>1
  <2>9. Taken(a, 8) = 8 * size + n /\ Taken(Acc(y, m, out), 8) = 8 * (size + 1) + m
    BY <1>6, <2>4, <2>6 DEF Taken
  <2> QED
    BY <1>6, <1>7, <2>5, <2>6, <2>7, <2>8, <2>9
<1> QED
  BY <1>8, <1>9

\* EncodeBase32 takes a byte in.
LEMMA EncodeTurn ==
  ASSUME NEW a \in Accumulators(4, 32), NEW v \in Nat, v < 256
  PROVE  LET b == Emit(Emit(TakeIn(a, 8, v), 5), 5)
         IN  /\ b \in Accumulators(4, 32)
             /\ \A k \in Nat : Taken(a, 5) = k => Taken(b, 5) = k + 8
             /\ Total(b, 32) = More(Total(a, 32), 256, v)
<1>1. PICK x \in Nat, n \in 0 .. 4, o \in Digits(32) : a = Acc(x, n, o)
  BY AccumulatorIs
<1>2. PICK w \in Nat : w = Value(o, 32)[Len(o)]
  BY NumberIn
<1>3. PICK h \in Nat : h = Held(w, n, x)
  <2>1. n \in 0 .. 7
    OBVIOUS
  <2> QED
    BY <2>1, BitsAre
<1>4. PICK y \in Nat : y = Shifted(x, 8, v)
  BY ShiftedIn
<1>5. PICK size \in Nat : size = Len(o)
  BY NumberIn
<1>6. Total(a, 32) = h /\ a.bits = n /\ Len(a.out) = size
  BY <1>1, <1>2, <1>3, <1>5, TotalIs
<1>7. TakeIn(a, 8, v) = Acc(y, n + 8, o)
  BY <1>1, <1>4, FeedIs
<1>8. PICK k \in 3 .. 7 : k = n + 3
  OBVIOUS
<1>9. Emit(Acc(y, n + 8, o), 5) = Acc(y, k, Append(o, Middle(y, k, 5)))
  <2>1. n + 8 \in Nat /\ n + 8 = k + 5 /\ k \in Nat
    BY <1>8
  <2> QED
    BY <2>1, EmitIs
<1>10. CASE n \in 0 .. 1
  <2>1. PICK d \in Nat : d = Middle(y, k, 5) /\ d < 32 /\ Held(More(w, 32, d), k, y) = More(h, 256, v)
    <3>1. k \in 3 .. 4
      BY <1>8, <1>10
    <3> QED
      BY <1>3, <1>4, <1>8, <1>10, <3>1, OneLeaves
  <2>2. PICK out : out = Append(o, d)
    OBVIOUS
  <2>3. /\ out \in Digits(32) /\ Len(out) = size + 1
        /\ Value(out, 32)[Len(out)] = More(w, 32, d)
    BY <1>2, <1>5, <2>1, <2>2, NumberWith
  <2>4. Emit(Acc(y, k, out), 5) = Acc(y, k, out)
    <3>1. k \in Nat /\ k < 5
      BY <1>8, <1>10
    <3> QED
      BY <3>1, EmitIs
  <2>5. Total(Acc(y, k, out), 32) = More(h, 256, v) /\ Acc(y, k, out).bits = k
        /\ Acc(y, k, out).out = out
    BY <2>1, <2>3, TotalIs
  <2>6. Acc(y, k, out) \in Accumulators(4, 32)
    <3>1. k \in 0 .. 4
      BY <1>8, <1>10
    <3> QED
      BY <2>3, <3>1, AccIn
  <2>7. 5 * (size + 1) + k = (5 * size + n) + 8
    BY <1>8
  <2>8. Taken(a, 5) = 5 * size + n /\ Taken(Acc(y, k, out), 5) = 5 * (size + 1) + k
    BY <1>6, <2>3, <2>5 DEF Taken
  <2> QED
    BY <1>6, <1>7, <1>9, <2>1, <2>2, <2>4, <2>5, <2>6, <2>7, <2>8
<1>11. CASE n \in 2 .. 4
  <2>1. PICK m \in 0 .. 2 : m = n - 2
    BY <1>11
  <2>2. PICK d \in Nat, e \in Nat :
          /\ d = Middle(y, k, 5) /\ d < 32 /\ e = Middle(y, m, 5) /\ e < 32
          /\ Held(More(More(w, 32, d), 32, e), m, y) = More(h, 256, v)
    <3>1. k \in 5 .. 7
      BY <1>8, <1>11
    <3> QED
      <4>1. /\ Middle(y, k, 5) \in Nat /\ Middle(y, k, 5) < 32
            /\ Middle(y, m, 5) \in Nat /\ Middle(y, m, 5) < 32
            /\ Held(More(More(w, 32, Middle(y, k, 5)), 32, Middle(y, m, 5)), m, y) = More(h, 256, v)
        BY <1>3, <1>4, <1>8, <1>11, <2>1, <3>1, TwoLeave
      <4> QED
        BY <4>1
  <2>3. PICK mid : mid = Append(o, d)
    OBVIOUS
  <2>4. PICK out : out = Append(mid, e)
    OBVIOUS
  <2>5. /\ mid \in Digits(32) /\ Len(mid) = size + 1
        /\ Value(mid, 32)[Len(mid)] = More(w, 32, d)
    BY <1>2, <1>5, <2>2, <2>3, NumberWith
  <2>6. /\ out \in Digits(32) /\ Len(out) = Len(mid) + 1
        /\ Value(out, 32)[Len(out)] = More(Value(mid, 32)[Len(mid)], 32, e)
    <3>1. e \in Nat /\ e < 32 /\ mid \in Digits(32)
      BY <2>2, <2>5
    <3>2. 32 \in Nat
      OBVIOUS
    <3>3. /\ Append(mid, e) \in Digits(32) /\ Len(Append(mid, e)) = Len(mid) + 1
          /\ Value(Append(mid, e), 32)[Len(Append(mid, e))]
               = More(Value(mid, 32)[Len(mid)], 32, e)
      BY <3>1, <3>2, NumberWith, Zenon
    <3> QED
      BY <2>4, <3>3
  <2>7. Emit(Acc(y, k, mid), 5) = Acc(y, m, out)
    <3>1. k \in Nat /\ k = m + 5 /\ m \in Nat
      BY <1>8, <2>1
    <3> QED
      <4>1. e = Middle(y, m, 5)
        BY <2>2
      <4> QED
        BY <2>4, <3>1, <4>1, EmitIs
  <2>8. Total(Acc(y, m, out), 32) = More(h, 256, v) /\ Acc(y, m, out).bits = m
        /\ Acc(y, m, out).out = out
    <3>1. Value(out, 32)[Len(out)] = More(More(w, 32, d), 32, e)
      BY <2>5, <2>6
    <3>2. Held(More(More(w, 32, d), 32, e), m, y) = More(h, 256, v)
      BY <2>2
    <3> QED
      BY <3>1, <3>2, TotalIs
  <2>9. Acc(y, m, out) \in Accumulators(4, 32)
    <3>1. m \in 0 .. 4
      OBVIOUS
    <3> QED
      BY <2>6, <3>1, AccIn
  <2>10. Len(out) = size + 2 /\ 5 * (size + 2) + m = (5 * size + n) + 8
    BY <2>1, <2>5, <2>6
  <2>11. Taken(a, 5) = 5 * size + n /\ Taken(Acc(y, m, out), 5) = 5 * (size + 2) + m
    BY <1>6, <2>8, <2>10 DEF Taken
  <2> QED
    BY <1>6, <1>7, <1>9, <2>2, <2>3, <2>7, <2>8, <2>9, <2>10, <2>11
<1> QED
  BY <1>10, <1>11

\* Before the first turn nothing was read.
LEMMA EmptyIs ==
  ASSUME NEW base PROVE Total(Empty, base) = 0
<1>1. Empty = Acc(0, 0, << >>)
  BY DEF Empty, Acc
<1>2. Value(<< >>, base)[0] = 0
  <2> DEFINE Turn(v) == [n \in 0 .. 0 |-> IF n = 0 THEN 0 ELSE v[n - 1] * base + << >>[n]]
  <2>1. \A v : Turn(v) = [n \in 0 .. 0 |-> 0]
    OBVIOUS
  <2>2. Value(<< >>, base) = CHOOSE v : v = Turn(v)
    BY DEF Value
  <2> HIDE DEF Turn
  <2>3. Value(<< >>, base) = [n \in 0 .. 0 |-> 0]
    BY <2>1, <2>2
  <2> QED
    BY <2>3
<1>3. Total(Empty, base) = Held(0, 0, 0)
  <2>1. Len(<< >>) = 0
    OBVIOUS
  <2> QED
    BY <1>1, <1>2, <2>1, TotalIs
<1>4. Held(0, 0, 0) = 0
  BY Powers DEF Held, Room, Low
<1> QED
  BY <1>3, <1>4

\* Both loops start with an accumulator.
LEMMA EmptyIn ==
  Empty \in Accumulators(7, 256) /\ Empty \in Accumulators(4, 32)
BY DEF Empty, Accumulators, Digits

\* The accumulators of a whole decoding.
LEMMA DecodingRuns ==
  ASSUME NEW s \in Digits(32)
  PROVE  /\ Decoding(s)[0] = Empty
         /\ \A n \in 1 .. Len(s) : Decoding(s)[n] = Emit(TakeIn(Decoding(s)[n - 1], 5, s[n]), 8)
         /\ \A n \in 0 .. Len(s) : Decoding(s)[n] \in Accumulators(7, 256)
<1> DEFINE N == Len(s)
           S == Accumulators(7, 256)
           Next1(a, n) == Emit(TakeIn(a, 5, s[n]), 8)
           Turn(v) == [n \in 0 .. N |-> IF n = 0 THEN Empty ELSE Emit(TakeIn(v[n - 1], 5, s[n]), 8)]
           F == [n \in 1 .. N |-> [a \in S |-> Next1(a, n)]]
<1>1. N \in Nat /\ \A n \in 1 .. N : s[n] \in Nat /\ s[n] < 32
  BY DEF Digits
<1>2. \A n \in 1 .. N, a \in S : Next1(a, n) \in S
  <2> HIDE DEF N
  <2> QED
    BY <1>1, DecodeTurn
<1>3. Empty \in S
  BY EmptyIn
<1> HIDE DEF N, S, Next1
<1>4. F \in [1 .. N -> [S -> S]]
  BY <1>2
<1>5. PICK f \in [0 .. N -> S] : f[0] = Empty /\ \A n \in 1 .. N : f[n] = F[n][f[n - 1]]
  <2> HIDE DEF F
  <2>1. \E f : IsLoop(f, N, S, Empty, F)
    BY <1>1, <1>3, <1>4, LoopHas
  <2> QED
    BY <2>1 DEF IsLoop
<1>6. ASSUME NEW n \in 1 .. N PROVE f[n] = Next1(f[n - 1], n)
  <2>1. f[n - 1] \in S
    BY <1>1
  <2> QED
    BY <1>5, <2>1
<1>7. f = Turn(f)
  <2>1. \A n \in 1 .. N : n # 0
    BY <1>1
  <2>2. \A n \in 0 .. N : n = 0 \/ n \in 1 .. N
    BY <1>1
  <2> QED
    BY <1>5, <1>6, <2>1, <2>2 DEF Next1
<1> DEFINE v == Decoding(s)
<1>8. v = Turn(v)
  <2>1. v = CHOOSE u : u = Turn(u)
    BY DEF Decoding, N
  <2> HIDE DEF Turn, v
  <2> QED
    BY <1>7, <2>1
<1> HIDE DEF v
<1>9. v[0] = Empty /\ \A n \in 1 .. N : v[n] = Next1(v[n - 1], n)
  <2>1. 0 \in 0 .. N /\ \A n \in 1 .. N : n \in 0 .. N /\ n # 0
    BY <1>1
  <2> QED
    BY <1>8, <2>1 DEF Next1
<1>10. \A n \in 1 .. N : v[n - 1] \in S => v[n] \in S
  BY <1>2, <1>9
<1>11. \A n \in 0 .. N : v[n] \in S
  BY <1>1, <1>3, <1>9, <1>10, LoopKeeps
<1> QED
  BY <1>9, <1>11 DEF v, N, S, Next1

\* No bit of a symbol is lost or made up on the way to bytes.
LEMMA DecodingIs ==
  ASSUME NEW s \in Digits(32)
  PROVE  /\ \A k \in Nat : k = 5 * Len(s) => Taken(Decoding(s)[Len(s)], 8) = k
         /\ Total(Decoding(s)[Len(s)], 256) = Value(s, 32)[Len(s)]
<1> DEFINE N == Len(s)
           v == Decoding(s)
           w == Value(s, 32)
           S == Accumulators(7, 256)
           Q == {n \in 0 .. N : /\ Taken(v[n], 8) = 5 * n
                                /\ Total(v[n], 256) = w[n]}
<1>1. /\ s \in Seq(Nat) /\ N \in Nat
      /\ \A n \in 1 .. N : s[n] \in Nat /\ s[n] < 32 /\ n - 1 \in 0 .. N /\ n \in 0 .. N
  BY DEF Digits
<1>2. /\ v[0] = Empty
      /\ \A n \in 1 .. N : v[n] = Emit(TakeIn(v[n - 1], 5, s[n]), 8)
      /\ \A n \in 0 .. N : v[n] \in S
  BY DecodingRuns
<1>3. w[0] = 0 /\ \A n \in 1 .. N : w[n] = More(w[n - 1], 32, s[n])
  <2>1. 32 \in Nat
    OBVIOUS
  <2> QED
    BY <1>1, <2>1, ValueIs DEF More
<1> HIDE DEF v, w, N
<1>4. 0 \in Q
  <2>1. 0 \in 0 .. N
    BY <1>1
  <2>2. Taken(v[0], 8) = 5 * 0
    BY <1>2 DEF Empty, Taken
  <2> QED
    BY <1>2, <1>3, <2>1, <2>2, EmptyIs
<1>5. ASSUME NEW n \in 1 .. N, n - 1 \in Q PROVE n \in Q
  <2>1. PICK a \in S : a = v[n - 1]
    BY <1>1, <1>2
  <2>2. v[n] = Emit(TakeIn(a, 5, s[n]), 8)
    BY <1>2, <2>1
  <2>3. PICK d \in Nat : d = s[n] /\ d < 32
    BY <1>1
  <2>4. /\ \A k \in Nat : Taken(a, 8) = k => Taken(v[n], 8) = k + 5
        /\ Total(v[n], 256) = More(Total(a, 256), 32, s[n])
    BY <2>2, <2>3, DecodeTurn
  <2>5. Total(v[n], 256) = w[n]
    BY <1>3, <1>5, <2>1, <2>4
  <2>6. Taken(v[n], 8) = 5 * n
    <3>1. n \in Nat /\ 5 * (n - 1) \in Nat /\ Taken(a, 8) = 5 * (n - 1)
      BY <1>1, <1>5, <2>1
    <3>2. Taken(v[n], 8) = 5 * (n - 1) + 5
      BY <2>4, <3>1
    <3> QED
      BY <3>1, <3>2
  <2> QED
    BY <1>1, <2>5, <2>6
<1>6. N \in Q
  <2> HIDE DEF Q
  <2>1. 0 .. N \subseteq Q
    BY <1>1, <1>4, <1>5, UpTo
  <2> QED
    BY <1>1, <2>1
<1> QED
  BY <1>6 DEF v, w, N

\* The accumulators of a whole encoding.
LEMMA EncodingRuns ==
  ASSUME NEW s \in Digits(256)
  PROVE  /\ Encoding(s)[0] = Empty
         /\ \A n \in 1 .. Len(s) : Encoding(s)[n] = Emit(Emit(TakeIn(Encoding(s)[n - 1], 8, s[n]), 5), 5)
         /\ \A n \in 0 .. Len(s) : Encoding(s)[n] \in Accumulators(4, 32)
<1> DEFINE N == Len(s)
           S == Accumulators(4, 32)
           Next1(a, n) == Emit(Emit(TakeIn(a, 8, s[n]), 5), 5)
           Turn(v) == [n \in 0 .. N |-> IF n = 0 THEN Empty ELSE Emit(Emit(TakeIn(v[n - 1], 8, s[n]), 5), 5)]
           F == [n \in 1 .. N |-> [a \in S |-> Next1(a, n)]]
<1>1. N \in Nat /\ \A n \in 1 .. N : s[n] \in Nat /\ s[n] < 256
  BY DEF Digits
<1>2. \A n \in 1 .. N, a \in S : Next1(a, n) \in S
  <2> HIDE DEF N
  <2> QED
    BY <1>1, EncodeTurn
<1>3. Empty \in S
  BY EmptyIn
<1> HIDE DEF N, S, Next1
<1>4. F \in [1 .. N -> [S -> S]]
  BY <1>2
<1>5. PICK f \in [0 .. N -> S] : f[0] = Empty /\ \A n \in 1 .. N : f[n] = F[n][f[n - 1]]
  <2> HIDE DEF F
  <2>1. \E f : IsLoop(f, N, S, Empty, F)
    BY <1>1, <1>3, <1>4, LoopHas
  <2> QED
    BY <2>1 DEF IsLoop
<1>6. ASSUME NEW n \in 1 .. N PROVE f[n] = Next1(f[n - 1], n)
  <2>1. f[n - 1] \in S
    BY <1>1
  <2> QED
    BY <1>5, <2>1
<1>7. f = Turn(f)
  <2>1. \A n \in 1 .. N : n # 0
    BY <1>1
  <2>2. \A n \in 0 .. N : n = 0 \/ n \in 1 .. N
    BY <1>1
  <2> QED
    BY <1>5, <1>6, <2>1, <2>2 DEF Next1
<1> DEFINE v == Encoding(s)
<1>8. v = Turn(v)
  <2>1. v = CHOOSE u : u = Turn(u)
    BY DEF Encoding, N
  <2> HIDE DEF Turn, v
  <2> QED
    BY <1>7, <2>1
<1> HIDE DEF v
<1>9. v[0] = Empty /\ \A n \in 1 .. N : v[n] = Next1(v[n - 1], n)
  <2>1. 0 \in 0 .. N /\ \A n \in 1 .. N : n \in 0 .. N /\ n # 0
    BY <1>1
  <2> QED
    BY <1>8, <2>1 DEF Next1
<1>10. \A n \in 1 .. N : v[n - 1] \in S => v[n] \in S
  BY <1>2, <1>9
<1>11. \A n \in 0 .. N : v[n] \in S
  BY <1>1, <1>3, <1>9, <1>10, LoopKeeps
<1> QED
  BY <1>9, <1>11 DEF v, N, S, Next1

\* No bit of a byte is lost or made up on the way to symbols.
LEMMA EncodingIs ==
  ASSUME NEW s \in Digits(256)
  PROVE  /\ \A k \in Nat : k = 8 * Len(s) => Taken(Encoding(s)[Len(s)], 5) = k
         /\ Total(Encoding(s)[Len(s)], 32) = Value(s, 256)[Len(s)]
<1> DEFINE N == Len(s)
           v == Encoding(s)
           w == Value(s, 256)
           S == Accumulators(4, 32)
           Q == {n \in 0 .. N : /\ Taken(v[n], 5) = 8 * n
                                /\ Total(v[n], 32) = w[n]}
<1>1. /\ s \in Seq(Nat) /\ N \in Nat
      /\ \A n \in 1 .. N : s[n] \in Nat /\ s[n] < 256 /\ n - 1 \in 0 .. N /\ n \in 0 .. N
  BY DEF Digits
<1>2. /\ v[0] = Empty
      /\ \A n \in 1 .. N : v[n] = Emit(Emit(TakeIn(v[n - 1], 8, s[n]), 5), 5)
      /\ \A n \in 0 .. N : v[n] \in S
  BY EncodingRuns
<1>3. w[0] = 0 /\ \A n \in 1 .. N : w[n] = More(w[n - 1], 256, s[n])
  <2>1. 256 \in Nat
    OBVIOUS
  <2> QED
    BY <1>1, <2>1, ValueIs DEF More
<1> HIDE DEF v, w, N
<1>4. 0 \in Q
  <2>1. 0 \in 0 .. N
    BY <1>1
  <2>2. Taken(v[0], 5) = 8 * 0
    BY <1>2 DEF Empty, Taken
  <2> QED
    BY <1>2, <1>3, <2>1, <2>2, EmptyIs
<1>5. ASSUME NEW n \in 1 .. N, n - 1 \in Q PROVE n \in Q
  <2>1. PICK a \in S : a = v[n - 1]
    BY <1>1, <1>2
  <2>2. v[n] = Emit(Emit(TakeIn(a, 8, s[n]), 5), 5)
    BY <1>2, <2>1
  <2>3. PICK d \in Nat : d = s[n] /\ d < 256
    BY <1>1
  <2>4. /\ \A k \in Nat : Taken(a, 5) = k => Taken(v[n], 5) = k + 8
        /\ Total(v[n], 32) = More(Total(a, 32), 256, s[n])
    BY <2>2, <2>3, EncodeTurn
  <2>5. Total(v[n], 32) = w[n]
    BY <1>3, <1>5, <2>1, <2>4
  <2>6. Taken(v[n], 5) = 8 * n
    <3>1. n \in Nat /\ 8 * (n - 1) \in Nat /\ Taken(a, 5) = 8 * (n - 1)
      BY <1>1, <1>5, <2>1
    <3>2. Taken(v[n], 5) = 8 * (n - 1) + 8
      BY <2>4, <3>1
    <3> QED
      BY <3>1, <3>2
  <2> QED
    BY <1>1, <2>5, <2>6
<1>6. N \in Q
  <2> HIDE DEF Q
  <2>1. 0 .. N \subseteq Q
    BY <1>1, <1>4, <1>5, UpTo
  <2> QED
    BY <1>1, <2>1
<1> QED
  BY <1>6 DEF v, w, N

\* The check symbol is the number modulo 37.
LEMMA ChecksumIs ==
  ASSUME NEW s \in Digits(256)
  PROVE  Checksum(s) = Value(s, 256)[Len(s)] % 37
<1> DEFINE N == Len(s)
           Turn(v) == [n \in 0 .. N |-> IF n = 0 THEN 0 ELSE (v[n - 1] * 256 + s[n]) % 37]
           w == Value(s, 256)
           f == [n \in 0 .. N |-> w[n] % 37]
<1>1. s \in Seq(Nat) /\ N \in Nat /\ \A n \in 1 .. N : s[n] \in Nat
  BY DEF Digits
<1>2. /\ w[0] = 0 /\ \A n \in 1 .. N : w[n] = w[n - 1] * 256 + s[n]
      /\ \A n \in 0 .. N : w[n] \in Nat
  <2>1. 256 \in Nat
    OBVIOUS
  <2> QED
    BY <1>1, <2>1, ValueIs
<1> HIDE DEF w, N
<1>3. ASSUME NEW n \in 1 .. N PROVE f[n] = (f[n - 1] * 256 + s[n]) % 37
  <2>1. PICK x \in Nat, d \in Nat : x = w[n - 1] /\ d = s[n]
    <3>1. n - 1 \in 0 .. N /\ s[n] \in Nat
      BY <1>1
    <3>2. w[n - 1] \in Nat
      BY <1>2, <3>1, Zenon
    <3> QED
      BY <3>1, <3>2
  <2>2. f[n - 1] = x % 37 /\ f[n] = (x * 256 + d) % 37
    <3>1. n - 1 \in 0 .. N /\ n \in 0 .. N
      BY <1>1
    <3>2. w[n] = x * 256 + d
      BY <1>2, <2>1
    <3> QED
      BY <2>1, <3>1, <3>2
  <2>3. (x * 256 + d) % 37 = ((x % 37) * 256 + d) % 37
    OBVIOUS
  <2> HIDE DEF f
  <2> QED
    BY <2>1, <2>2, <2>3
<1>4. f[0] = 0 /\ DOMAIN f = 0 .. N /\ f = [n \in 0 .. N |-> f[n]]
  BY <1>1, <1>2
<1> HIDE DEF f
<1>5. f = Turn(f)
  <2>1. \A n \in 0 .. N : n = 0 \/ n \in 1 .. N
    BY <1>1
  <2> QED
    BY <1>3, <1>4, <2>1
<1> DEFINE v == Remainders(s)
<1>6. v = Turn(v)
  <2>1. v = CHOOSE u : u = Turn(u)
    BY DEF Remainders, N
  <2> HIDE DEF Turn, v
  <2> QED
    BY <1>5, <2>1
<1> HIDE DEF v
<1>7. v[0] = 0 /\ \A n \in 1 .. N : v[n] = (v[n - 1] * 256 + s[n]) % 37
  <2>1. 0 \in 0 .. N /\ \A n \in 1 .. N : n \in 0 .. N /\ n # 0
    BY <1>1
  <2> QED
    BY <1>6, <2>1
<1> DEFINE Q == {n \in 0 .. N : v[n] = f[n]}
<1>8. 0 \in Q /\ \A n \in 1 .. N : n - 1 \in Q => n \in Q
  <2>1. 0 \in 0 .. N /\ \A n \in 1 .. N : n \in 0 .. N
    BY <1>1
  <2> DEFINE Next1(u, n) == (u * 256 + s[n]) % 37
  <2>2. \A n \in 1 .. N : v[n] = Next1(v[n - 1], n) /\ f[n] = Next1(f[n - 1], n)
    BY <1>3, <1>7
  <2> HIDE DEF Next1
  <2> QED
    BY <1>4, <1>7, <2>1, <2>2
<1>9. N \in Q
  <2> HIDE DEF Q
  <2>1. 0 .. N \subseteq Q
    BY <1>1, <1>8, UpTo
  <2> QED
    BY <1>1, <2>1
<1> QED
  <2>1. v[N] = f[N]
    BY <1>9
  <2>2. f[N] = w[N] % 37
    BY <1>1 DEF f
  <2> QED
    BY <2>1, <2>2 DEF Checksum, v, w, N

\* The number of an encoding is four times that of the bytes: two bits are padding.
LEMMA EncodeIs ==
  ASSUME NEW s \in Digits(256), Len(s) = 16
  PROVE  /\ EncodeBase32(s) \in Digits(32) /\ Len(EncodeBase32(s)) = 26
         /\ Value(EncodeBase32(s), 32)[26] = 4 * Value(s, 256)[16]
<1>1. PICK a \in Accumulators(4, 32) :
        a = Encoding(s)[16] /\ Taken(a, 5) = 128 /\ Total(a, 32) = Value(s, 256)[16]
  <2>1. 16 \in 0 .. Len(s)
    OBVIOUS
  <2>2. Encoding(s)[16] \in Accumulators(4, 32)
    BY <2>1, EncodingRuns
  <2>3. PICK k \in Nat : k = 8 * Len(s)
    OBVIOUS
  <2>4. /\ Taken(Encoding(s)[Len(s)], 5) = k
        /\ Total(Encoding(s)[Len(s)], 32) = Value(s, 256)[Len(s)]
    BY <2>3, EncodingIs
  <2>5. k = 128
    BY <2>3
  <2> QED
    BY <2>2, <2>4, <2>5
<1>2. PICK x \in Nat, n \in 0 .. 4, o \in Digits(32) : a = Acc(x, n, o)
  BY AccumulatorIs
<1>3. PICK size \in Nat : size = Len(o)
  BY NumberIn
<1>4. a.buffer = x /\ a.bits = n /\ a.out = o
  BY <1>2, AccParts
<1>5. 5 * size + n = 128
  BY <1>1, <1>3, <1>4 DEF Taken
<1>6. n = 3 /\ size = 25
  BY <1>5
<1>7. PICK w \in Nat : w = Value(o, 32)[Len(o)]
  BY NumberIn
<1>8. Value(s, 256)[16] = w * 8 + (x % 8)
  <2>1. Value(s, 256)[16] = Held(w, n, x)
    BY <1>1, <1>2, <1>7, TotalIs
  <2> QED
    BY <1>6, <2>1, Powers DEF Held, Room, Low
<1>9. PICK d \in Nat : d = (x * 4) % 32 /\ d < 32 /\ d = 4 * (x % 8)
  <2>1. (x * 4) % 32 \in Nat /\ (x * 4) % 32 < 32 /\ (x * 4) % 32 = 4 * (x % 8)
    OBVIOUS
  <2> QED
    BY <2>1
<1>10. EncodeBase32(s) = Append(o, d)
  <2>1. 5 - a.bits = 2 /\ a.bits # 0
    BY <1>4, <1>6
  <2> QED
    <3>1. Encoding(s)[Len(s)] = a
      BY <1>1
    <3>2. (a.buffer * 2 ^ (5 - a.bits)) % 2 ^ 5 = d
      <4>1. 2 ^ (5 - a.bits) = 4 /\ 2 ^ 5 = 32
        <5>1. 2 ^ 2 = 4 /\ 2 ^ 5 = 32
          BY Powers
        <5> QED
          BY <2>1, <5>1
      <4>2. (x * 4) % 32 = d
        BY <1>9
      <4> QED
        BY <1>4, <4>1, <4>2
    <3> QED
      BY <1>4, <2>1, <3>1, <3>2 DEF EncodeBase32
<1>11. /\ Append(o, d) \in Digits(32) /\ Len(Append(o, d)) = 26
       /\ Value(Append(o, d), 32)[26] = More(w, 32, d)
  <2>1. Append(o, d) \in Digits(32) /\ Len(Append(o, d)) = Len(o) + 1
        /\ Value(Append(o, d), 32)[Len(Append(o, d))] = More(w, 32, d)
    <3>1. 32 \in Nat /\ d < 32
      BY <1>9
    <3>2. /\ Append(o, d) \in Digits(32) /\ Len(Append(o, d)) = Len(o) + 1
          /\ Value(Append(o, d), 32)[Len(Append(o, d))] = More(Value(o, 32)[Len(o)], 32, d)
      BY <3>1, NumberWith, Zenon
    <3> QED
      BY <1>7, <3>2
  <2>2. Len(Append(o, d)) = 26
    BY <1>3, <1>6, <2>1
  <2> QED
    BY <2>1, <2>2
<1>12. More(w, 32, d) = 4 * (w * 8 + (x % 8))
  BY <1>9 DEF More
<1> QED
  BY <1>8, <1>10, <1>11, <1>12

\* What is decoded is the number without the padding.
LEMMA DecodeIs ==
  ASSUME NEW s \in Digits(32), Len(s) = 26
  PROVE  \E b \in Digits(256), r \in 0 .. 3 :
           /\ Len(b) = 16 /\ Decode32(s) = [bytes |-> b, padded |-> r = 0]
           /\ Value(s, 32)[26] = 4 * Value(b, 256)[16] + r
<1>1. PICK a \in Accumulators(7, 256) :
        a = Decoding(s)[26] /\ Taken(a, 8) = 130 /\ Total(a, 256) = Value(s, 32)[26]
  <2>1. 26 \in 0 .. Len(s)
    OBVIOUS
  <2>2. Decoding(s)[26] \in Accumulators(7, 256)
    BY <2>1, DecodingRuns
  <2>3. PICK k \in Nat : k = 5 * Len(s)
    OBVIOUS
  <2>4. /\ Taken(Decoding(s)[Len(s)], 8) = k
        /\ Total(Decoding(s)[Len(s)], 256) = Value(s, 32)[Len(s)]
    BY <2>3, DecodingIs
  <2>5. k = 130
    BY <2>3
  <2> QED
    BY <2>2, <2>4, <2>5
<1>2. PICK x \in Nat, n \in 0 .. 7, o \in Digits(256) : a = Acc(x, n, o)
  BY AccumulatorIs
<1>3. PICK size \in Nat : size = Len(o)
  BY NumberIn
<1>4. a.buffer = x /\ a.bits = n /\ a.out = o
  BY <1>2, AccParts
<1>5. 8 * size + n = 130
  BY <1>1, <1>3, <1>4 DEF Taken
<1>6. n = 2 /\ size = 16
  BY <1>5
<1>7. PICK w \in Nat : w = Value(o, 256)[Len(o)]
  BY NumberIn
<1>8. PICK r \in 0 .. 3 : r = x % 4
  <2>1. x % 4 \in 0 .. 3
    OBVIOUS
  <2> QED
    BY <2>1
<1>9. Value(s, 32)[26] = 4 * w + r
  <2>1. Value(s, 32)[26] = Held(w, n, x)
    BY <1>1, <1>2, <1>7, TotalIs
  <2>2. Held(w, n, x) = w * 4 + r
    BY <1>6, <1>8, Powers DEF Held, Room, Low
  <2> QED
    BY <2>1, <2>2
<1>10. Decode32(s) = [bytes |-> o, padded |-> r = 0]
  BY <1>1, <1>4, <1>6, <1>8, Powers DEF Decode32
<1>11. Len(o) = 16 /\ w = Value(o, 256)[16]
  BY <1>3, <1>6, <1>7
<1> QED
  BY <1>9, <1>10, <1>11, Zenon

(***************************************************************************)
(* Slips.  One of them changes the number by what is no multiple of 37.    *)
(***************************************************************************)
\* 32 and 31 have inverses modulo 37.
Rem37(x) == x % 37

\* A symbol that both end with can be taken away: 32 has an inverse modulo 37.
LEMMA Undo32 ==
  ASSUME NEW x \in Nat, NEW y \in Nat, NEW d \in Nat,
         Rem37(More(x, 32, d)) = Rem37(More(y, 32, d))
  PROVE  Rem37(x) = Rem37(y)
<1> DEFINE m == (x * 32 + d) \div 37 - (y * 32 + d) \div 37
<1>1. (x * 32 + d) % 37 = (y * 32 + d) % 37
  BY DEF Rem37, More
<1>2. m \in Int /\ (x - y) * 32 = 37 * m
  BY <1>1
<1> HIDE DEF m
<1>3. PICK k \in Int : k = 22 * m - 19 * (x - y)
  <2>1. 22 * m - 19 * (x - y) \in Int
    BY <1>2
  <2> QED
    BY <2>1
<1>4. x = y + 37 * k
  BY <1>2, <1>3
<1>5. x % 37 = y % 37
  BY <1>4
<1> QED
  BY <1>5 DEF Rem37

\* Two different symbols in one place leave different remainders.
LEMMA OneDigit ==
  ASSUME NEW z \in Nat, NEW x \in Nat, NEW y \in Nat, x < 32, y < 32,
         (z * 32 + x) % 37 = (z * 32 + y) % 37
  PROVE  x = y
OBVIOUS

\* So do two different neighbours that are swapped: 31 has an inverse modulo 37.
LEMMA Undo31 ==
  ASSUME NEW x \in Nat, NEW y \in Nat, NEW z \in Nat, x < 32, y < 32,
         ((z * 32 + x) * 32 + y) % 37 = ((z * 32 + y) * 32 + x) % 37
  PROVE  x = y
<1> DEFINE m == ((z * 32 + x) * 32 + y) \div 37 - ((z * 32 + y) * 32 + x) \div 37
<1>1. m \in Int /\ (x - y) * 31 = 37 * m
  OBVIOUS
<1> HIDE DEF m
<1>2. PICK k \in Int : k = 6 * m - 5 * (x - y)
  BY <1>1
<1>3. x - y = 37 * k
  BY <1>1, <1>2
<1> QED
  BY <1>3

\* Digits are numbers below the base.
LEMMA DigitIs ==
  ASSUME NEW base, NEW s \in Digits(base)
  PROVE  s \in Seq(Nat) /\ \A i \in 1 .. Len(s) : s[i] \in Nat /\ s[i] < base
BY DEF Digits

\* A difference that is none of 37's stays while the digits behind it agree.
LEMMA SlipStays ==
  ASSUME NEW s \in Seq(Nat), NEW t \in Seq(Nat), NEW n \in Nat, n <= Len(s), n <= Len(t),
         NEW j \in 0 .. n, \A i \in j + 1 .. n : s[i] = t[i],
         Value(s, 32)[j] % 37 # Value(t, 32)[j] % 37
  PROVE  Value(s, 32)[n] % 37 # Value(t, 32)[n] % 37
<1> DEFINE v == Value(s, 32)
           w == Value(t, 32)
           Differ(k) == v[k] % 37 # w[k] % 37
           Q == {k \in 0 .. n : k >= j => Differ(k)}
<1>1. 32 \in Nat /\ \A k \in 1 .. n : k \in 1 .. Len(s) /\ k \in 1 .. Len(t)
  OBVIOUS
<1>2. \A k \in 0 .. n : v[k] \in Nat /\ w[k] \in Nat
  <2>1. \A k \in 0 .. n : k \in 0 .. Len(s) /\ k \in 0 .. Len(t)
    OBVIOUS
  <2> QED
    BY <1>1, <2>1, ValueIs
<1>3. \A k \in 1 .. n : v[k] = v[k - 1] * 32 + s[k] /\ w[k] = w[k - 1] * 32 + t[k]
  BY <1>1, ValueIs
<1>4. Differ(j)
  OBVIOUS
<1> HIDE DEF v, w
<1>5. ASSUME NEW k \in 1 .. n, k - 1 \in Q PROVE k \in Q
  <2>1. CASE k > j
    <3>1. k - 1 \in 0 .. n /\ Differ(k - 1) /\ s[k] = t[k] /\ s[k] \in Nat
      BY <1>1, <1>5, <2>1
    <3>2. PICK x \in Nat, y \in Nat, d \in Nat : x = v[k - 1] /\ y = w[k - 1] /\ d = s[k]
      BY <1>2, <3>1
    <3>3. v[k] = More(x, 32, d) /\ w[k] = More(y, 32, d)
      BY <1>3, <3>1, <3>2 DEF More
    <3>4. Rem37(x) # Rem37(y)
      BY <3>1, <3>2 DEF Rem37
    <3>5. Rem37(More(x, 32, d)) # Rem37(More(y, 32, d))
      BY <3>4, Undo32
    <3> QED
      BY <3>3, <3>5 DEF Rem37
  <2>2. CASE k = j
    BY <1>4, <2>2
  <2>3. CASE k < j
    BY <2>3
  <2> QED
    BY <2>1, <2>2, <2>3
<1>6. 0 \in Q
  BY <1>4
<1>7. n \in Q
  <2> HIDE DEF Q
  <2>1. 0 .. n \subseteq Q
    BY <1>5, <1>6, UpTo
  <2> QED
    BY <2>1
<1> QED
  <2>1. Differ(n)
    BY <1>7
  <2> QED
    BY <2>1 DEF v, w

\* Two numbers of equally many digits that agree before a place.
LEMMA PlaceIs ==
  ASSUME NEW s \in Digits(32), NEW t \in Digits(32), Len(s) = Len(t), NEW i \in 1 .. Len(s),
         \A k \in 1 .. Len(s) : k < i => s[k] = t[k]
  PROVE  \E z \in Nat : /\ Value(s, 32)[i] = z * 32 + s[i] /\ Value(t, 32)[i] = z * 32 + t[i]
                        /\ s[i] \in Nat /\ s[i] < 32 /\ t[i] \in Nat /\ t[i] < 32
<1>1. /\ s \in Seq(Nat) /\ t \in Seq(Nat) /\ 32 \in Nat
      /\ s[i] \in Nat /\ s[i] < 32 /\ t[i] \in Nat /\ t[i] < 32
  BY DigitIs
<1>2. PICK n \in Nat : n = i - 1
  OBVIOUS
<1>3. Value(s, 32)[n] = Value(t, 32)[n]
  <2>1. n <= Len(s) /\ n <= Len(t) /\ \A k \in 1 .. n : s[k] = t[k]
    BY <1>2
  <2> QED
    BY <1>1, <2>1, ValueOfPrefix
<1>4. PICK z \in Nat : z = Value(s, 32)[n]
  <2>1. n \in 0 .. Len(s)
    BY <1>2
  <2> QED
    BY <1>1, <2>1, ValueIs
<1>5. Value(s, 32)[i] = Value(s, 32)[i - 1] * 32 + s[i]
  BY <1>1, ValueIs
<1>6. Value(t, 32)[i] = Value(t, 32)[i - 1] * 32 + t[i]
  BY <1>1, ValueIs
<1> QED
  BY <1>1, <1>2, <1>3, <1>4, <1>5, <1>6

Same(s, t) == Value(s, 32)[Len(s)] % 37 = Value(t, 32)[Len(t)] % 37

\* Two codes that differ in one symbol, with the same remainder, do not differ.
LEMMA OneSymbol ==
  ASSUME NEW s \in Digits(32), NEW t \in Digits(32), Len(s) = Len(t),
         NEW i \in 1 .. Len(s), \A k \in 1 .. Len(s) : k # i => s[k] = t[k], Same(s, t)
  PROVE  s[i] = t[i]
<1>1. s \in Seq(Nat) /\ t \in Seq(Nat) /\ Len(s) \in Nat
  BY DigitIs
<1>2. PICK z \in Nat :
        /\ Value(s, 32)[i] = z * 32 + s[i] /\ Value(t, 32)[i] = z * 32 + t[i]
        /\ s[i] \in Nat /\ s[i] < 32 /\ t[i] \in Nat /\ t[i] < 32
  <2>1. \A k \in 1 .. Len(s) : k < i => s[k] = t[k]
    OBVIOUS
  <2> QED
    BY <2>1, PlaceIs
<1>3. PICK x \in Nat, y \in Nat : x = s[i] /\ y = t[i] /\ x < 32 /\ y < 32
  BY <1>2
<1> SUFFICES ASSUME x # y PROVE FALSE
  BY <1>3
<1>4. (z * 32 + x) % 37 # (z * 32 + y) % 37
  BY <1>3, OneDigit
<1>5. Value(s, 32)[i] % 37 # Value(t, 32)[i] % 37
  BY <1>2, <1>3, <1>4
<1>6. Value(s, 32)[Len(s)] % 37 # Value(t, 32)[Len(s)] % 37
  <2>1. Len(s) <= Len(s) /\ Len(s) <= Len(t) /\ i \in 0 .. Len(s)
        /\ \A k \in i + 1 .. Len(s) : s[k] = t[k]
    BY <1>1
  <2> QED
    BY <1>1, <1>5, <2>1, SlipStays
<1> QED
  BY <1>6 DEF Same

\* The same of two neighbours that changed places.
LEMMA TwoNeighbours ==
  ASSUME NEW s \in Digits(32), NEW t \in Digits(32), Len(s) = Len(t),
         NEW i \in 1 .. Len(s), NEW j \in 1 .. Len(s), j = i + 1,
         \A k \in 1 .. Len(s) : k # i /\ k # j => s[k] = t[k],
         t[i] = s[j], t[j] = s[i], Same(s, t)
  PROVE  s[i] = s[j]
<1>1. s \in Seq(Nat) /\ t \in Seq(Nat) /\ Len(s) \in Nat /\ 32 \in Nat
  BY DigitIs
<1>2. PICK z \in Nat :
        /\ Value(s, 32)[i] = z * 32 + s[i] /\ Value(t, 32)[i] = z * 32 + t[i]
        /\ s[i] \in Nat /\ s[i] < 32 /\ t[i] \in Nat /\ t[i] < 32
  <2>1. \A k \in 1 .. Len(s) : k < i => s[k] = t[k]
    OBVIOUS
  <2> QED
    BY <2>1, PlaceIs
<1>3. PICK x \in Nat, y \in Nat : x = s[i] /\ y = s[j] /\ x < 32 /\ y < 32
  BY <1>2
<1> SUFFICES ASSUME x # y PROVE FALSE
  BY <1>3
<1>4. ((z * 32 + x) * 32 + y) % 37 # ((z * 32 + y) * 32 + x) % 37
  BY <1>3, Undo31
<1>5. Value(s, 32)[j] = Value(s, 32)[j - 1] * 32 + s[j]
  BY <1>1, ValueIs
<1>6. Value(t, 32)[j] = Value(t, 32)[j - 1] * 32 + t[j]
  BY <1>1, ValueIs
<1>7. Value(s, 32)[j] % 37 # Value(t, 32)[j] % 37
  <2>1. j - 1 = i
    OBVIOUS
  <2>2. Value(s, 32)[j] = (z * 32 + x) * 32 + y
    BY <1>2, <1>3, <1>5, <2>1
  <2>3. Value(t, 32)[j] = (z * 32 + y) * 32 + x
    BY <1>2, <1>3, <1>6, <2>1
  <2> QED
    BY <1>4, <2>2, <2>3
<1>8. Value(s, 32)[Len(s)] % 37 # Value(t, 32)[Len(s)] % 37
  <2>1. Len(s) <= Len(s) /\ Len(s) <= Len(t) /\ j \in 0 .. Len(s)
        /\ \A k \in j + 1 .. Len(s) : s[k] = t[k]
    BY <1>1
  <2> QED
    BY <1>1, <1>7, <2>1, SlipStays
<1> QED
  BY <1>8 DEF Same

\* The last symbol and the check symbol that changed places.
LEMMA LastNeighbours ==
  ASSUME NEW s \in Digits(32), NEW t \in Digits(32), Len(s) = Len(t),
         NEW n \in 1 .. Len(s), n = Len(s), \A k \in 1 .. Len(s) : k # n => s[k] = t[k],
         NEW w \in Nat, NEW x \in Nat, Value(s, 32)[n] = 4 * w, Value(t, 32)[n] = 4 * x,
         t[n] = w % 37, x % 37 = s[n]
  PROVE  s[n] = t[n]
<1>1. PICK z \in Nat :
        /\ Value(s, 32)[n] = z * 32 + s[n] /\ Value(t, 32)[n] = z * 32 + t[n]
        /\ s[n] \in Nat /\ s[n] < 32 /\ t[n] \in Nat /\ t[n] < 32
  <2>1. \A k \in 1 .. Len(s) : k < n => s[k] = t[k]
    OBVIOUS
  <2> QED
    BY <2>1, PlaceIs
<1>2. PICK e \in Nat, p \in Nat : e = s[n] /\ p = t[n] /\ e = x % 37 /\ p = w % 37
  BY <1>1
<1>3. 4 * w = z * 32 + e /\ 4 * x = z * 32 + p
  BY <1>1, <1>2
<1>4. e = p
  BY <1>2, <1>3
<1> QED
  BY <1>2, <1>4

(***************************************************************************)
(* What is typed against what was meant.                                   *)
(***************************************************************************)
\* t spells the bytes b: the symbols d are their number x four times over, and one
\* more is its remainder.
Spells(t, d, b, x) ==
  /\ Len(d) = 26 /\ Len(b) = 16 /\ Len(t) = Len(d) + 1
  /\ x = Value(b, 256)[Len(b)] /\ Value(d, 32)[Len(d)] = 4 * x
  /\ \A k \in 1 .. Len(d) : t[k] = d[k]
  /\ t[Len(d) + 1] = x % 37

\* The spelling of an address: its digits and the check symbol.
LEMMA CanonicalIs ==
  ASSUME NEW a \in Digits(256), Len(a) = 16
  PROVE  /\ Canonical(a) \in Seq(Nat)
         /\ \E d \in Digits(32), x \in Nat : Spells(Canonical(a), d, a, x)
<1>1. PICK d \in Digits(32) : d = EncodeBase32(a) /\ Len(d) = 26
                              /\ Value(d, 32)[26] = 4 * Value(a, 256)[16]
  BY EncodeIs
<1>2. PICK x \in Nat : x = Value(a, 256)[Len(a)]
  <2>1. 256 \in Nat
    OBVIOUS
  <2> QED
    BY <2>1, NumberIn
<1>3. Checksum(a) = x % 37 /\ x % 37 \in Nat
  <2>1. Checksum(a) = Value(a, 256)[Len(a)] % 37
    BY ChecksumIs
  <2> QED
    BY <1>2, <2>1
<1>4. Canonical(a) = Append(d, x % 37)
  BY <1>1, <1>3 DEF Canonical
<1>5. Value(d, 32)[Len(d)] = 4 * x /\ Len(d) = 26
  BY <1>1, <1>2
<1>6. /\ Canonical(a) \in Seq(Nat) /\ Len(Canonical(a)) = Len(d) + 1
      /\ \A k \in 1 .. Len(d) : Canonical(a)[k] = d[k]
      /\ Canonical(a)[Len(d) + 1] = x % 37
  <2>1. d \in Seq(Nat)
    BY DigitIs
  <2> QED
    BY <1>3, <1>4, <2>1
<1>7. Spells(Canonical(a), d, a, x)
  BY <1>2, <1>5, <1>6 DEF Spells
<1> QED
  BY <1>6, <1>7

Accepted(text) == ParseChecked(text, AddressSymbols).why = ""

\* What every check has passed.
LEMMA ChecksPass ==
  ASSUME NEW text, Accepted(text)
  PROVE  LET t == Normalize(text)
             d == Front(t)
         IN  /\ Len(t) = 27 /\ \A k \in DOMAIN d : d[k] \in Alphabet
             /\ Decode32(d).padded /\ Last(t) = Checksum(Decode32(d).bytes)
             /\ ParseChecked(text, AddressSymbols).bytes = Decode32(d).bytes
<1> DEFINE t == Normalize(text)
           d == Front(t)
           b == Decode32(d)
<1>1. /\ t # << >> /\ Len(t) = 26 + 1 /\ ~ \E k \in DOMAIN d : d[k] \notin Alphabet
      /\ b.padded /\ Last(t) \in CheckAlphabet /\ Last(t) = Checksum(b.bytes)
  <2> HIDE DEF t, b
  <2> QED
    BY DEF Accepted, AddressSymbols, ParseChecked, t, d, b
<1>2. ParseChecked(text, AddressSymbols).bytes = b.bytes
  BY <1>1 DEF ParseChecked, AddressSymbols
<1>3. Len(t) = 27
  <2>1. Len(t) = 26 + 1
    BY <1>1
  <2> HIDE DEF t
  <2> QED
    BY <2>1
<1>4. \A k \in DOMAIN d : d[k] \in Alphabet
  BY <1>1, Zenon
<1> QED
  BY <1>1, <1>2, <1>3, <1>4, Zenon

\* All but the last of what is typed, and the last.
LEMMA FrontIs ==
  ASSUME NEW S, NEW t \in Seq(S), NEW n \in Nat, Len(t) = n + 1
  PROVE  /\ Front(t) \in Seq(S) /\ Len(Front(t)) = n /\ Last(t) = t[n + 1]
         /\ \A k \in 1 .. n : Front(t)[k] = t[k]
<1>1. Front(t) = SubSeq(t, 1, n) /\ Last(t) = t[n + 1]
  <2>1. Len(t) - 1 = n
    OBVIOUS
  <2> QED
    BY <2>1 DEF Front, Last
<1>2. /\ SubSeq(t, 1, n) \in Seq(S) /\ Len(SubSeq(t, 1, n)) = IF 1 <= n THEN n - 1 + 1 ELSE 0
      /\ \A k \in 1 .. n - 1 + 1 : SubSeq(t, 1, n)[k] = t[1 + k - 1]
  <2>1. \A k \in 1 .. n : t[k] \in S
    OBVIOUS
  <2> QED
    BY <2>1, SubSeqProperties
<1>3. (IF 1 <= n THEN n - 1 + 1 ELSE 0) = n /\ n - 1 + 1 = n /\ \A k \in 1 .. n : 1 + k - 1 = k
  OBVIOUS
<1> QED
  BY <1>1, <1>2, <1>3

\* What was taken spells the number it stands for.
LEMMA TakenIs ==
  ASSUME NEW text, Accepted(text), NEW S, Normalize(text) \in Seq(S)
  PROVE  \E d \in Digits(32), b \in Digits(256), x \in Nat :
           Spells(Normalize(text), d, b, x) /\ ParseChecked(text, AddressSymbols).bytes = b
<1> DEFINE t == Normalize(text)
<1>1. PICK d : d = Front(t)
  OBVIOUS
<1>2. /\ Len(t) = 27 /\ \A k \in DOMAIN d : d[k] \in Alphabet
      /\ Decode32(d).padded /\ Last(t) = Checksum(Decode32(d).bytes)
      /\ ParseChecked(text, AddressSymbols).bytes = Decode32(d).bytes
  BY <1>1, ChecksPass
<1> HIDE DEF t
<1>3. /\ d \in Seq(S) /\ Len(d) = 26 /\ Last(t) = t[27]
      /\ DOMAIN d = 1 .. Len(d) /\ \A k \in 1 .. Len(d) : d[k] = t[k]
  <2>1. PICK n \in Nat : n = 26
    OBVIOUS
  <2>2. t \in Seq(S) /\ Len(t) = n + 1
    BY <1>2, <2>1 DEF t
  <2>3. d \in Seq(S) /\ Len(d) = n /\ Last(t) = t[n + 1] /\ \A k \in 1 .. n : d[k] = t[k]
    BY <1>1, <2>2, FrontIs
  <2>4. DOMAIN d = 1 .. Len(d)
    BY <2>3
  <2> QED
    BY <2>1, <2>3, <2>4
<1>4. d \in Digits(32)
  <2>1. \A k \in 1 .. Len(d) : d[k] \in Nat /\ d[k] < 32
    <3>1. \A v \in Alphabet : v \in Nat /\ v < 32
      BY DEF Alphabet
    <3> QED
      BY <1>2, <1>3, <3>1, Zenon
  <2>2. d \in Seq(Nat)
    <3>1. \A k \in 1 .. Len(d) : d[k] \in Nat
      BY <2>1
    <3>2. d \in Seq(S)
      BY <1>3
    <3> QED
      BY <3>1, <3>2
  <2> QED
    BY <2>1, <2>2 DEF Digits
<1>5. PICK b \in Digits(256), r \in 0 .. 3 :
        /\ Len(b) = 16 /\ Decode32(d) = [bytes |-> b, padded |-> r = 0]
        /\ Value(d, 32)[26] = 4 * Value(b, 256)[16] + r
  BY <1>3, <1>4, DecodeIs
<1>6. Decode32(d).bytes = b /\ Decode32(d).padded = (r = 0)
  BY <1>5
<1>7. PICK x \in Nat : x = Value(b, 256)[Len(b)]
  <2>1. 256 \in Nat
    OBVIOUS
  <2> QED
    BY <2>1, NumberIn
<1>8. Value(d, 32)[Len(d)] = 4 * x
  <2>1. r = 0
    BY <1>2, <1>6
  <2> QED
    BY <1>3, <1>5, <1>7, <2>1
<1>9. t[Len(d) + 1] = x % 37
  <2>1. Checksum(b) = Value(b, 256)[Len(b)] % 37
    BY ChecksumIs
  <2>2. t[27] = Checksum(b)
    BY <1>2, <1>3, <1>6, Zenon
  <2>3. Len(d) + 1 = 27
    BY <1>3
  <2> QED
    BY <1>7, <2>1, <2>2, <2>3
<1>10. Spells(t, d, b, x)
  <2>1. Len(t) = Len(d) + 1
    BY <1>2, <1>3
  <2> QED
    BY <1>3, <1>5, <1>7, <1>8, <1>9, <2>1 DEF Spells
<1>11. ParseChecked(text, AddressSymbols).bytes = b
  BY <1>2, <1>6
<1> QED
  BY <1>4, <1>10, <1>11 DEF t

\* Two spellings of the same symbols are of the same bytes.
LEMMA SymbolsAreOne ==
  ASSUME NEW c, NEW t, NEW e \in Digits(32), NEW d \in Digits(32),
         NEW a \in Digits(256), NEW b \in Digits(256), NEW w \in Nat, NEW x \in Nat,
         Spells(c, e, a, w), Spells(t, d, b, x), \A k \in 1 .. Len(e) : e[k] = d[k]
  PROVE  b = a /\ w = x
<1>1. /\ Len(e) = Len(d) /\ Len(a) = Len(b) /\ Len(e) \in Nat
      /\ w = Value(a, 256)[Len(a)] /\ x = Value(b, 256)[Len(b)]
  BY DigitIs DEF Spells
<1>2. Value(e, 32)[Len(e)] = 4 * w /\ Value(d, 32)[Len(d)] = 4 * x
  BY DEF Spells
<1>3. Value(e, 32)[Len(e)] = Value(d, 32)[Len(e)]
  <2>1. e \in Seq(Nat) /\ d \in Seq(Nat)
    BY DigitIs
  <2>2. e = [k \in 1 .. Len(e) |-> e[k]] /\ d = [k \in 1 .. Len(e) |-> d[k]]
    BY <1>1, <2>1
  <2>3. e = d
    BY <2>2, Zenon
  <2> QED
    BY <2>3
<1>4. w = x
  BY <1>1, <1>2, <1>3
<1>5. a = b
  <2>1. Value(a, 256)[Len(a)] = Value(b, 256)[Len(b)]
    BY <1>1, <1>4
  <2> QED
    BY <1>1, <2>1, BytesAreOne
<1> QED
  BY <1>4, <1>5

\* Two bits of padding keep equal remainders equal.
LEMMA FourTimes ==
  ASSUME NEW w \in Nat, NEW x \in Nat, w % 37 = x % 37
  PROVE  (4 * w) % 37 = (4 * x) % 37
OBVIOUS

\* Nothing that one slip makes of an address spells other bytes, or is spelled
\* otherwise.
LEMMA SlipIsNoOther ==
  ASSUME NEW c \in Seq(Nat), NEW t, NEW e \in Digits(32), NEW d \in Digits(32),
         NEW a \in Digits(256), NEW b \in Digits(256), NEW w \in Nat, NEW x \in Nat,
         Spells(c, e, a, w), Spells(t, d, b, x), OneSlip(t, c)
  PROVE  b = a /\ t = c
<1>1. PICK n \in Nat : n = Len(e)
  BY DigitIs
<1>2. /\ Len(e) = n /\ Len(d) = n /\ Len(c) = n + 1 /\ Len(t) = n + 1 /\ n >= 1
      /\ DOMAIN c = 1 .. n + 1
  BY <1>1 DEF Spells
<1>3. \A k \in 1 .. n : c[k] = e[k] /\ t[k] = d[k]
  <2>1. \A k \in 1 .. Len(e) : c[k] = e[k]
    BY Zenon DEF Spells
  <2>2. \A k \in 1 .. Len(d) : t[k] = d[k]
    BY Zenon DEF Spells
  <2> QED
    BY <1>2, <2>1, <2>2
<1>4. c[n + 1] = w % 37 /\ t[n + 1] = x % 37
  BY <1>2, Zenon DEF Spells
<1>5. Value(e, 32)[n] = 4 * w /\ Value(d, 32)[n] = 4 * x
  BY <1>2, Zenon DEF Spells
<1>6. w % 37 = x % 37 => Same(e, d)
  <2> SUFFICES ASSUME w % 37 = x % 37 PROVE Same(e, d)
    OBVIOUS
  <2>1. (4 * w) % 37 = (4 * x) % 37
    BY FourTimes
  <2> QED
    BY <1>2, <1>5, <2>1 DEF Same
<1>7. /\ DOMAIN t = 1 .. n + 1 /\ t = [k \in 1 .. n + 1 |-> t[k]]
      /\ \A k \in 1 .. n : e[k] = d[k]
  <2>1. CASE \E i \in DOMAIN c : t = [c EXCEPT ![i] = t[i]]
    <3>1. PICK i \in 1 .. n + 1 : t = [c EXCEPT ![i] = t[i]]
      BY <1>2, <2>1
    <3>2. DOMAIN t = 1 .. n + 1 /\ t = [k \in 1 .. n + 1 |-> t[k]]
      BY <1>2, <3>1
    <3>3. \A k \in 1 .. n + 1 : k # i => t[k] = c[k]
      BY <1>2, <3>1
    <3>4. \A k \in 1 .. n : k # i => e[k] = d[k]
      BY <1>3, <3>3
    <3>5. CASE i = n + 1
      BY <3>2, <3>4, <3>5
    <3>6. CASE i \in 1 .. n
      <4>1. Same(e, d)
        <5>1. n + 1 # i /\ n + 1 \in 1 .. n + 1
          BY <3>6
        <5> QED
          BY <1>4, <1>6, <3>3, <5>1
      <4>2. e[i] = d[i]
        <5>1. Len(e) = Len(d) /\ i \in 1 .. Len(e) /\ \A k \in 1 .. Len(e) : k # i => e[k] = d[k]
          BY <1>2, <3>4, <3>6
        <5> QED
          BY <4>1, <5>1, OneSymbol
      <4> QED
        BY <3>2, <3>4, <4>2
    <3> QED
      BY <3>5, <3>6
  <2>2. CASE \E i \in DOMAIN c : /\ i + 1 \in DOMAIN c
                                 /\ t = [c EXCEPT ![i] = c[i + 1], ![i + 1] = c[i]]
    <3>1. PICK i \in 1 .. n + 1, j \in 1 .. n + 1 :
            j = i + 1 /\ t = [c EXCEPT ![i] = c[j], ![j] = c[i]]
      BY <1>2, <2>2
    <3>2. /\ DOMAIN t = 1 .. n + 1 /\ t = [k \in 1 .. n + 1 |-> t[k]]
          /\ t[i] = c[j] /\ t[j] = c[i] /\ \A k \in 1 .. n + 1 : k # i /\ k # j => t[k] = c[k]
      BY <1>2, <3>1
    <3>3. i \in 1 .. n /\ \A k \in 1 .. n : k # i /\ k # j => e[k] = d[k]
      BY <1>3, <3>1, <3>2
    <3>4. CASE j = n + 1
      <4>1. i = n /\ d[n] = w % 37 /\ x % 37 = e[n]
        BY <1>2, <1>3, <1>4, <3>1, <3>2, <3>4
      <4>2. \A k \in 1 .. n : k # n => e[k] = d[k]
        BY <3>3, <3>4, <4>1
      <4>3. e[n] = d[n]
        <5>1. /\ Len(e) = Len(d) /\ n \in 1 .. Len(e) /\ n = Len(e)
              /\ \A k \in 1 .. Len(e) : k # n => e[k] = d[k]
          BY <1>2, <4>2
        <5> QED
          BY <1>5, <4>1, <5>1, LastNeighbours
      <4> QED
        BY <3>2, <4>2, <4>3
    <3>5. CASE j \in 1 .. n
      <4>1. Same(e, d)
        <5>1. n + 1 # i /\ n + 1 # j /\ n + 1 \in 1 .. n + 1
          BY <3>3, <3>5
        <5> QED
          BY <1>4, <1>6, <3>2, <5>1
      <4>2. d[i] = e[j] /\ d[j] = e[i]
        BY <1>3, <3>2, <3>3, <3>5
      <4>3. e[i] = e[j]
        <5>1. /\ Len(e) = Len(d) /\ i \in 1 .. Len(e) /\ j \in 1 .. Len(e) /\ j = i + 1
              /\ \A k \in 1 .. Len(e) : k # i /\ k # j => e[k] = d[k]
          BY <1>2, <3>1, <3>3, <3>5
        <5> QED
          BY <4>1, <4>2, <5>1, TwoNeighbours
      <4> QED
        BY <3>2, <3>3, <4>2, <4>3
    <3> QED
      BY <3>4, <3>5
  <2> QED
    BY <1>2, <2>1, <2>2 DEF OneSlip
<1>8. b = a /\ w = x
  BY <1>2, <1>7, SymbolsAreOne
<1>9. \A k \in 1 .. n + 1 : t[k] = c[k]
  <2>1. t[n + 1] = c[n + 1]
    BY <1>4, <1>8
  <2>2. \A k \in 1 .. n : t[k] = c[k]
    BY <1>3, <1>7
  <2>3. \A k \in 1 .. n + 1 : k \in 1 .. n \/ k = n + 1
    OBVIOUS
  <2> QED
    BY <2>1, <2>2, <2>3
<1>10. c = [k \in 1 .. n + 1 |-> c[k]]
  BY <1>2
<1> QED
  BY <1>7, <1>8, <1>9, <1>10

\* One slip is caught, whatever was meant.
LEMMA SlipIsCaught ==
  ASSUME NEW a \in Digits(256), Len(a) = 16, NEW text, Accepted(text),
         OneSlip(Normalize(text), Canonical(a))
  PROVE  ParseChecked(text, AddressSymbols).bytes = a /\ Normalize(text) = Canonical(a)
<1> DEFINE t == Normalize(text)
           c == Canonical(a)
<1>1. PICK e \in Digits(32), w \in Nat : c \in Seq(Nat) /\ Spells(c, e, a, w)
  BY CanonicalIs
<1>2. \E S : t \in Seq(S)
  <2>1. Len(t) = 27 /\ Len(c) = 27
    <3>1. Len(e) = 26 /\ Len(c) = Len(e) + 1
      BY <1>1 DEF Spells
    <3> QED
      BY <3>1, ChecksPass
  <2> HIDE DEF t, c
  <2>2. CASE \E i \in DOMAIN c : t = [c EXCEPT ![i] = t[i]]
    <3>1. PICK i \in DOMAIN c : t = [c EXCEPT ![i] = t[i]]
      BY <2>2
    <3>2. PICK v : v = t[i]
      OBVIOUS
    <3>3. c \in [1 .. Len(c) -> Nat] /\ Len(c) \in Nat /\ i \in 1 .. Len(c)
      BY <1>1
    <3>4. t \in [1 .. Len(c) -> Nat \union {v}]
      BY <3>1, <3>2, <3>3
    <3>5. t \in Seq(Nat \union {v})
      BY <3>3, <3>4
    <3> QED
      BY <3>5
  <2>3. CASE \E i \in DOMAIN c : /\ i + 1 \in DOMAIN c
                                 /\ t = [c EXCEPT ![i] = c[i + 1], ![i + 1] = c[i]]
    <3>1. PICK i \in DOMAIN c, j \in DOMAIN c : t = [c EXCEPT ![i] = c[j], ![j] = c[i]]
      BY <2>3
    <3>2. c[i] \in Nat /\ c[j] \in Nat
      BY <1>1
    <3>3. t \in Seq(Nat)
      BY <1>1, <3>1, <3>2
    <3> QED
      BY <3>3
  <2>4. OneSlip(t, c)
    BY DEF t, c
  <2> QED
    BY <2>1, <2>2, <2>3, <2>4 DEF OneSlip
<1>3. PICK d \in Digits(32), b \in Digits(256), x \in Nat :
        Spells(t, d, b, x) /\ ParseChecked(text, AddressSymbols).bytes = b
  BY <1>2, TakenIs
<1>4. b = a /\ t = c
  <2>1. OneSlip(t, c)
    OBVIOUS
  <2> HIDE DEF t, c
  <2> QED
    BY <1>1, <1>3, <2>1, SlipIsNoOther
<1> QED
  BY <1>3, <1>4

(***************************************************************************)
(* The protocol.                                                           *)
(***************************************************************************)
\* An address reads back as itself: what encode_base32 writes, decode_base32 takes,
\* with no bits left over.
THEOREM AddressReadsBack ==
  ASSUME NEW a \in Digits(256), Len(a) = 16
  PROVE  Decode32(EncodeBase32(a)) = [bytes |-> a, padded |-> TRUE]
<1>1. PICK e \in Digits(32) : e = EncodeBase32(a) /\ Len(e) = 26
                              /\ Value(e, 32)[26] = 4 * Value(a, 256)[16]
  BY EncodeIs
<1>2. PICK b \in Digits(256), r \in 0 .. 3 :
        /\ Len(b) = 16 /\ Decode32(e) = [bytes |-> b, padded |-> r = 0]
        /\ Value(e, 32)[26] = 4 * Value(b, 256)[16] + r
  BY <1>1, DecodeIs
<1>3. PICK w \in Nat, x \in Nat : w = Value(a, 256)[Len(a)] /\ x = Value(b, 256)[Len(b)]
  <2>1. 256 \in Nat
    OBVIOUS
  <2> QED
    BY <2>1, NumberIn
<1>4. 4 * w = 4 * x + r
  BY <1>1, <1>2, <1>3
<1>5. w = x /\ r = 0
  BY <1>4
<1>6. a = b
  <2>1. Len(a) = Len(b) /\ Value(a, 256)[Len(a)] = Value(b, 256)[Len(b)]
    BY <1>2, <1>3, <1>5
  <2> QED
    BY <2>1, BytesAreOne
<1> QED
  BY <1>1, <1>2, <1>5, <1>6

\* One slip in any address that is typed is refused, or is none.
LEMMA SlipsAreCaught ==
  ASSUME AtMostOneSlip, NEW id \in Identities, NEW text \in Texts[id], Accepted(text)
  PROVE  /\ ParseChecked(text, AddressSymbols).bytes = Address[id]
         /\ Normalize(text) = Canonical(Address[id])
<1>1. Address[id] \in Digits(256) /\ Len(Address[id]) = 16
  BY AddressesAreBytes DEF AddressLen, Digits
<1>2. OneSlip(Normalize(text), Canonical(Address[id]))
  BY DEF AtMostOneSlip
<1> QED
  BY <1>1, <1>2, SlipIsCaught

\* The sender is on the way to whom he means.
OnTheWay ==
  /\ typed # <<>> => meant \in Identities /\ typed \in Texts[meant]
  /\ address # <<>> => meant \in Identities /\ address = Address[meant]
  /\ recipient # NoBundle => address # <<>> /\ recipient \in Bundles /\ FromBytes(recipient)

\* Until the bundle is there the address is held as it was typed.
AsTyped ==
  address # <<>> /\ recipient = NoBundle => typed # <<>> /\ Normalize(typed) = Canonical(address)

\* What the key inside an envelope was made from.
WellMade(e) ==
  /\ e.ct.for = e.sealed.dek.to
  /\ e.sealed.key[2] = {e.sealed.dek.from, e.sealed.dek.to}
  /\ e.sealed.key[3] = Address[e.sealed.dek.from]
  /\ e.sealed.key[5] = e.sealed.dek.to
  /\ e.sealed.key[6] = e.sealed.dek.row

IInv == OnTheWay /\ AsTyped /\ (\A e \in sent : WellMade(e)) /\ OpenedIsWhatWasSent

\* A bundle that was read and belongs to the address is all the keys of the one
\* who is meant.
LEMMA BundleIsTheirs ==
  ASSUME OwnersSignTheirOwn, OnTheWay, recipient # NoBundle, VerifyAddress(recipient, address)
  PROVE  recipient.root = meant /\ recipient.kem = meant /\ recipient.auth = meant
<1>1. /\ recipient \in Bundles /\ FromBytes(recipient)
      /\ meant \in Identities /\ address = Address[meant]
  BY DEF OnTheWay
<1>2. recipient.kem = recipient.root /\ recipient.auth = recipient.root
  BY <1>1, IdentitiesDiffer DEF OwnersSignTheirOwn, FromBytes
<1>3. recipient.root \in Identities
  BY <1>1, <1>2 DEF FromBytes
<1> QED
  BY <1>1, <1>2, <1>3, IdentitiesDiffer DEF VerifyAddress, AddressOfRoot

\* Wrapping binds the key to the one who is meant, the sender and the row.
LEMMA WrapIsWellMade ==
  ASSUME OwnersSignTheirOwn, OnTheWay, recipient # NoBundle, VerifyAddress(recipient, address),
         NEW from, NEW row
  PROVE  WellMade(Wrap(from, recipient, row))
BY BundleIsTheirs DEF WellMade, Wrap, WrapKey, Encapsulate, DiffieHellman, AddressOfRoot

\* A key that can be rebuilt was made for the one who rebuilds it, next to the
\* row at hand, by the sender the envelope claims.
LEMMA UnwrapIsTrue ==
  ASSUME NEW by, NEW b, NEW envelope, NEW row,
         envelope.whole => envelope.sealed \in {e.sealed : e \in sent},
         \A e \in sent : WellMade(e), Unwrap(by, b, envelope, row).why = ""
  PROVE  LET got == Unwrap(by, b, envelope, row)
         IN  got.by = got.dek.to /\ got.sender = Address[got.dek.from] /\ got.row = got.dek.row
<1> DEFINE key == WrapKey(Decapsulate(envelope.ct, by), DiffieHellman(by, b.auth),
                          envelope.sender, envelope.ct, by, row)
           got == Unwrap(by, b, envelope, row)
<1>1. /\ envelope.whole
      /\ envelope.sealed.key = key
      /\ got = [why |-> "", by |-> by, sender |-> envelope.sender, row |-> row,
                dek |-> envelope.sealed.dek]
  BY DEF Unwrap, Refused
<1> HIDE DEF got
<1>2. PICK e \in sent : e.sealed = envelope.sealed /\ WellMade(e)
  BY <1>1
<1>3. key[3] = envelope.sender /\ key[5] = by /\ key[6] = row
  BY DEF WrapKey
<1>4. got.by = by /\ got.sender = envelope.sender /\ got.row = row /\ got.dek = e.sealed.dek
  BY <1>1, <1>2
<1>5. /\ e.sealed.key[3] = Address[e.sealed.dek.from]
      /\ e.sealed.key[5] = e.sealed.dek.to
      /\ e.sealed.key[6] = e.sealed.dek.row
  BY <1>2 DEF WellMade
<1>6. e.sealed.key = key
  BY <1>1, <1>2
<1> HIDE DEF key
<1>7. got.by = got.dek.to /\ got.sender = Address[got.dek.from] /\ got.row = got.dek.row
  BY <1>3, <1>4, <1>5, <1>6
<1> QED
  BY <1>7 DEF got

\* Each step keeps the sender on the way, the envelopes well made and the last
\* opening true.
LEMMA Kept ==
  ASSUME AtMostOneSlip, OwnersSignTheirOwn PROVE SharingSpec => []IInv
<1>1. SharingInit => IInv
  <2> SUFFICES ASSUME SharingInit PROVE IInv
    OBVIOUS
  <2>1. outcome.why # ""
    BY DEF SharingInit, Refused
  <2> QED
    BY <2>1 DEF SharingInit, Rest, IInv, OnTheWay, AsTyped, OpenedIsWhatWasSent
<1>2. IInv /\ [SharingNext]_sharingvars => IInv'
  <2> SUFFICES ASSUME IInv, [SharingNext]_sharingvars PROVE IInv'
    OBVIOUS
  <2> USE DEF IInv
  <2>1. ASSUME NEW id \in Identities, NEW text \in Texts[id], Type(id, text) PROVE IInv'
    BY <2>1 DEF Type, Rest, Refused, OnTheWay, AsTyped, OpenedIsWhatWasSent, FromBytes, WellMade
  <2>2. CASE ParseAddress
    <3>1. typed # <<>> /\ meant \in Identities /\ typed \in Texts[meant] /\ recipient = NoBundle
          /\ UNCHANGED <<sent, outcome>>
      BY <2>2 DEF ParseAddress, OnTheWay
    <3>2. CASE Accepted(typed)
      <4>1. /\ address' = ParseChecked(typed, AddressSymbols).bytes
            /\ UNCHANGED <<meant, typed, recipient>>
        BY <2>2, <3>2 DEF ParseAddress, Accepted
      <4>2. address' = Address[meant] /\ Normalize(typed) = Canonical(Address[meant])
        BY <3>1, <3>2, <4>1, SlipsAreCaught
      <4> QED
        BY <3>1, <4>1, <4>2 DEF OnTheWay, AsTyped, OpenedIsWhatWasSent, WellMade
    <3>3. CASE ~ Accepted(typed)
      <4>1. Rests
        BY <2>2, <3>3 DEF ParseAddress, Accepted
      <4> QED
        BY <3>1, <4>1 DEF Rests, OnTheWay, AsTyped, OpenedIsWhatWasSent, WellMade
    <3> QED
      BY <3>2, <3>3
  <2>3. ASSUME NEW b \in Bundles, Fetch(b) PROVE IInv'
    <3>1. OnTheWay'
      BY <2>3 DEF Fetch, Rests, OnTheWay, FromBytes, VerifySelfSignature, SignedPart
    <3>2. AsTyped'
      BY <2>3, NoneIsNoBundle DEF Fetch, Rests, AsTyped
    <3> QED
      BY <2>3, <3>1, <3>2 DEF Fetch, OpenedIsWhatWasSent, WellMade
  <2>4. ASSUME NEW from \in Identities, NEW row \in Columns, Send(from, row) PROVE IInv'
    <3>1. OnTheWay' /\ AsTyped'
      BY <2>4 DEF Send, Rests, OnTheWay, AsTyped
    <3>2. \A e \in sent' : WellMade(e)
      BY <2>4, WrapIsWellMade DEF Send
    <3> QED
      BY <2>4, <3>1, <3>2 DEF Send, OpenedIsWhatWasSent, WellMade
  <2>5. ASSUME NEW b \in Bundles, OpenRow(b) PROVE IInv'
    <3>1. OnTheWay' /\ AsTyped' /\ \A e \in sent' : WellMade(e)
      BY <2>5 DEF OpenRow, Sender, OnTheWay, AsTyped, FromBytes, VerifySelfSignature, SignedPart
    <3>2. PICK by \in Identities, envelope \in Served, row \in Rows :
            outcome' = Unwrap(by, b, envelope, row)
      BY <2>5 DEF OpenRow
    <3>3. envelope.whole => envelope.sealed \in {e.sealed : e \in sent}
      <4>1. CASE envelope = [whole |-> FALSE]
        BY <4>1
      <4>2. CASE envelope \in [whole : {TRUE}, sender : {Address[id] : id \in Identities},
                               ct : {e.ct : e \in sent}, sealed : {e.sealed : e \in sent}]
        BY <4>2
      <4> QED
        BY <4>1, <4>2 DEF Served
    <3>4. OpenedIsWhatWasSent'
      <4>1. \A e \in sent : WellMade(e)
        OBVIOUS
      <4> DEFINE got == Unwrap(by, b, envelope, row)
      <4>2. got.why = "" =>
              got.by = got.dek.to /\ got.sender = Address[got.dek.from] /\ got.row = got.dek.row
        BY <3>3, <4>1, UnwrapIsTrue, Zenon
      <4>3. outcome' = got
        BY <3>2
      <4> HIDE DEF got
      <4> QED
        BY <4>2, <4>3 DEF OpenedIsWhatWasSent
    <3> QED
      BY <3>1, <3>4, <2>5 DEF OpenRow, WellMade
  <2>6. CASE UNCHANGED sharingvars
    BY <2>6 DEF sharingvars, OnTheWay, AsTyped, OpenedIsWhatWasSent, FromBytes, VerifySelfSignature, SignedPart,
       WellMade
  <2> QED
    BY <2>1, <2>2, <2>3, <2>4, <2>5, <2>6 DEF SharingNext
<1> QED
  BY <1>1, <1>2, PTL DEF SharingSpec

\* An address that was taken is the one that was meant, spelled as it is spelled,
\* whatever its bytes are and whichever symbol was hit wrong or neighbours were
\* swapped (parse_checked has no other guard than the padding and the check symbol).
THEOREM OneSlipIsTold ==
  ASSUME AtMostOneSlip, OwnersSignTheirOwn PROVE SharingSpec => []SlipIsTold
<1>1. IInv => SlipIsTold
  BY DEF IInv, OnTheWay, AsTyped, SlipIsTold
<1> QED
  BY <1>1, Kept, PTL

\* No key leaves its sender but for the one who is meant: both secrets it is
\* wrapped under are made with the keys of that identity (wrap_dek_for_as calls
\* verify_address before anything else).
THEOREM KeysReachTheOneMeant ==
  ASSUME AtMostOneSlip, OwnersSignTheirOwn PROVE SharingSpec => []OnlyTheOneMeant
<1>1. IInv => OnlyTheOneMeant
  BY DEF IInv, WellMade, OnlyTheOneMeant
<1> QED
  BY <1>1, Kept, PTL

\* An envelope that opens was made by the sender it claims, for the identity that
\* opens it, next to exactly these columns (unwrap_dek_as has no other check).
THEOREM OpenedIsGenuine ==
  ASSUME AtMostOneSlip, OwnersSignTheirOwn PROVE SharingSpec => []OpenedIsWhatWasSent
<1>1. IInv => OpenedIsWhatWasSent
  BY DEF IInv
<1> QED
  BY <1>1, Kept, PTL
=============================================================================
