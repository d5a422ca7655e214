------------------------------ MODULE PlanProofs ------------------------------
(***************************************************************************)
(* Recovery lists and the plans made of them, for any contents, versions,  *)
(* keys, names and ticks: what is sealed can be opened, the lowest version *)
(* is enough, and no two files of a plan meet on the disk.                 *)
(***************************************************************************)
EXTENDS Plan, FiniteSetTheorems, SequenceTheorems, WellFoundedInduction, TLAPS

-----------------------------------------------------------------------------
(* The version a writer stamps *)

\* Of the checks only three ask for a version, and a higher one never hurts.
LEMMA PaddingUnder ==
  ASSUME NEW w \in Nat, NEW u \in Nat, NEW item, CheckPadding(w, item),
         \A k \in DOMAIN item.parts : item.parts[k].padded # Absent => u >= WithPadding
  PROVE  CheckPadding(u, item)
BY DEF CheckPadding

LEMMA FilecoinUnder ==
  ASSUME NEW w \in Nat, NEW u \in Nat, NEW item, CheckFilecoin(w, item),
         \A k \in DOMAIN item.parts :
           OnFilecoin(item.parts[k]) \/ Carries(item.parts[k]) => u >= WithFilecoin
  PROVE  CheckFilecoin(u, item)
BY DEF CheckFilecoin

LEMMA QuiltUnder ==
  ASSUME NEW w \in Nat, NEW u \in Nat, NEW item, CheckQuiltPlacement(w, item),
         Placement(item.quilt) = "own" => u >= WithOwnQuilt
  PROVE  CheckQuiltPlacement(u, item)
BY DEF CheckQuiltPlacement

LEMMA IndexUnder ==
  ASSUME NEW w \in Nat, NEW u \in Nat, NEW item, CheckPartPlacement(w, item),
         w >= WithPartIndex
  PROVE  CheckPartPlacement(u, item)
<1> SUFFICES ASSUME NEW k \in DOMAIN item.parts
             PROVE  IF item.parts[k].index = Absent THEN u < WithPartIndex
                    ELSE item.parts[k].index = k - 1
  BY DEF CheckPartPlacement
<1>1. item.parts[k].index # Absent
  BY DEF CheckPartPlacement, WithPartIndex
<1> QED
  BY <1>1 DEF CheckPartPlacement

\* The lowest version reaches every form the contents have.
LEMMA MinimumReaches ==
  ASSUME NEW contents
  PROVE  /\ MinimumVersion(contents) \in Nat
         /\ \A i \in DOMAIN contents : \A k \in DOMAIN contents[i].parts :
              /\ OnFilecoin(contents[i].parts[k]) \/ Carries(contents[i].parts[k]) =>
                   MinimumVersion(contents) >= WithFilecoin
              /\ contents[i].parts[k].padded # Absent =>
                   MinimumVersion(contents) >= WithPadding
         /\ \A i \in DOMAIN contents :
              Placement(contents[i].quilt) = "own" => MinimumVersion(contents) >= WithOwnQuilt
<1>1. \A i \in DOMAIN contents :
        Placement(contents[i].quilt) = "own" =>
          contents[i].quilt # Absent /\ contents[i].quilt.identifier
  BY DEF Placement
<1> QED
  BY <1>1 DEF MinimumVersion, SomePart, WithFilecoin, WithPadding, WithOwnQuilt, WithPartIndex

\* What can be written under some version from 2 on can be written under the
\* lowest.
LEMMA LowestIsEnough ==
  ASSUME NEW contents, NEW w \in Nat, w >= WithPartIndex, Writes(w, contents)
  PROVE  Writes(MinimumVersion(contents), contents)
<1> DEFINE lowest == MinimumVersion(contents)
<1>1. lowest \in Nat
  BY MinimumReaches
<1>2. ASSUME NEW i \in DOMAIN contents
      PROVE  /\ CheckPartPlacement(lowest, contents[i])
             /\ CheckQuiltPlacement(lowest, contents[i])
             /\ CheckPadding(lowest, contents[i])
             /\ CheckFilecoin(lowest, contents[i])
  <2>1. /\ CheckPartPlacement(w, contents[i]) /\ CheckQuiltPlacement(w, contents[i])
        /\ CheckPadding(w, contents[i]) /\ CheckFilecoin(w, contents[i])
    BY <1>2 DEF Writes, Reads
  <2>2. CheckPartPlacement(lowest, contents[i])
    BY <1>1, <2>1, IndexUnder
  <2>3. CheckQuiltPlacement(lowest, contents[i])
    BY <1>1, <1>2, <2>1, QuiltUnder, MinimumReaches
  <2>4. CheckPadding(lowest, contents[i])
    BY <1>1, <1>2, <2>1, PaddingUnder, MinimumReaches
  <2>5. CheckFilecoin(lowest, contents[i])
    BY <1>1, <1>2, <2>1, FilecoinUnder, MinimumReaches
  <2> QED
    BY <2>2, <2>3, <2>4, <2>5
<1> QED
  BY <1>2 DEF Writes, Reads

-----------------------------------------------------------------------------
(* Places in a sequence *)

LEMMA LeastPlace ==
  ASSUME NEW S \in SUBSET Nat, S # {}
  PROVE  Min(S) \in S /\ \A j \in S : Min(S) <= j
<1> DEFINE R == OpToRel(<, Nat)
<1>1. PICK k \in S : \A j \in S : ~(<<j, k>> \in R)
  <2>1. IsWellFoundedOn(R, Nat)
    BY NatLessThanWellFounded
  <2> HIDE DEF R
  <2> QED
    BY <2>1, WFMin
<1>2. \A j \in S : ~(j < k)
  BY <1>1 DEF OpToRel
<1>3. \E m \in S : \A j \in S : m <= j
  BY <1>2
<1> QED
  BY <1>3 DEF Min

LEMMA GreatestPlace ==
  ASSUME NEW n \in Nat, NEW S \in SUBSET (0 .. n), S # {}
  PROVE  Max(S) \in S /\ \A j \in S : j <= Max(S)
<1> DEFINE T == {n - j : j \in S}
<1>1. T \in SUBSET Nat /\ T # {}
  <2>1. \A j \in S : n - j \in Nat
    OBVIOUS
  <2> QED
    BY <2>1
<1>2. PICK k \in S : n - k = Min(T)
  BY <1>1, LeastPlace
<1>3. \A j \in S : n - k <= n - j
  BY <1>1, <1>2, LeastPlace
<1>4. \A j \in S : k >= j
  BY <1>3
<1> QED
  BY <1>4 DEF Max

-----------------------------------------------------------------------------
(* Sequences *)

LEMMA Joined ==
  ASSUME NEW S, NEW a \in Seq(S), NEW b \in Seq(S)
  PROVE  /\ a \o b \in Seq(S) /\ Len(a \o b) = Len(a) + Len(b)
         /\ Len(a) \in Nat /\ Len(b) \in Nat
         /\ \A i \in 1 .. Len(a) : (a \o b)[i] = a[i]
         /\ \A i \in 1 .. Len(b) : (a \o b)[Len(a) + i] = b[i]
OBVIOUS

LEMMA CutOut ==
  ASSUME NEW S, NEW s \in Seq(S), NEW m \in Nat, NEW n \in Nat,
         1 <= m, m <= n + 1, n <= Len(s)
  PROVE  /\ SubSeq(s, m, n) \in Seq(S) /\ Len(SubSeq(s, m, n)) = n - m + 1
         /\ \A i \in 1 .. n - m + 1 : SubSeq(s, m, n)[i] = s[m + i - 1]
<1>1. Len(s) \in Nat
  OBVIOUS
<1>2. m \in 1 .. Len(s) + 1 /\ n \in m - 1 .. Len(s)
  BY <1>1
<1> QED
  BY <1>2, SubSeqProperties

LEMMA LastOfJoined ==
  ASSUME NEW S, NEW a \in Seq(S), NEW b \in Seq(S), Len(b) >= 1
  PROVE  Last(a \o b) = Last(b)
<1>1. Len(b) \in 1 .. Len(b) /\ Len(a \o b) = Len(a) + Len(b)
  BY Joined
<1>2. (a \o b)[Len(a) + Len(b)] = b[Len(b)]
  BY <1>1, Joined
<1> QED
  BY <1>1, <1>2 DEF Last

-----------------------------------------------------------------------------
(* Names *)

\* What a name that can be written is made of.
Clean == Tokens \ Forbidden

\* The end of a name without what Windows would drop.
LEMMA TrimIs ==
  ASSUME NEW t \in Seq(Clean)
  PROVE  Trim(t) \in Seq(Clean) /\ (Trim(t) # <<>> => Last(Trim(t)) \notin Trailing)
<1> DEFINE S == {0} \union {i \in DOMAIN t : t[i] \notin Trailing}
           m == Max(S)
<1>1. Len(t) \in Nat /\ DOMAIN t = 1 .. Len(t)
  OBVIOUS
<1>2. S \in SUBSET (0 .. Len(t)) /\ S # {}
  BY <1>1
<1>3. m \in S
  <2> HIDE DEF S
  <2> QED
    BY <1>1, <1>2, GreatestPlace
<1>4. m \in 0 .. Len(t)
  BY <1>2, <1>3
<1>5. m # 0 => t[m] \notin Trailing
  BY <1>3
<1>6. Trim(t) = SubSeq(t, 1, m)
  BY DEF Trim
<1> HIDE DEF m, S
<1>7. m \in Nat /\ 1 <= m + 1 /\ m <= Len(t)
  BY <1>1, <1>4
<1>8. /\ Trim(t) \in Seq(Clean) /\ Len(Trim(t)) = m
      /\ \A i \in 1 .. m : Trim(t)[i] = t[1 + i - 1]
  BY <1>6, <1>7, CutOut
<1>9. CASE m = 0
  BY <1>8, <1>9
<1>10. CASE m # 0
  <2>1. m \in 1 .. m /\ 1 + m - 1 = m
    BY <1>7, <1>10
  <2>2. Trim(t)[m] = t[m]
    BY <1>8, <2>1
  <2> QED
    BY <1>5, <1>8, <1>10, <2>2 DEF Last
<1> QED
  BY <1>9, <1>10

\* A stem is one reserved word only if the name is that word, or that word and a
\* dot.
LEMMA StemIs ==
  ASSUME NEW t \in Seq(Tokens)
  PROVE  Stem(t) = <<"CON">> <=>
           Len(t) >= 1 /\ t[1] = "CON" /\ (Len(t) = 1 \/ t[2] = ".")
<1> DEFINE D == {i - 1 : i \in {j \in DOMAIN t : t[j] = "."}}
           S == {Len(t)} \union D
           m == Min(S)
<1>1. Len(t) \in Nat /\ DOMAIN t = 1 .. Len(t)
  OBVIOUS
<1>2. S \in SUBSET Nat /\ S # {} /\ Len(t) \in S
  BY <1>1
<1>3. m \in S /\ \A j \in S : m <= j
  <2> HIDE DEF S
  <2> QED
    BY <1>2, LeastPlace
<1>4. m \in Nat /\ m <= Len(t)
  BY <1>2, <1>3
<1>5. m = Len(t) \/ t[m + 1] = "."
  <2>1. CASE m \in D
    <3>1. PICK j \in DOMAIN t : t[j] = "." /\ m = j - 1
      BY <2>1
    <3>2. j = m + 1
      BY <1>1, <3>1
    <3> QED
      BY <3>1, <3>2
  <2> QED
    BY <1>3, <2>1
<1>6. ASSUME 2 \in DOMAIN t, t[2] = "." PROVE m <= 1
  <2>1. 2 - 1 \in S
    BY <1>6
  <2> QED
    BY <1>3, <2>1
<1>7. Stem(t) = SubSeq(t, 1, m)
  BY DEF Stem
<1> HIDE DEF m, S, D
<1>8. 1 <= m + 1
  BY <1>4
<1>9. /\ Stem(t) \in Seq(Tokens) /\ Len(Stem(t)) = m
      /\ \A i \in 1 .. m : Stem(t)[i] = t[1 + i - 1]
  BY <1>4, <1>7, <1>8, CutOut
<1>10. Stem(t) = <<"CON">> <=> m = 1 /\ t[1] = "CON"
  <2>1. ASSUME Stem(t) = <<"CON">> PROVE m = 1 /\ t[1] = "CON"
    <3>1. Len(Stem(t)) = 1 /\ Stem(t)[1] = "CON"
      BY <2>1
    <3> QED
      BY <1>9, <3>1
  <2>2. ASSUME m = 1, t[1] = "CON" PROVE Stem(t) = <<"CON">>
    <3>1. Len(Stem(t)) = 1 /\ Stem(t)[1] = "CON"
      BY <1>9, <2>2
    <3> QED
      BY <1>9, <3>1
  <2> QED
    BY <2>1, <2>2
<1>11. ASSUME Len(t) >= 1, t[1] = "CON", Len(t) = 1 \/ t[2] = "." PROVE m = 1
  <2>1. m # 0
    <3>1. t[0 + 1] # "."
      BY <1>11
    <3> QED
      BY <1>4, <1>5, <1>11, <3>1
  <2>2. m <= 1
    <3>1. CASE Len(t) = 1
      BY <1>4, <3>1
    <3>2. CASE Len(t) # 1 /\ t[2] = "."
      <4>1. 2 \in DOMAIN t
        BY <1>1, <1>11, <3>2
      <4> QED
        BY <1>6, <3>2, <4>1
    <3> QED
      BY <1>11, <3>1, <3>2
  <2> QED
    BY <1>4, <2>1, <2>2
<1>12. ASSUME m = 1 PROVE Len(t) >= 1 /\ (Len(t) = 1 \/ t[2] = ".")
  <2>1. Len(t) >= 1
    BY <1>4, <1>12
  <2>2. Len(t) = 1 \/ t[1 + 1] = "."
    BY <1>5, <1>12
  <2> QED
    BY <2>1, <2>2
<1> QED
  BY <1>10, <1>11, <1>12

\* A name that may be written: of clean tokens, with an end that stays and a
\* beginning that is no reserved word.
LEMMA WritableIs ==
  ASSUME NEW t \in Seq(Clean)
  PROVE  Writable(t) <=>
           /\ Len(t) >= 1 /\ Last(t) \notin Trailing
           /\ ~(t[1] = "CON" /\ (Len(t) = 1 \/ t[2] = "."))
<1>1. Len(t) \in Nat /\ (t # <<>> <=> Len(t) >= 1)
  OBVIOUS
<1>2. \A i \in DOMAIN t : t[i] \in Clean
  OBVIOUS
<1>3. \A i \in DOMAIN t : t[i] \notin Forbidden
  BY <1>2 DEF Clean
<1>4. t \in Seq(Tokens)
  <2>1. \A i \in 1 .. Len(t) : t[i] \in Tokens
    BY <1>2 DEF Clean
  <2> QED
    BY <2>1
<1> QED
  BY <1>1, <1>3, <1>4, StemIs DEF Writable

LEMMA WritableIsClean ==
  ASSUME NEW t \in Seq(Tokens), Writable(t)
  PROVE  t \in Seq(Clean)
<1>1. \A i \in 1 .. Len(t) : t[i] \in Clean
  BY DEF Writable, Clean
<1> QED
  BY <1>1

LEMMA CleanTokens ==
  /\ "underscore" \in Clean /\ "underscore" \notin Trailing /\ "space" \in Clean
  /\ \A n \in DOMAIN Marks : Marks[n] \in Clean /\ Marks[n] \notin Trailing
<1>1. \A n \in DOMAIN Marks : Marks[n] \in {"(1)", "(2)", "(3)", "(4)"} /\ Marks[n] \in Tokens
  BY DEF Marks, Tokens
<1> QED
  BY <1>1 DEF Clean, Tokens, Forbidden, Trailing

LEMMA OneToken ==
  ASSUME NEW x \in Clean
  PROVE  <<x>> \in Seq(Clean) /\ Len(<<x>>) = 1 /\ <<x>>[1] = x /\ Last(<<x>>) = x
BY DEF Last

\* safe_segment gives a name every desktop can write, whatever it was given.
LEMMA SafeIs ==
  ASSUME NEW seg \in Seq(Tokens)
  PROVE  Safe(seg) \in Seq(Clean) /\ Writable(Safe(seg))
<1> DEFINE cleaned == [i \in DOMAIN seg |-> IF seg[i] \in Forbidden THEN "underscore" ELSE seg[i]]
           trimmed == Trim(cleaned)
           out == IF trimmed = <<>> THEN <<"underscore">> ELSE trimmed
           full == <<"underscore">> \o out
<1>1. cleaned \in Seq(Clean)
  <2>1. \A i \in DOMAIN seg : cleaned[i] \in Clean
    BY CleanTokens DEF Clean
  <2>2. cleaned \in [1 .. Len(seg) -> Clean] /\ Len(seg) \in Nat
    BY <2>1
  <2> HIDE DEF cleaned
  <2> QED
    BY <2>2
<1> HIDE DEF cleaned
<1>2. trimmed \in Seq(Clean) /\ (trimmed # <<>> => Last(trimmed) \notin Trailing)
  BY <1>1, TrimIs
<1> HIDE DEF trimmed
<1>3. out \in Seq(Clean) /\ Len(out) \in Nat /\ Len(out) >= 1 /\ Last(out) \notin Trailing
  <2>1. CASE trimmed = <<>>
    BY <2>1, CleanTokens, OneToken
  <2>2. CASE trimmed # <<>>
    <3>1. Len(trimmed) \in Nat /\ Len(trimmed) >= 1
      BY <1>2, <2>2
    <3> QED
      BY <1>2, <2>2, <3>1
  <2> QED
    BY <2>1, <2>2
<1>4. Safe(seg) = IF Stem(out) = <<"CON">> THEN full ELSE out
  BY DEF Safe, cleaned, trimmed
<1> HIDE DEF out
<1>5. CASE Stem(out) # <<"CON">>
  <2>1. \A i \in DOMAIN out : out[i] \in Clean
    BY <1>3
  <2>2. \A i \in DOMAIN out : out[i] \notin Forbidden
    BY <2>1 DEF Clean
  <2>3. out # <<>>
    BY <1>3
  <2> QED
    BY <1>3, <1>4, <1>5, <2>2, <2>3 DEF Writable
<1>6. full \in Seq(Clean) /\ Len(full) >= 1 /\ full[1] = "underscore" /\ Last(full) \notin Trailing
  <2>1. /\ <<"underscore">> \in Seq(Clean) /\ Len(<<"underscore">>) = 1
        /\ <<"underscore">>[1] = "underscore"
    BY CleanTokens, OneToken
  <2>2. Last(full) = Last(out)
    BY <1>3, <2>1, LastOfJoined
  <2>3. full \in Seq(Clean) /\ Len(full) = 1 + Len(out) /\ full[1] = "underscore"
    BY <1>3, <2>1, Joined
  <2> QED
    BY <1>3, <2>2, <2>3
<1> HIDE DEF full
<1>7. Writable(full)
  <2>1. "underscore" # "CON"
    OBVIOUS
  <2> QED
    BY <1>6, <2>1, WritableIs
<1> QED
  BY <1>4, <1>5, <1>6, <1>7

\* A number before the extension leaves a name that can be written one.
LEMMA MarkedIs ==
  ASSUME NEW name \in Seq(Clean), Writable(name), NEW n \in DOMAIN Marks,
         NEW cut \in Nat, 2 <= cut, cut <= Len(name) + 1
  PROVE  LET new == SubSeq(name, 1, cut - 1) \o <<"space", Marks[n]>>
                    \o SubSeq(name, cut, Len(name))
         IN  new \in Seq(Clean) /\ Writable(new)
<1> DEFINE front == SubSeq(name, 1, cut - 1)
           ext == SubSeq(name, cut, Len(name))
           mark == <<"space", Marks[n]>>
           both == front \o mark
           new == both \o ext
<1>1. /\ Len(name) \in Nat /\ Len(name) >= 1 /\ Last(name) \notin Trailing
      /\ ~(name[1] = "CON" /\ (Len(name) = 1 \/ name[2] = "."))
  BY WritableIs
<1>2. front \in Seq(Clean) /\ Len(front) = cut - 1 /\ \A i \in 1 .. cut - 1 : front[i] = name[i]
  <2>1. cut - 1 \in Nat /\ 1 <= (cut - 1) + 1 /\ cut - 1 <= Len(name) /\ (cut - 1) - 1 + 1 = cut - 1
    BY <1>1
  <2>2. /\ front \in Seq(Clean) /\ Len(front) = cut - 1
        /\ \A i \in 1 .. cut - 1 : front[i] = name[1 + i - 1]
    BY <2>1, CutOut
  <2>3. \A i \in 1 .. cut - 1 : 1 + i - 1 = i
    OBVIOUS
  <2> QED
    BY <2>2, <2>3
<1>3. ext \in Seq(Clean) /\ Len(ext) = Len(name) - cut + 1
  BY <1>1, CutOut
<1>4. Len(ext) >= 1 => Last(ext) = Last(name)
  <2> SUFFICES ASSUME Len(ext) >= 1 PROVE Last(ext) = Last(name)
    OBVIOUS
  <2> DEFINE l == Len(name) - cut + 1
  <2>1. l \in 1 .. Len(name) - cut + 1 /\ cut + l - 1 = Len(name)
    BY <1>1, <1>3
  <2>2. ext[l] = name[cut + l - 1]
    <3> HIDE DEF l
    <3> QED
      BY <1>1, <2>1, CutOut
  <2> QED
    BY <1>3, <2>1, <2>2 DEF Last
<1>5. mark \in Seq(Clean) /\ Len(mark) = 2 /\ mark[1] = "space" /\ Last(mark) \notin Trailing
  <2>1. "space" \in Clean /\ Marks[n] \in Clean /\ Marks[n] \notin Trailing
    BY CleanTokens
  <2>2. mark[2] = Marks[n]
    OBVIOUS
  <2> QED
    BY <2>1, <2>2 DEF Last
<1> HIDE DEF front, ext, mark
<1>15. front \in Seq(Clean) /\ mark \in Seq(Clean)
  BY <1>2, <1>5
<1>16. /\ both \in Seq(Clean) /\ Len(both) = Len(front) + Len(mark)
       /\ \A i \in 1 .. Len(front) : both[i] = front[i]
       /\ \A i \in 1 .. Len(mark) : both[Len(front) + i] = mark[i]
  BY <1>15, Joined
<1>8. Last(both) \notin Trailing
  <2>1. Last(both) = Last(mark)
    <3>1. Len(mark) >= 1
      BY <1>5
    <3> QED
      BY <1>15, <3>1, LastOfJoined
  <2> QED
    BY <1>5, <2>1
<1> HIDE DEF both
<1>6. /\ both \in Seq(Clean) /\ Len(both) = cut + 1
      /\ \A i \in 1 .. cut - 1 : both[i] = name[i]
  <2>1. Len(both) = cut + 1
    <3>1. Len(both) = Len(front) + Len(mark)
      BY <1>16
    <3>2. Len(front) = cut - 1 /\ Len(mark) = 2
      BY <1>2, <1>5
    <3> QED
      BY <3>1, <3>2
  <2> QED
    BY <1>2, <1>16, <2>1
<1>7. both[cut] = "space"
  <2>1. 1 \in 1 .. Len(mark) /\ Len(front) + 1 = cut
    BY <1>2, <1>5
  <2>2. both[Len(front) + 1] = mark[1]
    BY <1>16, <2>1
  <2> QED
    BY <1>5, <2>1, <2>2
<1>9. new \in Seq(Clean) /\ Len(new) = Len(both) + Len(ext) /\ Len(new) >= 3
  <2>1. new \in Seq(Clean) /\ Len(new) = Len(both) + Len(ext) /\ Len(ext) \in Nat
    BY <1>3, <1>6, Joined
  <2> QED
    BY <1>6, <2>1
<1>10. \A i \in 1 .. cut + 1 : new[i] = both[i]
  BY <1>3, <1>6, Joined
<1>11. Last(new) \notin Trailing
  <2>1. CASE Len(ext) >= 1
    BY <1>1, <1>3, <1>4, <1>6, <2>1, LastOfJoined
  <2>2. CASE ~(Len(ext) >= 1)
    <3>1. Len(ext) = 0
      BY <1>3, <2>2
    <3>2. new = both
      BY <1>3, <1>6, <3>1
    <3> QED
      BY <1>8, <3>2
  <2> QED
    BY <2>1, <2>2
<1> HIDE DEF new
<1>12. new[1] = name[1]
  <2>1. 1 \in 1 .. cut - 1 /\ 1 \in 1 .. cut + 1
    OBVIOUS
  <2> QED
    BY <1>6, <1>10, <2>1
<1>13. new[2] = "." => name[2] = "."
  <2>1. 2 \in 1 .. cut + 1
    OBVIOUS
  <2>2. CASE cut = 2
    BY <1>7, <1>10, <2>1, <2>2
  <2>3. CASE cut # 2
    <3>1. 2 \in 1 .. cut - 1
      BY <2>3
    <3> QED
      BY <1>6, <1>10, <2>1, <3>1
  <2> QED
    BY <2>2, <2>3
<1>14. Writable(new)
  <2>1. Len(new) >= 1 /\ Len(new) # 1
    BY <1>9
  <2> QED
    BY <1>1, <1>9, <1>11, <1>12, <1>13, <2>1, WritableIs
<1> QED
  BY <1>9, <1>14 DEF new, both, front, ext, mark

\* A path below the folder, every part of which can be written.
Path(dest) ==
  dest \in Seq(Seq(Clean)) /\ Len(dest) >= 1 /\ \A k \in DOMAIN dest : Writable(dest[k])

\* What deduplicate tries in the place of a path is one.
LEMMA NumberedIs ==
  ASSUME NEW dest, Path(dest), NEW n \in DOMAIN Marks
  PROVE  Path(Numbered(dest, n))
<1> DEFINE name == Last(dest)
           dots == {0} \union {i \in DOMAIN name : name[i] = "."}
           dot == Max(dots)
           cut == IF dot > 1 THEN dot ELSE Len(name) + 1
           new == SubSeq(name, 1, cut - 1) \o <<"space", Marks[n]>> \o SubSeq(name, cut, Len(name))
           front == Front(dest)
<1>1. /\ dest \in Seq(Seq(Clean)) /\ Len(dest) \in Nat /\ Len(dest) >= 1
      /\ DOMAIN dest = 1 .. Len(dest)
  BY DEF Path
<1>2. name \in Seq(Clean) /\ Writable(name)
  <2>1. Len(dest) \in DOMAIN dest
    BY <1>1
  <2> QED
    BY <1>1, <2>1 DEF Path, Last
<1>3. Numbered(dest, n) = Append(front, new)
  BY DEF Numbered
<1> HIDE DEF name
<1>4. Len(name) \in Nat /\ DOMAIN name = 1 .. Len(name) /\ Len(name) >= 1
  BY <1>2, WritableIs
<1>5. dot \in 0 .. Len(name)
  <2>1. dots \in SUBSET (0 .. Len(name)) /\ dots # {}
    BY <1>4
  <2> HIDE DEF dots
  <2> QED
    BY <1>4, <2>1, GreatestPlace
<1> HIDE DEF dots, dot
<1>6. cut \in Nat /\ 2 <= cut /\ cut <= Len(name) + 1
  BY <1>4, <1>5
<1> HIDE DEF cut
<1>7. new \in Seq(Clean) /\ Writable(new)
  BY <1>2, <1>6, MarkedIs
<1> HIDE DEF new
<1>8. /\ front \in Seq(Seq(Clean)) /\ Len(front) = Len(dest) - 1
      /\ \A k \in 1 .. Len(dest) - 1 : front[k] = dest[k]
  <2>1. front = SubSeq(dest, 1, Len(dest) - 1)
    BY DEF Front
  <2> DEFINE l == Len(dest) - 1
             T == Seq(Clean)
  <2>2. l \in Nat /\ 1 <= l + 1 /\ l <= Len(dest)
    BY <1>1
  <2>3. dest \in Seq(T)
    BY <1>1
  <2> HIDE DEF l, T
  <2>4. /\ SubSeq(dest, 1, l) \in Seq(T) /\ Len(SubSeq(dest, 1, l)) = l - 1 + 1
        /\ \A k \in 1 .. l - 1 + 1 : SubSeq(dest, 1, l)[k] = dest[1 + k - 1]
    BY <2>2, <2>3, CutOut
  <2>5. l - 1 + 1 = l /\ \A k \in 1 .. l : 1 + k - 1 = k
    BY <2>2
  <2> QED
    BY <2>1, <2>4, <2>5 DEF l, T
<1> HIDE DEF front
<1>9. /\ Append(front, new) \in Seq(Seq(Clean)) /\ Len(Append(front, new)) = Len(dest)
      /\ \A k \in 1 .. Len(dest) - 1 : Append(front, new)[k] = front[k]
      /\ Append(front, new)[Len(dest)] = new
  <2> DEFINE T == Seq(Clean)
  <2> HIDE DEF T
  <2>1. front \in Seq(T) /\ new \in T /\ Len(front) = Len(dest) - 1 /\ Len(dest) \in Nat
    BY <1>1, <1>7, <1>8 DEF T
  <2>2. /\ Append(front, new) \in Seq(T) /\ Len(Append(front, new)) = Len(dest)
        /\ \A k \in 1 .. Len(dest) - 1 : Append(front, new)[k] = front[k]
        /\ Append(front, new)[Len(dest)] = new
    BY <2>1
  <2> QED
    BY <2>2 DEF T
<1>10. \A k \in 1 .. Len(dest) : Writable(Append(front, new)[k])
  <2> TAKE k \in 1 .. Len(dest)
  <2>1. CASE k = Len(dest)
    BY <1>7, <1>9, <2>1
  <2>2. CASE k # Len(dest)
    <3>1. k \in 1 .. Len(dest) - 1 /\ k \in DOMAIN dest
      <4> DEFINE l == Len(dest)
      <4>1. l \in Nat /\ k \in 1 .. l /\ k # l /\ DOMAIN dest = 1 .. l
        BY <1>1, <2>2
      <4> HIDE DEF l
      <4>2. k \in 1 .. l - 1
        BY <4>1
      <4> QED
        BY <4>1, <4>2 DEF l
    <3> QED
      BY <1>8, <1>9, <3>1 DEF Path
  <2> QED
    BY <2>1, <2>2
<1>11. DOMAIN Append(front, new) = 1 .. Len(dest)
  BY <1>9
<1> QED
  BY <1>1, <1>3, <1>9, <1>10, <1>11 DEF Path

-----------------------------------------------------------------------------
(* The invariant *)

\* What was refused, sealed and not opened was so for a reason.
ListHistory ==
  /\ stage \in {"write", "refused"} => sealed = Absent
  /\ stage = "refused" => ~Writes(v, items)
  /\ sealed # Absent =>
       /\ Writes(v, items)
       /\ \E magic \in BOOLEAN : sealed = Envelope(key, "recovery-map", magic, v, items)
  /\ stage = "unreadable" => ~(Opens(key, shown) /\ Reads(shown.v, shown.items))

\* What is opened is a list that was made of the contents, and reads; nothing is
\* planned before, and what is to be planned is one of its items.
Opened ==
  /\ items \in Contents
  /\ stage = "opened" =>
       /\ shown.items = items /\ Reads(shown.v, shown.items)
       /\ todo \subseteq Nat /\ \A k \in todo : rows[k] \in DOMAIN shown.items
  /\ stage # "opened" => todo = {} /\ planned = <<>>
  /\ stage = "shown" =>
       \/ shown \in {Broken, Stream}
       \/ \E k \in Keys, label \in {"recovery-map", "dek-wrap"}, magic \in BOOLEAN :
            shown = Envelope(k, label, magic, v, items)

\* A destination is taken when a planned item has it, and only then; every one is
\* a path below the folder.
PlanHistory ==
  /\ planned \in Seq({planned[i] : i \in DOMAIN planned})
  /\ taken = {planned[i].dest : i \in DOMAIN planned}
  /\ NoTwoShare
  /\ \A i \in DOMAIN planned : Path(planned[i].dest)

IInv ==
  /\ v \in Stamps /\ key \in Keys
  /\ ListHistory /\ Opened /\ PlanHistory /\ EveryPartHasAnAddress

LEMMA InvInit == Init => IInv
<1> SUFFICES ASSUME Init PROVE IInv
  OBVIOUS
<1>1. DOMAIN planned = {} /\ planned = <<>>
  BY DEF Init, PlanInit
<1> QED
  BY <1>1 DEF Init, ListInit, PlanInit, IInv, ListHistory, Opened, PlanHistory, NoTwoShare,
              EveryPartHasAnAddress

\* What the list's own steps do to it.
LEMMA ListKeeps ==
  ASSUME IInv, ListNext
  PROVE  v' \in Stamps /\ key' \in Keys /\ ListHistory'
<1>1. CASE Encrypt
  BY <1>1 DEF IInv, ListHistory, Encrypt
<1>2. CASE EncryptRefuses
  BY <1>2 DEF IInv, ListHistory, EncryptRefuses
<1>3. CASE Show
  BY <1>3 DEF IInv, ListHistory, Show
<1>4. CASE Decrypt
  BY <1>4 DEF IInv, ListHistory, Decrypt
<1>5. CASE DecryptRefuses
  BY <1>5 DEF IInv, ListHistory, DecryptRefuses, Opens
<1> QED
  BY <1>1, <1>2, <1>3, <1>4, <1>5 DEF ListNext

\* Before a list is opened nothing is planned of it.
LEMMA BeforeKeeps ==
  ASSUME IInv, Encrypt \/ EncryptRefuses \/ Show \/ DecryptRefuses, UNCHANGED planvars
  PROVE  Opened'
<1>1. CASE Encrypt
  BY <1>1 DEF IInv, Opened, Encrypt, planvars
<1>2. CASE EncryptRefuses
  BY <1>2 DEF IInv, Opened, EncryptRefuses, planvars
<1>3. CASE Show
  <2>1. /\ stage' = "shown" /\ stage \in {"sealed", "refused"}
        /\ UNCHANGED <<items, v, key, sealed>>
        /\ \/ shown' \in {Broken, Stream}
           \/ sealed # Absent /\ shown' = sealed
           \/ \E k \in Keys, label \in {"recovery-map", "dek-wrap"} :
                shown' = Envelope(k, label, FALSE, v, items)
    BY <1>3 DEF Show
  <2>2. sealed # Absent =>
          \E magic \in BOOLEAN : sealed = Envelope(key, "recovery-map", magic, v, items)
    BY DEF IInv, ListHistory
  <2>3. key \in Keys
    BY DEF IInv
  <2>4. \/ shown' \in {Broken, Stream}
        \/ \E k \in Keys, label \in {"recovery-map", "dek-wrap"}, magic \in BOOLEAN :
             shown' = Envelope(k, label, magic, v, items)
    BY <2>1, <2>2, <2>3
  <2> QED
    BY <2>1, <2>4 DEF IInv, Opened, planvars, Envelope
<1>4. CASE DecryptRefuses
  BY <1>4 DEF IInv, Opened, DecryptRefuses, planvars
<1> QED
  BY <1>1, <1>2, <1>3, <1>4

\* The rows that are gone through are rows of the list.
LEMMA OpenKeeps ==
  ASSUME IInv, OpenAndAsk
  PROVE  Opened' /\ planned' = <<>>
<1>1. /\ stage = "shown" /\ stage' = "opened" /\ Opens(key, shown) /\ Reads(shown.v, shown.items)
      /\ UNCHANGED <<items, v, key, sealed, shown, taken, planned>>
  BY DEF OpenAndAsk, Decrypt
<1>2. shown.items = items
  <2>1. shown \notin {Broken, Stream}
    BY <1>1 DEF Opens, Broken, Stream
  <2> QED
    BY <1>1, <2>1 DEF IInv, Opened, Envelope
<1>3. Len(items) \in Nat /\ DOMAIN items = 1 .. Len(items)
  BY PlanAssumption DEF PlanAssumption, IInv, Opened
<1>4. todo' \subseteq Nat /\ \A k \in todo' : rows'[k] \in DOMAIN items
  <2>1. CASE /\ rows' = [i \in DOMAIN shown.items |-> i]
             /\ \/ todo' = DOMAIN shown.items
                \/ \E needle \in Needles : todo' = Matching(shown.items, needle)
    <3>1. todo' \subseteq DOMAIN items
      BY <1>2, <2>1 DEF Matching
    <3> QED
      BY <1>2, <1>3, <2>1, <3>1
  <2>2. ASSUME NEW ticks \in Ticks, rows' = [k \in DOMAIN ticks |-> ticks[k] + 1],
               todo' = Real(shown.items, ticks)
        PROVE  todo' \subseteq Nat /\ \A k \in todo' : rows'[k] \in DOMAIN items
    <3>1. ticks \in Seq(Nat)
      BY PlanAssumption DEF PlanAssumption
    <3>2. ASSUME NEW k \in todo' PROVE k \in Nat /\ rows'[k] \in DOMAIN items
      <4>1. k \in DOMAIN ticks /\ ticks[k] < Len(items)
        BY <1>2, <2>2 DEF Real
      <4>2. k \in Nat /\ ticks[k] \in Nat
        BY <3>1, <4>1
      <4>3. rows'[k] = ticks[k] + 1
        BY <2>2, <4>1
      <4> QED
        BY <1>3, <4>1, <4>2, <4>3
    <3> QED
      BY <3>2
  <2> QED
    BY <2>1, <2>2 DEF OpenAndAsk
<1> QED
  BY <1>1, <1>2, <1>4 DEF IInv, Opened

\* The name that deduplicate settles on is one that nothing else claimed.
LEMMA DeduplicatedIsFree ==
  ASSUME NEW dest, dest \in taken => FreeNumbers(dest) # {}
  PROVE  /\ Deduplicate(dest) \notin taken
         /\ Path(dest) => Path(Deduplicate(dest))
<1>1. CASE dest \notin taken
  BY <1>1 DEF Deduplicate
<1>2. CASE dest \in taken
  <2>1. FreeNumbers(dest) \in SUBSET Nat /\ FreeNumbers(dest) # {}
    BY <1>2 DEF FreeNumbers
  <2>2. Min(FreeNumbers(dest)) \in FreeNumbers(dest)
    BY <2>1, LeastPlace
  <2>3. FreeNumbers(dest) \subseteq DOMAIN Marks
    BY DEF FreeNumbers, Marks
  <2> QED
    BY <1>2, <2>2, <2>3, NumberedIs DEF Deduplicate, FreeNumbers
<1> QED
  BY <1>1, <1>2

\* An item's own path and name lead below the folder.
LEMMA DestinationIs ==
  ASSUME NEW list \in Contents, NEW i \in DOMAIN list
  PROVE  Path(Destination(list[i]))
<1> DEFINE item == list[i]
           o == Original(item)
           d == Destination(item)
           T == Seq(Tokens)
<1>1. item.name \in T /\ item.path \in Seq(T \ {<<>>})
  BY PlanAssumption DEF PlanAssumption
<1>2. o = Append(item.path, item.name) /\ d = [k \in DOMAIN o |-> Safe(o[k])]
  BY DEF Original, Destination
<1> HIDE DEF item, o, d, T
<1>3. item.path \in Seq(T)
  BY <1>1
<1>4. o \in Seq(T) /\ Len(o) \in Nat /\ Len(o) >= 1
  BY <1>1, <1>2, <1>3
<1>5. \A k \in DOMAIN o : Safe(o[k]) \in Seq(Clean) /\ Writable(Safe(o[k]))
  BY <1>4, SafeIs DEF T
<1>6. d \in [1 .. Len(o) -> Seq(Clean)]
  BY <1>2, <1>4, <1>5
<1>7. d \in Seq(Seq(Clean)) /\ Len(d) = Len(o) /\ DOMAIN d = DOMAIN o
  <2> DEFINE C == Seq(Clean)
  <2>1. d \in [1 .. Len(o) -> C]
    BY <1>6
  <2> HIDE DEF C
  <2>2. d \in Seq(C) /\ Len(d) = Len(o) /\ DOMAIN d = DOMAIN o
    BY <1>4, <2>1
  <2> QED
    BY <2>2 DEF C
<1>8. \A k \in DOMAIN d : Writable(d[k])
  BY <1>2, <1>5, <1>7
<1> QED
  BY <1>4, <1>7, <1>8 DEF Path, d, item

\* What a part is asked for as, going by PlannedItem::refs alone.
LEMMA WhyThisAddress ==
  ASSUME NEW item, NEW part
  PROVE  LET kind == RefOf(item, part).kind IN
         /\ kind = "UnknownNetwork" =>
              \/ NetworkName(part) \notin KnownNetworks
              \/ OnFilecoin(part) /\ Absent \in {part.blob, part.chain, part.copies}
         /\ kind = "OwnQuiltUnknown" =>
              \/ bundle = Absent /\ Placement(item.quilt) = "own"
              \/ /\ ~OnFilecoin(part) /\ part.blob = Absent
                 /\ Placement(item.quilt) = "own" => Len(item.parts) # 1
         /\ kind = "piece" => OnFilecoin(part)
         /\ kind = "whole" =>
              Len(item.parts) # 1 \/ Placement(item.quilt) \notin {"absolute", "own"}
<1> DEFINE form == IF Len(item.parts) = 1 THEN Placement(item.quilt) ELSE "none"
<1>1. CASE NetworkName(part) \notin KnownNetworks
  BY <1>1 DEF RefOf, Ref
<1>2. CASE NetworkName(part) \in KnownNetworks /\ OnFilecoin(part)
  BY <1>2 DEF RefOf, Ref
<1>3. CASE NetworkName(part) \in KnownNetworks /\ ~OnFilecoin(part)
  <2>1. CASE form = "absolute"
    BY <1>3, <2>1 DEF RefOf, Ref
  <2>2. CASE form = "own"
    BY <1>3, <2>2 DEF RefOf, Ref
  <2>3. CASE form \notin {"absolute", "own"}
    <3>1. RefOf(item, part) = Ref(IF part.blob = Absent THEN "OwnQuiltUnknown" ELSE "whole", part)
      BY <1>3, <2>3 DEF RefOf
    <3> QED
      BY <1>3, <2>3, <3>1 DEF Ref
  <2> QED
    BY <2>1, <2>2, <2>3
<1> QED
  BY <1>1, <1>2, <1>3

\* A sequence with a place in it has one or more.
LEMMA PlacedMeansLonger ==
  ASSUME NEW S, NEW s \in Seq(S), NEW k \in DOMAIN s, Len(s) # 1
  PROVE  Len(s) > 1
<1>1. Len(s) \in Nat /\ k \in 1 .. Len(s)
  OBVIOUS
<1>2. ASSUME NEW n \in Nat, k \in 1 .. n, n # 1 PROVE n > 1
  BY <1>2
<1> QED
  BY <1>1, <1>2

\* The checks of the list leave only what is the reader's, and the one form that
\* they do not look at.
LEMMA AddressOfRead ==
  ASSUME NEW list \in Contents, NEW w, Reads(w, list), NEW i \in DOMAIN list,
         NEW k \in DOMAIN list[i].parts
  PROVE  Addressed(list[i], list[i].parts[k], RefOf(list[i], list[i].parts[k]).kind)
<1> DEFINE item == list[i]
           part == item.parts[k]
<1>1. CheckQuiltPlacement(w, item) /\ CheckFilecoin(w, item)
  BY DEF Reads
<1>2. OnFilecoin(part) =>
        item.quilt = Absent /\ Absent \notin {part.blob, part.chain, part.copies}
  <2> SUFFICES ASSUME OnFilecoin(part)
               PROVE  item.quilt = Absent /\ Absent \notin {part.blob, part.chain, part.copies}
    OBVIOUS
  <2>1. /\ part.chain \in {"calibration", "mainnet"} /\ item.quilt = Absent
        /\ part.blob # Absent /\ part.copies # Absent
    BY <1>1 DEF CheckFilecoin
  <2> QED
    BY <2>1, ListAssumption DEF ListAssumption
<1>3. /\ Placement(item.quilt) # "own" => part.blob # Absent
      /\ Placement(item.quilt) = "own" => Len(item.parts) = 1
      /\ item.quilt = Absent \/ Placement(item.quilt) \in {"absolute", "own"}
  BY <1>1 DEF CheckQuiltPlacement, Placement
<1>4. Len(item.parts) # 1 => Len(item.parts) > 1
  <2>1. item.parts \in Seq(Parts)
    BY ListAssumption DEF ListAssumption
  <2> QED
    BY <2>1, PlacedMeansLonger
<1> QED
  BY <1>2, <1>3, <1>4, WhyThisAddress DEF Addressed

\* The next item gets a destination and addresses; the rest stays as it was.
LEMMA PlanItemKeeps ==
  ASSUME IInv, PlanItem
  PROVE  Opened' /\ PlanHistory' /\ EveryPartHasAnAddress'
<1> DEFINE item == shown.items[rows[Min(todo)]]
           dest == Deduplicate(Destination(item))
           entry == [item |-> item, dest |-> dest, refs |-> Refs(item),
                     renamed |-> Destination(item) # Original(item)]
           All == {planned[i] : i \in DOMAIN planned} \union {entry}
<1>1. /\ taken' = taken \union {dest} /\ planned' = Append(planned, entry)
      /\ todo' = todo \ {Min(todo)} /\ todo # {}
      /\ UNCHANGED <<bundle, rows, listvars>>
  BY DEF PlanItem
<1>2. /\ stage = "opened" /\ items \in Contents /\ shown.items = items
      /\ Reads(shown.v, items) /\ todo \in SUBSET Nat
      /\ \A k \in todo : rows[k] \in DOMAIN items
  BY <1>1 DEF IInv, Opened
<1>3. rows[Min(todo)] \in DOMAIN items /\ item = items[rows[Min(todo)]]
  <2>1. Min(todo) \in todo
    BY <1>1, <1>2, LeastPlace
  <2> QED
    BY <1>2, <2>1
<1>4. dest \notin taken /\ Path(dest)
  <2>1. Path(Destination(item))
    BY <1>2, <1>3, DestinationIs
  <2>2. Destination(item) \in taken => FreeNumbers(Destination(item)) # {}
    BY DEF PlanItem
  <2> HIDE DEF item
  <2> QED
    BY <2>1, <2>2, DeduplicatedIsFree
<1>5. Opened'
  <2>1. stage' = stage /\ items' = items /\ shown' = shown /\ rows' = rows
    BY <1>1 DEF listvars
  <2>2. todo' \subseteq todo
    BY <1>1
  <2> QED
    BY <1>2, <2>1, <2>2 DEF Opened
<1>6. \A k \in DOMAIN Refs(item) : Addressed(item, item.parts[k], Refs(item)[k].kind)
  <2> DEFINE i == rows[Min(todo)]
  <2>1. i \in DOMAIN items /\ item = items[i]
    BY <1>3
  <2> HIDE DEF item, i
  <2> QED
    BY <1>2, <2>1, AddressOfRead DEF Refs
<1>7. planned \in Seq(All) /\ entry \in All
  BY DEF IInv, PlanHistory
<1>8. entry.dest = dest /\ entry.item = item /\ entry.refs = Refs(item)
  OBVIOUS
<1> HIDE DEF dest, item, entry
<1>9. /\ planned' \in Seq(All)
      /\ Len(planned) \in Nat /\ Len(planned') = Len(planned) + 1
      /\ DOMAIN planned = 1 .. Len(planned) /\ DOMAIN planned' = 1 .. Len(planned) + 1
      /\ \A i \in DOMAIN planned : planned'[i] = planned[i]
      /\ planned'[Len(planned) + 1] = entry
  BY <1>1, <1>7
<1> HIDE DEF All
<1>10. \A i \in DOMAIN planned' :
         (i \in DOMAIN planned /\ planned'[i] = planned[i]) \/ planned'[i] = entry
  BY <1>9
<1>11. planned' \in Seq({planned'[i] : i \in DOMAIN planned'})
  BY <1>9
<1>12. taken' = {planned'[i].dest : i \in DOMAIN planned'}
  BY <1>1, <1>8, <1>9 DEF IInv, PlanHistory
<1>13. NoTwoShare'
  BY <1>4, <1>8, <1>9 DEF IInv, PlanHistory, NoTwoShare
<1>14. \A i \in DOMAIN planned' : Path(planned'[i].dest)
  BY <1>4, <1>8, <1>10 DEF IInv, PlanHistory
<1>15. EveryPartHasAnAddress'
  <2> SUFFICES ASSUME NEW i \in DOMAIN planned', NEW k \in DOMAIN planned'[i].refs
               PROVE  Addressed(planned'[i].item, planned'[i].item.parts[k],
                                planned'[i].refs[k].kind)
    BY <1>1 DEF EveryPartHasAnAddress, Addressed
  <2>1. CASE i \in DOMAIN planned /\ planned'[i] = planned[i]
    BY <2>1 DEF IInv, EveryPartHasAnAddress
  <2>2. CASE planned'[i] = entry
    BY <1>6, <1>8, <2>2
  <2> QED
    BY <1>10, <2>1, <2>2
<1> QED
  BY <1>5, <1>11, <1>12, <1>13, <1>14, <1>15 DEF PlanHistory

LEMMA InvStep == IInv /\ [Next]_vars => IInv'
<1> SUFFICES ASSUME IInv, [Next]_vars PROVE IInv'
  OBVIOUS
<1>1. CASE (Encrypt \/ EncryptRefuses \/ Show \/ DecryptRefuses) /\ UNCHANGED planvars
  <2>1. v' \in Stamps /\ key' \in Keys /\ ListHistory'
    BY <1>1, ListKeeps DEF ListNext
  <2>2. Opened'
    BY <1>1, BeforeKeeps
  <2>3. PlanHistory' /\ EveryPartHasAnAddress'
    BY <1>1 DEF IInv, PlanHistory, NoTwoShare, EveryPartHasAnAddress,
              Addressed, planvars
  <2> QED
    BY <2>1, <2>2, <2>3 DEF IInv
<1>2. CASE OpenAndAsk
  <2>1. v' \in Stamps /\ key' \in Keys /\ ListHistory'
    BY <1>2, ListKeeps DEF ListNext, OpenAndAsk
  <2>2. Opened' /\ planned' = <<>> /\ UNCHANGED <<taken, planned>>
    BY <1>2, OpenKeeps DEF OpenAndAsk
  <2>3. PlanHistory'
    BY <2>2 DEF IInv, PlanHistory, NoTwoShare
  <2>4. EveryPartHasAnAddress'
    <3>1. DOMAIN planned' = {}
      BY <2>2
    <3> QED
      BY <3>1 DEF EveryPartHasAnAddress
  <2> QED
    BY <2>1, <2>2, <2>3, <2>4 DEF IInv
<1>3. CASE PlanItem
  <2>1. UNCHANGED listvars
    BY <1>3 DEF PlanItem
  <2> QED
    BY <1>3, <2>1, PlanItemKeeps DEF IInv, ListHistory, listvars
<1>4. CASE UNCHANGED vars
  BY <1>4 DEF vars, listvars, planvars, IInv, ListHistory, Opened, PlanHistory, NoTwoShare,
              EveryPartHasAnAddress, Addressed
<1> QED
  BY <1>1, <1>2, <1>3, <1>4 DEF Next

\* What holds of every list and plan.
THEOREM Kept == Spec => []IInv
BY InvInit, InvStep, PTL DEF Spec

-----------------------------------------------------------------------------
(***************************************************************************)
(* A list that this program sealed is one that it opens, but for the one   *)
(* nonce in 2^32 that reads as the magic of a stream (manifest.rs:         *)
(* "can never seal a list it would then decline to open").                 *)
(***************************************************************************)
THEOREM SealedIsOpened == Spec => []WhatIsSealedOpens
<1>1. IInv => WhatIsSealedOpens
  <2> SUFFICES ASSUME IInv, stage = "unreadable", sealed # Absent, shown = sealed
               PROVE  sealed.magic
    BY DEF WhatIsSealedOpens
  <2>1. PICK magic \in BOOLEAN : sealed = Envelope(key, "recovery-map", magic, v, items)
    BY DEF IInv, ListHistory
  <2>2. Reads(v, items)
    BY DEF IInv, ListHistory, Writes
  <2>3. ~magic => Opens(key, shown) /\ Reads(shown.v, shown.items)
    BY <2>1, <2>2 DEF Opens, Envelope
  <2>4. magic
    BY <2>3 DEF IInv, ListHistory
  <2> QED
    BY <2>1, <2>4 DEF Envelope
<1> QED
  BY <1>1, Kept, PTL

(***************************************************************************)
(* Contents that cannot be written under the version minimum_version gives *)
(* cannot be written under any (manifest.rs, minimum_version).             *)
(***************************************************************************)
THEOREM LowestVersionWrites == Spec => []StampIsEnough
<1>1. IInv => StampIsEnough
  BY LowestIsEnough, ListAssumption DEF IInv, ListHistory, StampIsEnough
<1> QED
  BY <1>1, Kept, PTL

(***************************************************************************)
(* No two files of a plan of any length have the same destination, however *)
(* the list calls them and whichever rows were asked for, and however      *)
(* often (restore.rs, plan and deduplicate).                               *)
(***************************************************************************)
THEOREM DestinationsDiffer == Spec => []NoTwoShare
<1>1. IInv => NoTwoShare
  BY DEF IInv, PlanHistory
<1> QED
  BY <1>1, Kept, PTL

(***************************************************************************)
(* Every destination, also a numbered one, is below the folder, and each   *)
(* of its names is one that every desktop can write and none shortens      *)
(* (restore.rs, safe_segment and deduplicate).                             *)
(***************************************************************************)
THEOREM DestinationsAreInside == Spec => []StaysInside
<1>1. IInv => StaysInside
  BY DEF IInv, PlanHistory, Path, StaysInside
<1> QED
  BY <1>1, Kept, PTL

(***************************************************************************)
(* What the checks of from_json let through can be asked for: a planned    *)
(* part lacks an address only because its network is unknown to this       *)
(* build, or because it is in the bundle its list came from and the list   *)
(* came from a file; no piece is in a bundle; and whoever is in a bundle is *)
(* not read as a whole blob, unless an absolute record stands on several   *)
(* parts, which no check looks at (restore.rs, PlannedItem::refs).         *)
(***************************************************************************)
THEOREM CheckedMeansAddressed == Spec => []EveryPartHasAnAddress
<1>1. IInv => EveryPartHasAnAddress
  BY DEF IInv
<1> QED
  BY <1>1, Kept, PTL
===============================================================================
