--------------------------------- MODULE Plan ---------------------------------
(***************************************************************************)
(* From an opened list to the files of a restore, recovery/src/restore.rs: *)
(* which items were asked for, what each file is called on the disk, and   *)
(* what is fetched for it.  Composed with RecoveryList: the items planned  *)
(* are those of a list that was opened.                                    *)
(*                                                                         *)
(* A name is a sequence of tokens: letters, ".", a space, an underscore,   *)
(* ":" for every character that no file name may have, "CON" for every     *)
(* word that Windows reserves, however spelt, and "(2)", "(3)", ... .      *)
(***************************************************************************)
EXTENDS RecoveryList

CONSTANTS
  Bundles,    \* bundles a list may have been read from
  Needles,    \* what --only may ask for
  Ticks       \* what the page may send: sequences of row numbers, from 0

\* The numbers that deduplicate tries; u32::MAX of them in the code.
Marks == <<"(1)", "(2)", "(3)", "(4)">>

Tokens ==
  {"a", "b", ".", "space", "underscore", ":", "CON"} \union {Marks[n] : n \in DOMAIN Marks}

ASSUME PlanAssumption ==
  /\ \A list \in Contents :
       /\ Len(list) \in Nat /\ DOMAIN list = 1 .. Len(list)
       /\ \A i \in DOMAIN list :
            /\ list[i].name \in Seq(Tokens)
            /\ list[i].path \in Seq(Seq(Tokens) \ {<<>>})
  /\ Ticks \subseteq Seq(Nat)

VARIABLES
  bundle,   \* the quilt the list was read from, Absent for a file
  rows,     \* the rows of the list that are gone through
  todo,     \* where on them the items are that were asked for and have no file yet
  taken,    \* the destinations given
  planned   \* the planned items

planvars == <<bundle, rows, todo, taken, planned>>

-----------------------------------------------------------------------------
(* Names *)

\* What no file name may have, and what Windows drops at the end of one.
Forbidden == {"/", ":"}
Trailing == {"space", "."}

Trim(name) ==
  SubSeq(name, 1, Max({0} \union {i \in DOMAIN name : name[i] \notin Trailing}))

Stem(name) ==
  SubSeq(name, 1, Min({Len(name)} \union {i - 1 : i \in {j \in DOMAIN name : name[j] = "."}}))

\* Mistake: characters are replaced, and neither the end nor the stem is looked at.
SafeUntrimmed(seg) == [i \in DOMAIN seg |-> IF seg[i] \in Forbidden THEN "underscore" ELSE seg[i]]

\* safe_segment: one segment of a path, writable on every desktop.
Safe(seg) ==
  LET trimmed == Trim([i \in DOMAIN seg |-> IF seg[i] \in Forbidden THEN "underscore" ELSE seg[i]])
      out == IF trimmed = <<>> THEN <<"underscore">> ELSE trimmed
  IN IF Stem(out) = <<"CON">> THEN <<"underscore">> \o out ELSE out

\* The list's own path and name, and where they lead below the folder.
Original(item) == Append(item.path, item.name)
Destination(item) == [i \in DOMAIN Original(item) |-> Safe(Original(item)[i])]

\* A name with its number before the extension; a leading dot begins no extension.
Numbered(dest, n) ==
  LET name == Last(dest)
      dot == Max({0} \union {i \in DOMAIN name : name[i] = "."})
      cut == IF dot > 1 THEN dot ELSE Len(name) + 1
  IN Append(Front(dest),
            SubSeq(name, 1, cut - 1) \o <<"space", Marks[n]>> \o SubSeq(name, cut, Len(name)))

\* Mistake: a numbered name is not looked up.
DeduplicateOnce(dest) == IF dest \notin taken THEN dest ELSE Numbered(dest, 2)

FreeNumbers(dest) == {n \in 2 .. Len(Marks) : Numbered(dest, n) \notin taken}

\* deduplicate: the name, or the first numbered one that nothing else claimed.
Deduplicate(dest) ==
  IF dest \notin taken THEN dest ELSE Numbered(dest, Min(FreeNumbers(dest)))

-----------------------------------------------------------------------------
(* What is fetched *)

KnownNetworks == {"walrus", "filecoin"}

Ref(kind, part) == [kind |-> kind, len |-> StreamPlaintextLen(part)]

\* PlannedItem::refs, for one part.
RefOf(item, part) ==
  LET form == IF Len(item.parts) = 1 THEN Placement(item.quilt) ELSE "none" IN
  IF NetworkName(part) \notin KnownNetworks
  THEN Ref("UnknownNetwork", part)
  ELSE IF OnFilecoin(part)
  THEN IF Absent \in {part.blob, part.chain, part.copies}
       THEN Ref("UnknownNetwork", part) ELSE Ref("piece", part)
  ELSE CASE form = "absolute" -> Ref("patch", part)
         [] form = "own" -> Ref(IF bundle = Absent THEN "OwnQuiltUnknown" ELSE "inquilt", part)
         [] OTHER -> Ref(IF part.blob = Absent THEN "OwnQuiltUnknown" ELSE "whole", part)

Problems == {"UnknownNetwork", "OwnQuiltUnknown"}

Refs(item) == [k \in DOMAIN item.parts |-> RefOf(item, item.parts[k])]

-----------------------------------------------------------------------------
(* The plan *)

HasWithin(hay, needle) ==
  \E i \in 0 .. Len(hay) - Len(needle) : SubSeq(hay, i + 1, i + Len(needle)) = needle

\* The path and the name as the list spells them.
Hay(item) ==
  FoldLeft(LAMBDA hay, seg : hay \o <<"/">> \o seg, <<>>, Original(item))

\* The rows that contain a needle, and the ticks that are rows: a number that the
\* list does not have is no item.
Matching(list, needle) == {i \in DOMAIN list : HasWithin(Hay(list[i]), needle)}
Real(list, ticks) == {k \in DOMAIN ticks : ticks[k] < Len(list)}

PlanInit ==
  /\ bundle = Absent /\ rows = <<>> /\ todo = {} /\ taken = {} /\ planned = <<>>

\* Decrypt, and what is asked of the list: everything, what contains a needle,
\* or, in the window, the ticked rows.
OpenAndAsk ==
  /\ Decrypt
  /\ bundle' \in Opt(Bundles)
  /\ \/ /\ rows' = [i \in DOMAIN shown.items |-> i]
        /\ \/ todo' = DOMAIN shown.items
           \/ \E needle \in Needles : todo' = Matching(shown.items, needle)
     \/ \E ticks \in Ticks :
          /\ rows' = [k \in DOMAIN ticks |-> ticks[k] + 1]
          /\ todo' = Real(shown.items, ticks)
  /\ UNCHANGED <<taken, planned>>

\* The next item gets its destination.
PlanItem ==
  /\ todo # {}
  /\ LET item == shown.items[rows[Min(todo)]]
         dest == Deduplicate(Destination(item))
     IN /\ Destination(item) \in taken => FreeNumbers(Destination(item)) # {}
        /\ taken' = taken \union {dest}
        /\ planned' = Append(planned,
             [item |-> item, dest |-> dest, refs |-> Refs(item),
              renamed |-> Destination(item) # Original(item)])
  /\ todo' = todo \ {Min(todo)}
  /\ UNCHANGED <<bundle, rows, listvars>>

Init == ListInit /\ PlanInit

Next ==
  \/ (Encrypt \/ EncryptRefuses \/ Show \/ DecryptRefuses) /\ UNCHANGED planvars
  \/ OpenAndAsk
  \/ PlanItem

vars == <<listvars, planvars>>

Spec == Init /\ [][Next]_vars

-----------------------------------------------------------------------------
(* Properties *)

\* No two files of a plan have one destination, whatever the list calls them and
\* however often a row was ticked: none overwrites another.
NoTwoShare ==
  \A i, j \in DOMAIN planned : i # j => planned[i].dest # planned[j].dest

\* A name the three desktops can write, that stays in its folder and that none of
\* them shortens.
Writable(name) ==
  /\ name # <<>> /\ Last(name) \notin Trailing
  /\ \A i \in DOMAIN name : name[i] \notin Forbidden
  /\ Stem(name) # <<"CON">>

\* Every destination is below the folder chosen and can be written there, also
\* after it was numbered.
StaysInside ==
  \A i \in DOMAIN planned : \A k \in DOMAIN planned[i].dest : Writable(planned[i].dest[k])

\* What a part may be asked for as: it has no address only if its network is not
\* known to this build, or it is in the bundle its list came from and the list
\* came from a file; a piece is in no bundle; and a whole blob is the blob of a
\* file that is in no bundle, but for the one form of NoCohortIsRead.
Addressed(item, part, kind) ==
  /\ kind = "UnknownNetwork" => NetworkName(part) \notin KnownNetworks
  /\ kind = "OwnQuiltUnknown" => bundle = Absent /\ Placement(item.quilt) = "own"
  /\ kind = "piece" => item.quilt = Absent
  /\ kind = "whole" =>
       \/ item.quilt = Absent
       \/ Placement(item.quilt) = "absolute" /\ Len(item.parts) > 1

\* What the checks of the list let through can be asked for, and each part by
\* what is its own (check_quilt_placement and check_filecoin before refs).
EveryPartHasAnAddress ==
  \A i \in DOMAIN planned : \A k \in DOMAIN planned[i].refs :
    Addressed(planned[i].item, planned[i].item.parts[k], planned[i].refs[k].kind)

\* A file in a bundle is never read as a whole blob, which would be everyone's
\* ciphertext: "a quilted item is one patch inside one shared blob, so it has
\* exactly one part" (restore.rs:92-94), any other shape being one that "the parse
\* already refuses" (restore.rs:109).
NoCohortIsRead ==
  \A i \in DOMAIN planned : \A k \in DOMAIN planned[i].refs :
    planned[i].refs[k].kind = "whole" => planned[i].item.quilt = Absent
===============================================================================
