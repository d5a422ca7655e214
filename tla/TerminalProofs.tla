---------------------------- MODULE TerminalProofs ----------------------------
(***************************************************************************)
(* One run of the program, for any command line of any length, any files,  *)
(* any keys typed and any lists found.                                     *)
(***************************************************************************)
EXTENDS Terminal, TLAPS

\* What the mode and the flags say of the place a run has come to.
Route ==
  /\ at # "args" => Coherent
  /\ at \in {"file", "window", "search", "list", "proceed", "restore"} =>
       args.mode \notin {"Derive", "WriteGui", "PrintWalletMessage"}
  /\ at = "key" => args.mode \notin {"WriteGui", "PrintWalletMessage"}
  /\ at \in {"file", "list"} => ~Has("find")
  /\ at = "search" => Has("find")
  /\ at = "window" => args.mode = "Gui"
  /\ at = "restore" => args.mode = "Restore"

\* Nothing was read, found or asked before the command line was understood, and
\* no key before the list.
NothingYet ==
  /\ at = "args" => list = NoList /\ carried = NoCode /\ contacted = {}
  /\ exit = Running /\ at \in {"args", "page", "message", "file", "key"} => road = "none"
  /\ exit = Running => said = ""
  /\ at = "args" => road = "none" /\ said = ""

\* Nobody is asked on the way to a key, and no place beyond it but the window is
\* come to without one.
NobodyYet ==
  /\ at \in {"args", "page", "message", "file", "key"} => contacted = {}
  /\ at \in {"derive", "search", "list", "proceed", "restore"} => road # "none"
  /\ at = "window" /\ Has("find") => road # "none"

\* A list that was read from a file is one that this build can use.
Usable == list # NoList /\ ~Has("find") => list.marker /\ ~list.newer

\* Every file that was asked for is left, restored or failed.
Accounted ==
  IF at = "restore"
  THEN /\ Planned # {} /\ left \union restored \union failed = Planned
       /\ exit # Running => left = {} /\ (exit = 0 => failed = {})
  ELSE restored = {} /\ failed = {}

\* What is said at the list is why it was refused.
SaidAtList == at = "list" => said \in {"", OpenRefused}

IInv ==
  /\ Route /\ NothingYet /\ Usable /\ Accounted /\ SaidAtList
  /\ RightRoadToTheKey /\ AsksOnlyWhatWasAsked /\ NobodyYet

\* A run that has ended does nothing more.
USE DEF Alive, Running

LEMMA InvInit == Init => IInv
BY DEF Init, LineInit, IInv, Route, NothingYet, Usable, Accounted, SaidAtList,
   RightRoadToTheKey, AsksOnlyWhatWasAsked, NoNetwork, NobodyYet, Has

\* What was understood of the line stays as it is.
LEMMA LineSame == ASSUME args' = args PROVE Coherent' = Coherent
BY DEF Coherent, ListIsNamedOnce, KeyIsNamedOnce, Has

\* A run that ends stays where it is.
LEMMA EndKeepsRoute ==
  ASSUME Route, at # "args", NEW code \in {0, 1, 3}, NEW why, Ends(code, why)
  PROVE  Route' /\ NothingYet'
<1>1. exit' # Running /\ args' = args /\ at' = at
  BY DEF Ends
<1>2. Route'
  BY <1>1, LineSame DEF Route, Has
<1> QED
  BY <1>1, <1>2 DEF NothingYet

\* So does one in which a key is read, or not.
LEMMA TakeKeepsRoute ==
  ASSUME IInv, Alive("key"), NEW from, NEW code, Take(from, code)
  PROVE  Route' /\ NothingYet'
<1>1. args' = args /\ exit' = exit /\ said' = said /\ at' = AfterKey
  BY DEF Take, Goes, line
<1>2. AfterKey \notin {"args", "page", "message", "file", "key", "window", "restore"}
  BY DEF AfterKey
<1>3. AfterKey = "search" => Has("find")
  BY DEF AfterKey
<1>4. args.mode \notin {"WriteGui", "PrintWalletMessage"}
  BY DEF IInv, Route
<1>5. Route'
  BY <1>1, <1>2, <1>3, <1>4, LineSame DEF IInv, Route, Has, AfterKey
<1>6. NothingYet'
  BY <1>1, <1>2 DEF IInv, NothingYet
<1> QED
  BY <1>5, <1>6

LEMMA ReadKeepsRoute ==
  ASSUME IInv, Alive("key"), NEW from, NEW text, ReadText(from, text)
  PROVE  Route' /\ NothingYet'
<1>1. CASE Take(from, text.of)
  BY <1>1, TakeKeepsRoute
<1>2. CASE Ends(1, "not a key")
  BY <1>2, EndKeepsRoute DEF IInv
<1> QED
  BY <1>1, <1>2 DEF ReadText, NoKeyIn

\* Reading the command line changes nothing else.
LEMMA InvParse == ASSUME IInv, Parse PROVE IInv'
<1>1. /\ at = "args" /\ UNCHANGED <<at, opening, contacted, work, said>>
      /\ exit = -1
  BY DEF Parse
<1>2. Route' /\ NothingYet' /\ Usable' /\ SaidAtList'
  BY <1>1 DEF IInv, Route, NothingYet, Usable, SaidAtList, opening, work
<1>3. Accounted' /\ RightRoadToTheKey' /\ AsksOnlyWhatWasAsked' /\ NobodyYet'
  BY <1>1 DEF IInv, Accounted, NothingYet, RightRoadToTheKey, AsksOnlyWhatWasAsked, NoNetwork, NobodyYet, opening, work
<1> QED
  BY <1>2, <1>3 DEF IInv

LEMMA InvDispatch == ASSUME IInv, Dispatch PROVE IInv'
<1>1. Route' /\ NothingYet'
  <2>1. /\ args' = args /\ at' = FirstPlace /\ exit' = exit /\ said' = said
        /\ UNCHANGED road
    BY DEF Dispatch, Goes, line, opening
  <2>2. FirstPlace \notin {"args", "search", "list", "proceed", "restore"}
    BY DEF FirstPlace
  <2>3. /\ FirstPlace = "file" => ~Has("find")
        /\ FirstPlace = "window" => args.mode = "Gui"
    BY DEF FirstPlace
  <2>4. Route'
    BY <2>1, <2>2, <2>3, LineSame DEF Dispatch, Route, Has, FirstPlace
  <2>5. NothingYet'
    BY <2>1, <2>2 DEF IInv, NothingYet, Dispatch
  <2> QED
    BY <2>4, <2>5
<1>2. Usable' /\ SaidAtList'
  BY DEF IInv, Usable, SaidAtList, Route, NothingYet, OpenRefused, Dispatch, FirstPlace, Ends, Goes, Has, line, opening, work
<1>3. Accounted'
  BY DEF IInv, Accounted, Route, NothingYet, Planned, Dispatch, FirstPlace, Ends, Goes, Has, line, opening, work
<1>4. RightRoadToTheKey' /\ AsksOnlyWhatWasAsked' /\ NobodyYet'
  BY DEF IInv, RightRoadToTheKey, AsksOnlyWhatWasAsked, NoNetwork, NobodyYet, Route, NothingYet, Usable, Coherent, KeyIsNamedOnce, Dispatch, FirstPlace, Ends, Goes, Has, line, opening, work
<1> QED
  BY <1>1, <1>2, <1>3, <1>4 DEF IInv

LEMMA InvWriteGui == ASSUME IInv, WriteGui PROVE IInv'
<1>1. Route' /\ NothingYet'
  BY EndKeepsRoute DEF IInv, WriteGui
<1>2. Usable' /\ SaidAtList'
  BY DEF IInv, Usable, SaidAtList, Route, NothingYet, OpenRefused, WriteGui, Ends, Goes, Has, line, opening, work
<1>3. Accounted'
  BY DEF IInv, Accounted, Route, NothingYet, Planned, WriteGui, Ends, Goes, Has, line, opening, work
<1>4. RightRoadToTheKey' /\ AsksOnlyWhatWasAsked' /\ NobodyYet'
  BY DEF IInv, RightRoadToTheKey, AsksOnlyWhatWasAsked, NoNetwork, NobodyYet, Route, NothingYet, Usable, Coherent, KeyIsNamedOnce, WriteGui, Ends, Goes, Has, line, opening, work
<1> QED
  BY <1>1, <1>2, <1>3, <1>4 DEF IInv

LEMMA InvPrintMessage == ASSUME IInv, NEW address, NEW account, NEW app, PrintMessage(address, account, app) PROVE IInv'
<1>1. Route' /\ NothingYet'
  BY EndKeepsRoute DEF IInv, PrintMessage
<1>2. Usable' /\ SaidAtList'
  BY DEF IInv, Usable, SaidAtList, Route, NothingYet, OpenRefused, PrintMessage, Ends, Goes, Has, line, opening, work
<1>3. Accounted'
  BY DEF IInv, Accounted, Route, NothingYet, Planned, PrintMessage, Ends, Goes, Has, line, opening, work
<1>4. RightRoadToTheKey' /\ AsksOnlyWhatWasAsked' /\ NobodyYet'
  BY DEF IInv, RightRoadToTheKey, AsksOnlyWhatWasAsked, NoNetwork, NobodyYet, Route, NothingYet, Usable, Coherent, KeyIsNamedOnce, PrintMessage, Ends, Goes, Has, line, opening, work
<1> QED
  BY <1>1, <1>2, <1>3, <1>4 DEF IInv

LEMMA InvReadFile == ASSUME IInv, NEW file \in Disk, ReadFile(file) PROVE IInv'
<1>1. Route' /\ NothingYet'
  <2>1. CASE Goes("key")
    <3>1. args' = args /\ at' = "key" /\ exit' = exit /\ said' = said
      BY <2>1 DEF Goes, line
    <3>2. Route'
      BY <3>1, LineSame DEF IInv, Route, Has, ReadFile
    <3>3. NothingYet'
      BY <3>1 DEF IInv, NothingYet, ReadFile
    <3> QED
      BY <3>2, <3>3
  <2>2. CASE Ends(1, KitRefused(file)) \/ Ends(1, ListRefused(file))
    BY <2>2, EndKeepsRoute DEF IInv, ReadFile
  <2> QED
    BY <2>1, <2>2 DEF ReadFile
<1>2. Usable' /\ SaidAtList'
  BY DEF IInv, Usable, SaidAtList, Route, NothingYet, OpenRefused, ReadFile, ListRefused, KitRefused, Ends, Goes, Has, line, opening, work
<1>3. Accounted'
  BY DEF IInv, Accounted, Route, NothingYet, Planned, ReadFile, ListRefused, KitRefused, Ends, Goes, Has, line, opening, work
<1>4. RightRoadToTheKey' /\ AsksOnlyWhatWasAsked' /\ NobodyYet'
  BY DEF IInv, RightRoadToTheKey, AsksOnlyWhatWasAsked, NoNetwork, NobodyYet, Route, NothingYet, Usable, Coherent, KeyIsNamedOnce, ReadFile, ListRefused, KitRefused, Ends, Goes, Has, line, opening, work
<1> QED
  BY <1>1, <1>2, <1>3, <1>4 DEF IInv

LEMMA InvKitKey == ASSUME IInv, KitKey PROVE IInv'
<1>1. Route' /\ NothingYet'
  BY ReadKeepsRoute DEF KitKey
<1>2. Usable' /\ SaidAtList'
  BY DEF IInv, Usable, SaidAtList, Route, NothingYet, OpenRefused, KitKey, KeyFromKit, AskedElsewhere, ReadText, Take, NoKeyIn, AfterKey, Ends, Goes, Has, line, opening, work
<1>3. Accounted'
  BY DEF IInv, Accounted, Route, NothingYet, Planned, KitKey, KeyFromKit, AskedElsewhere, ReadText, Take, NoKeyIn, AfterKey, Ends, Goes, Has, line, opening, work
<1>4. RightRoadToTheKey' /\ AsksOnlyWhatWasAsked' /\ NobodyYet'
  BY DEF IInv, RightRoadToTheKey, AsksOnlyWhatWasAsked, NoNetwork, NobodyYet, Route, NothingYet, Usable, Coherent, KeyIsNamedOnce, KitKey, KeyFromKit, AskedElsewhere, ReadText, Take, NoKeyIn, AfterKey, Ends, Goes, Has, line, opening, work
<1> QED
  BY <1>1, <1>2, <1>3, <1>4 DEF IInv

LEMMA InvSlotKey == ASSUME IInv, NEW slot, NEW signature, SlotKey(slot, signature) PROVE IInv'
<1>1. Route' /\ NothingYet'
  <2> DEFINE opened == OpenAccountCode(slot, signature)
  <2>1. CASE Take("slot", opened.code)
    BY <2>1, TakeKeepsRoute DEF SlotKey
  <2>2. CASE Ends(1, opened.refused)
    BY <2>2, EndKeepsRoute DEF IInv, SlotKey
  <2> QED
    BY <2>1, <2>2 DEF SlotKey, NoKeyIn
<1>2. Usable' /\ SaidAtList'
  BY DEF IInv, Usable, SaidAtList, Route, NothingYet, OpenRefused, SlotKey, Take, NoKeyIn, AfterKey, Ends, Goes, Has, line, opening, work
<1>3. Accounted'
  BY DEF IInv, Accounted, Route, NothingYet, Planned, SlotKey, Take, NoKeyIn, AfterKey, Ends, Goes, Has, line, opening, work
<1>4. RightRoadToTheKey' /\ AsksOnlyWhatWasAsked' /\ NobodyYet'
  BY DEF IInv, RightRoadToTheKey, AsksOnlyWhatWasAsked, NoNetwork, NobodyYet, Route, NothingYet, Usable, Coherent, KeyIsNamedOnce, SlotKey, Take, NoKeyIn, AfterKey, Ends, Goes, Has, line, opening, work
<1> QED
  BY <1>1, <1>2, <1>3, <1>4 DEF IInv

LEMMA InvFileKey == ASSUME IInv, NEW text, FileKey(text) PROVE IInv'
<1>1. Route' /\ NothingYet'
  BY ReadKeepsRoute DEF FileKey
<1>2. Usable' /\ SaidAtList'
  BY DEF IInv, Usable, SaidAtList, Route, NothingYet, OpenRefused, FileKey, ReadText, Take, NoKeyIn, AfterKey, Ends, Goes, Has, line, opening, work
<1>3. Accounted'
  BY DEF IInv, Accounted, Route, NothingYet, Planned, FileKey, ReadText, Take, NoKeyIn, AfterKey, Ends, Goes, Has, line, opening, work
<1>4. RightRoadToTheKey' /\ AsksOnlyWhatWasAsked' /\ NobodyYet'
  BY DEF IInv, RightRoadToTheKey, AsksOnlyWhatWasAsked, NoNetwork, NobodyYet, Route, NothingYet, Usable, Coherent, KeyIsNamedOnce, FileKey, ReadText, Take, NoKeyIn, AfterKey, Ends, Goes, Has, line, opening, work
<1> QED
  BY <1>1, <1>2, <1>3, <1>4 DEF IInv

LEMMA InvTypedKey == ASSUME IInv, NEW text, TypedKey(text) PROVE IInv'
<1>1. Route' /\ NothingYet'
  BY ReadKeepsRoute DEF TypedKey
<1>2. Usable' /\ SaidAtList'
  BY DEF IInv, Usable, SaidAtList, Route, NothingYet, OpenRefused, TypedKey, KeyFromKit, AskedElsewhere, ReadText, Take, NoKeyIn, AfterKey, Ends, Goes, Has, line, opening, work
<1>3. Accounted'
  BY DEF IInv, Accounted, Route, NothingYet, Planned, TypedKey, KeyFromKit, AskedElsewhere, ReadText, Take, NoKeyIn, AfterKey, Ends, Goes, Has, line, opening, work
<1>4. RightRoadToTheKey' /\ AsksOnlyWhatWasAsked' /\ NobodyYet'
  BY DEF IInv, RightRoadToTheKey, AsksOnlyWhatWasAsked, NoNetwork, NobodyYet, Route, NothingYet, Usable, Coherent, KeyIsNamedOnce, TypedKey, KeyFromKit, AskedElsewhere, ReadText, Take, NoKeyIn, AfterKey, Ends, Goes, Has, line, opening, work
<1> QED
  BY <1>1, <1>2, <1>3, <1>4 DEF IInv

LEMMA InvDerive == ASSUME IInv, Derive PROVE IInv'
<1>1. Route' /\ NothingYet'
  BY DEF IInv, Route, NothingYet, Coherent, ListIsNamedOnce, KeyIsNamedOnce, Derive, Ends, Goes, Has, line, opening, work
<1>2. Usable' /\ SaidAtList'
  BY DEF IInv, Usable, SaidAtList, Route, NothingYet, OpenRefused, Derive, Ends, Goes, Has, line, opening, work
<1>3. Accounted'
  BY DEF IInv, Accounted, Route, NothingYet, Planned, Derive, Ends, Goes, Has, line, opening, work
<1>4. RightRoadToTheKey' /\ AsksOnlyWhatWasAsked' /\ NobodyYet'
  BY DEF IInv, RightRoadToTheKey, AsksOnlyWhatWasAsked, NoNetwork, NobodyYet, Route, NothingYet, Usable, Coherent, KeyIsNamedOnce, Derive, Ends, Goes, Has, line, opening, work
<1> QED
  BY <1>1, <1>2, <1>3, <1>4 DEF IInv

LEMMA InvFound == ASSUME IInv, NEW l, Found(l) PROVE IInv'
<1>1. Route' /\ NothingYet'
  BY DEF IInv, Route, NothingYet, Coherent, ListIsNamedOnce, KeyIsNamedOnce, Found, Ends, Goes, Has, line, opening, work
<1>2. Usable' /\ SaidAtList'
  BY DEF IInv, Usable, SaidAtList, Route, NothingYet, OpenRefused, Found, Ends, Goes, Has, line, opening, work
<1>3. Accounted'
  BY DEF IInv, Accounted, Route, NothingYet, Planned, Found, Ends, Goes, Has, line, opening, work
<1>4. RightRoadToTheKey' /\ AsksOnlyWhatWasAsked' /\ NobodyYet'
  BY DEF IInv, RightRoadToTheKey, AsksOnlyWhatWasAsked, NoNetwork, NobodyYet, Route, NothingYet, Usable, Coherent, KeyIsNamedOnce, Found, Ends, Goes, Has, line, opening, work
<1> QED
  BY <1>1, <1>2, <1>3, <1>4 DEF IInv

LEMMA InvFoundNothing == ASSUME IInv, FoundNothing PROVE IInv'
<1>1. Route' /\ NothingYet'
  BY EndKeepsRoute DEF IInv, FoundNothing
<1>2. Usable' /\ SaidAtList'
  BY DEF IInv, Usable, SaidAtList, Route, NothingYet, OpenRefused, FoundNothing, Ends, Goes, Has, line, opening, work
<1>3. Accounted'
  BY DEF IInv, Accounted, Route, NothingYet, Planned, FoundNothing, Ends, Goes, Has, line, opening, work
<1>4. RightRoadToTheKey' /\ AsksOnlyWhatWasAsked' /\ NobodyYet'
  BY DEF IInv, RightRoadToTheKey, AsksOnlyWhatWasAsked, NoNetwork, NobodyYet, Route, NothingYet, Usable, Coherent, KeyIsNamedOnce, FoundNothing, Ends, Goes, Has, line, opening, work
<1> QED
  BY <1>1, <1>2, <1>3, <1>4 DEF IInv

LEMMA InvOpenList == ASSUME IInv, OpenList PROVE IInv'
<1>1. Route' /\ NothingYet'
  <2>1. CASE Goes("proceed")
    <3>1. args' = args /\ at' = "proceed" /\ exit' = exit /\ said' = said
      BY <2>1 DEF Goes, line
    <3>2. Route'
      BY <3>1, LineSame DEF IInv, Route, Has, OpenList
    <3>3. NothingYet'
      BY <3>1 DEF IInv, NothingYet, OpenList
    <3> QED
      BY <3>2, <3>3
  <2>2. CASE Ends(1, OpenRefused)
    BY <2>2, EndKeepsRoute DEF IInv, OpenList
  <2> QED
    BY <2>1, <2>2 DEF OpenList
<1>2. Usable' /\ SaidAtList'
  BY DEF IInv, Usable, SaidAtList, Route, NothingYet, OpenRefused, OpenList, Ends, Goes, Has, line, opening, work
<1>3. Accounted'
  BY DEF IInv, Accounted, Route, NothingYet, Planned, OpenList, Ends, Goes, Has, line, opening, work
<1>4. RightRoadToTheKey' /\ AsksOnlyWhatWasAsked' /\ NobodyYet'
  BY DEF IInv, RightRoadToTheKey, AsksOnlyWhatWasAsked, NoNetwork, NobodyYet, Route, NothingYet, Usable, Coherent, KeyIsNamedOnce, OpenList, Ends, Goes, Has, line, opening, work
<1> QED
  BY <1>1, <1>2, <1>3, <1>4 DEF IInv

LEMMA InvProceed == ASSUME IInv, Proceed PROVE IInv'
<1>1. Route' /\ NothingYet'
  <2>1. CASE args.mode = "Restore" /\ Goes("restore")
    <3>1. args' = args /\ at' = "restore" /\ exit' = exit /\ said' = said
      BY <2>1 DEF Goes, line
    <3>2. Route'
      BY <2>1, <3>1, LineSame DEF IInv, Route, Has, Proceed
    <3>3. NothingYet'
      BY <3>1 DEF IInv, NothingYet, Proceed
    <3> QED
      BY <3>2, <3>3
  <2>2. CASE Ends(1, "nothing matched") \/ Ends(0, "")
    BY <2>2, EndKeepsRoute DEF IInv, Proceed
  <2> QED
    BY <2>1, <2>2 DEF Proceed
<1>2. Usable' /\ SaidAtList'
  BY DEF IInv, Usable, SaidAtList, Route, NothingYet, OpenRefused, Proceed, Ends, Goes, Has, line, opening, work
<1>3. Accounted'
  BY DEF IInv, Accounted, Route, NothingYet, Planned, Proceed, Ends, Goes, Has, line, opening, work
<1>4. RightRoadToTheKey' /\ AsksOnlyWhatWasAsked' /\ NobodyYet'
  BY DEF IInv, RightRoadToTheKey, AsksOnlyWhatWasAsked, NoNetwork, NobodyYet, Route, NothingYet, Usable, Coherent, KeyIsNamedOnce, Proceed, Ends, Goes, Has, line, opening, work
<1> QED
  BY <1>1, <1>2, <1>3, <1>4 DEF IInv

LEMMA InvRestoreItem == ASSUME IInv, NEW item \in left, RestoreItem(item) PROVE IInv'
<1>1. Route' /\ NothingYet'
  BY DEF IInv, Route, NothingYet, Coherent, ListIsNamedOnce, KeyIsNamedOnce, RestoreItem, Ends, Goes, Has, line, opening, work
<1>2. Usable' /\ SaidAtList'
  BY DEF IInv, Usable, SaidAtList, Route, NothingYet, OpenRefused, RestoreItem, Ends, Goes, Has, line, opening, work
<1>3. Accounted'
  BY DEF IInv, Accounted, Route, NothingYet, Planned, RestoreItem, Ends, Goes, Has, line, opening, work
<1>4. RightRoadToTheKey' /\ AsksOnlyWhatWasAsked' /\ NobodyYet'
  BY DEF IInv, RightRoadToTheKey, AsksOnlyWhatWasAsked, NoNetwork, NobodyYet, Route, NothingYet, Usable, Coherent, KeyIsNamedOnce, RestoreItem, Ends, Goes, Has, line, opening, work
<1> QED
  BY <1>1, <1>2, <1>3, <1>4 DEF IInv

LEMMA InvFinish == ASSUME IInv, Finish PROVE IInv'
<1>1. Route' /\ NothingYet'
  BY DEF IInv, Route, NothingYet, Coherent, ListIsNamedOnce, KeyIsNamedOnce, Finish, Ends, Goes, Has, line, opening, work
<1>2. Usable' /\ SaidAtList'
  BY DEF IInv, Usable, SaidAtList, Route, NothingYet, OpenRefused, Finish, Ends, Goes, Has, line, opening, work
<1>3. Accounted'
  <2>1. /\ args' = args /\ at' = "restore" /\ at = "restore"
        /\ UNCHANGED <<list, left, restored, failed>> /\ left = {}
    BY DEF Finish, Ends, opening, work
  <2>2. exit' = 0 => failed = {}
    <3>1. CASE failed = {}
      BY <3>1
    <3>2. CASE failed # {}
      <4>1. Ends(3, "")
        BY <3>2 DEF Finish
      <4>2. exit' = 3
        BY <4>1 DEF Ends
      <4> QED
        BY <4>2
    <3> QED
      BY <3>1, <3>2
  <2>3. Planned' = Planned
    BY <2>1 DEF Planned, Has
  <2> QED
    BY <2>1, <2>2, <2>3 DEF IInv, Accounted
<1>4. RightRoadToTheKey' /\ AsksOnlyWhatWasAsked' /\ NobodyYet'
  BY DEF IInv, RightRoadToTheKey, AsksOnlyWhatWasAsked, NoNetwork, NobodyYet, Route, NothingYet, Usable, Coherent, KeyIsNamedOnce, Finish, Ends, Goes, Has, line, opening, work
<1> QED
  BY <1>1, <1>2, <1>3, <1>4 DEF IInv

LEMMA InvWindow == ASSUME IInv, Window PROVE IInv'
<1>1. Route' /\ NothingYet'
  BY EndKeepsRoute DEF IInv, Window
<1>2. Usable' /\ SaidAtList'
  BY DEF IInv, Usable, SaidAtList, Route, NothingYet, OpenRefused, Window, Ends, Goes, Has, line, opening, work
<1>3. Accounted'
  BY DEF IInv, Accounted, Route, NothingYet, Planned, Window, Ends, Goes, Has, line, opening, work
<1>4. RightRoadToTheKey' /\ AsksOnlyWhatWasAsked' /\ NobodyYet'
  BY DEF IInv, RightRoadToTheKey, AsksOnlyWhatWasAsked, NoNetwork, NobodyYet, Route, NothingYet, Usable, Coherent, KeyIsNamedOnce, Window, Ends, Goes, Has, line, opening, work
<1> QED
  BY <1>1, <1>2, <1>3, <1>4 DEF IInv

LEMMA InvStep == IInv /\ [Next]_vars => IInv'
<1> SUFFICES ASSUME IInv, [Next]_vars PROVE IInv'
  OBVIOUS
<1>1. CASE Parse \/ Dispatch \/ WriteGui
  BY <1>1, InvParse, InvDispatch, InvWriteGui
<1>2. CASE \E address \in Addresses, account \in 0 .. 1, app \in Apps :
             PrintMessage(address, account, app)
  BY <1>2, InvPrintMessage
<1>3. CASE \E file \in Disk : ReadFile(file)
  BY <1>3, InvReadFile
<1>4. CASE \E slot \in SlotFiles, signature \in SignatureFiles : SlotKey(slot, signature)
  BY <1>4, InvSlotKey
<1>5. CASE KitKey \/ \E text \in CodeFiles : FileKey(text) \/ TypedKey(text)
  BY <1>5, InvKitKey, InvFileKey, InvTypedKey
<1>6. CASE \/ Derive \/ FoundNothing \/ OpenList \/ Proceed \/ Finish \/ Window
           \/ \E l \in {file \in Disk : ~file.kit} : Found(l)
  BY <1>6, InvDerive, InvFoundNothing, InvOpenList, InvProceed, InvFinish, InvWindow, InvFound
<1>7. CASE \E item \in left : RestoreItem(item)
  BY <1>7, InvRestoreItem
<1>8. CASE UNCHANGED vars
  <2>1. UNCHANGED <<args, exit, at, list, carried, key, road, contacted, left, restored, failed, said>>
    BY <1>8 DEF vars, line
  <2>2. Route' /\ NothingYet' /\ NobodyYet'
    BY <2>1, LineSame DEF IInv, Route, NothingYet, NobodyYet, Has
  <2>3. Usable' /\ Accounted' /\ SaidAtList'
    BY <2>1 DEF IInv, Usable, Accounted, SaidAtList, Planned, OpenRefused, Has
  <2>4. RightRoadToTheKey' /\ AsksOnlyWhatWasAsked'
    BY <2>1 DEF IInv, RightRoadToTheKey, AsksOnlyWhatWasAsked, Has
  <2> QED
    BY <2>2, <2>3, <2>4 DEF IInv
<1> QED
  BY <1>1, <1>2, <1>3, <1>4, <1>5, <1>6, <1>7, <1>8 DEF Next

\* What holds at every step of a run.
THEOREM Kept == Spec => []IInv
BY InvInit, InvStep, PTL DEF Spec

(***************************************************************************)
(* The key comes from where the command line said, whatever the file       *)
(* holds, and is never asked for a list that cannot be used                *)
(* (main.rs:291-304, mapfile.rs:41-43).                                    *)
(***************************************************************************)
THEOREM KeyIsTakenFromThere == Spec => []RightRoadToTheKey
<1>1. IInv => RightRoadToTheKey
  BY DEF IInv
<1> QED
  BY <1>1, Kept, PTL

(***************************************************************************)
(* A run asks on the network only what its command line asks for, and      *)
(* nobody on the way to the key (main.rs:86-95, args.rs USAGE, "WHAT GOES  *)
(* OUT").  That --list and --print-fetch-plan ask beside --find is         *)
(* NoNetworkMeansNone's, which does not hold.                              *)
(***************************************************************************)
THEOREM NothingElseIsAsked == Spec => []AsksOnlyWhatWasAsked
<1>1. IInv => AsksOnlyWhatWasAsked
  BY DEF IInv
<1> QED
  BY <1>1, Kept, PTL

(***************************************************************************)
(* A restore that exits 0 lost no file of those that were asked for, of    *)
(* any number (main.rs:606-610).                                           *)
(***************************************************************************)
THEOREM ZeroIsAll == Spec => []ZeroMeansAll
<1>1. IInv => ZeroMeansAll
  BY DEF IInv, Accounted, ZeroMeansAll
<1> QED
  BY <1>1, Kept, PTL

(***************************************************************************)
(* Of a file that was read by the heading it was sealed under, a person is *)
(* told "another account" only with another key, and "broken" only with    *)
(* the right one (main.rs:306-313).                                        *)
(***************************************************************************)
THEOREM TheOtherAccountIsSaid == Spec => []OtherAccountIsSaid
<1>1. IInv => OtherAccountIsSaid
  BY DEF IInv, SaidAtList, OpenRefused, OtherAccountIsSaid
<1> QED
  BY <1>1, Kept, PTL
=============================================================================
