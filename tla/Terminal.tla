------------------------------ MODULE Terminal ------------------------------
(***************************************************************************)
(* main.rs: one run of the program in a terminal.  The list comes from a   *)
(* file, from inside a kit or from the network; the NMTS key from the kit, *)
(* a slot, a file or the prompt; and the run ends with a code that scripts *)
(* read.  Accounts stand for their keys.                                   *)
(***************************************************************************)
EXTENDS CommandLine, WalletSlot, KeyText

CONSTANTS
  Accounts,        \* NMTS accounts
  Disk,            \* what the file given with --map may hold
  CodeFiles,       \* what may be typed, or be in the file of --code-file
  SlotFiles, SignatureFiles,
  Addresses, Apps, \* what may follow the flags of the wallet message
  Matching,        \* the items that match --only
  NoList, NoCode, NoKey

VARIABLES
  at,              \* what the run does next
  list,            \* the wrapper that was read, or the list that was found
  carried,         \* the key text in the kit
  key, road,       \* the key, and where it came from
  contacted,       \* who was asked over the network
  left, restored, failed,
  said             \* the sentence of an error

vars == <<line, at, list, carried, key, road, contacted, left, restored, failed, said>>

opening == <<list, carried, key, road>>
work == <<left, restored, failed>>

Init ==
  /\ LineInit
  /\ at = "args"
  /\ list = NoList /\ carried = NoCode /\ key = NoKey /\ road = "none"
  /\ contacted = {}
  /\ left = {} /\ restored = {} /\ failed = {}
  /\ said = ""

Alive(place) == exit = Running /\ at = place

\* The run stops here.
Ends(code, why) ==
  /\ exit' = code
  /\ said' = why
  /\ UNCHANGED <<args, argc, at>>

Goes(place) == at' = place /\ UNCHANGED <<line, said>>

Parse == Alive("args") /\ ParseStep /\
         UNCHANGED <<at, opening, contacted, work, said>>

(***************************************************************************)
(* main: what the mode asks for first.                                     *)
(***************************************************************************)
FirstPlace ==
  CASE args.mode = "WriteGui" -> "page"
    [] args.mode = "PrintWalletMessage" -> "message"
    [] args.mode = "Derive" -> "key"
    [] args.mode = "Gui" -> IF Has("find") THEN "key" ELSE "window"
    [] OTHER -> IF Has("find") THEN "key" ELSE "file"

Dispatch ==
  /\ Alive("args")
  /\ Coherent
  /\ Goes(FirstPlace)
  /\ UNCHANGED <<opening, contacted, work>>

WriteGui ==
  /\ Alive("page")
  /\ Ends(0, "") \/ Ends(1, "not written")
  /\ UNCHANGED <<opening, contacted, work>>

PrintMessage(address, account, app) ==
  /\ Alive("message")
  /\ Has("wallet_account") \/ account = 1
  /\ IF IsRefused(OpenerMessage(address, account, app))
     THEN Ends(1, OpenerMessage(address, account, app).refused)
     ELSE Ends(0, "")
  /\ UNCHANGED <<opening, contacted, work>>

(***************************************************************************)
(* open_from_file up to the key: a list, or a kit with a list inside.      *)
(***************************************************************************)
ListRefused(l) ==
  IF ~l.marker \/ l.sealed = "none" THEN "not a list"
  ELSE IF l.newer THEN "too new" ELSE ""

KitRefused(k) ==
  IF ~k.whole \/ ~k.marker THEN "damaged kit"
  ELSE IF k.newer THEN "kit too new"
  ELSE IF k.list = NoList THEN "no list in the kit"
  ELSE IF ListRefused(k.list) # "" THEN ListRefused(k.list)
  ELSE IF k.account # k.list.account THEN "damaged kit" ELSE ""

ReadFile(file) ==
  /\ Alive("file")
  /\ IF file.kit
     THEN IF KitRefused(file) = ""
          THEN list' = file.list /\ carried' = file.code /\ Goes("key")
          ELSE Ends(1, KitRefused(file)) /\ UNCHANGED <<list, carried>>
     ELSE IF ListRefused(file) = ""
          THEN list' = file /\ Goes("key") /\ UNCHANGED carried
          ELSE Ends(1, ListRefused(file)) /\ UNCHANGED <<list, carried>>
  /\ UNCHANGED <<key, road, contacted, work>>

(***************************************************************************)
(* account_code, and the kit's own key if no other was named.              *)
(***************************************************************************)
AskedElsewhere == Has("code_file") \/ Has("wallet_slot")

\* Mistake: a kit's key is taken whatever was named.
KeyFromKitAlways == carried # NoCode

KeyFromKit == carried # NoCode /\ ~AskedElsewhere

\* Mistake: --find is looked at before the mode.
AfterKeySearchFirst ==
  IF Has("find") THEN "search"
  ELSE IF args.mode = "Derive" THEN "derive" ELSE "list"

AfterKey ==
  IF args.mode = "Derive" THEN "derive"
  ELSE IF Has("find") THEN "search" ELSE "list"

Take(from, code) ==
  /\ key' = code
  /\ road' = from
  /\ Goes(AfterKey)
  /\ UNCHANGED <<list, carried>>

NoKeyIn(from, why) ==
  /\ road' = from
  /\ Ends(1, why)
  /\ UNCHANGED <<list, carried, key>>

ReadText(from, text) ==
  IF IsKey(text) THEN Take(from, text.of) ELSE NoKeyIn(from, "not a key")

KitKey ==
  /\ Alive("key")
  /\ KeyFromKit
  /\ ReadText("kit", carried)
  /\ UNCHANGED <<contacted, work>>

SlotKey(slot, signature) ==
  /\ Alive("key")
  /\ Has("wallet_slot")
  /\ LET opened == OpenAccountCode(slot, signature)
     IN  IF IsRefused(opened)
         THEN NoKeyIn("slot", opened.refused)
         ELSE Take("slot", opened.code)
  /\ UNCHANGED <<contacted, work>>

FileKey(text) ==
  /\ Alive("key")
  /\ Has("code_file")
  /\ ReadText("file", text)
  /\ UNCHANGED <<contacted, work>>

TypedKey(text) ==
  /\ Alive("key")
  /\ ~KeyFromKit /\ ~AskedElsewhere
  /\ ReadText("typed", text)
  /\ UNCHANGED <<contacted, work>>

Derive ==
  /\ Alive("derive")
  /\ Ends(0, "")
  /\ UNCHANGED <<opening, contacted, work>>

(***************************************************************************)
(* find_on_network: what the search of Discover comes back with.           *)
(***************************************************************************)
Found(l) ==
  /\ Alive("search")
  /\ l.sealed = "fine" /\ l.by = key
  /\ list' = l
  /\ contacted' = contacted \union {"nodes", "storage"}
  /\ Goes(IF args.mode = "Gui" THEN "window" ELSE "proceed")
  /\ UNCHANGED <<carried, key, road, work>>

FoundNothing ==
  /\ Alive("search")
  /\ contacted' = contacted \union {"nodes"}
  /\ Ends(1, "nothing found")
  /\ UNCHANGED <<opening, work>>

(***************************************************************************)
(* open_from_file after the key: the account, then the text, then the seal. *)
(***************************************************************************)
\* Mistake: the seal is tried before the account is compared.
OpenRefusedBySeal ==
  IF list.sealed = "unreadable" THEN "not readable"
  ELSE IF list.sealed = "damaged" \/ key # list.by THEN "will not open"
  ELSE IF key # list.account THEN "other account" ELSE ""

OpenRefused ==
  IF key # list.account THEN "other account"
  ELSE IF list.sealed = "unreadable" THEN "not readable"
  ELSE IF list.sealed = "damaged" \/ key # list.by THEN "will not open" ELSE ""

OpenList ==
  /\ Alive("list")
  /\ IF OpenRefused = "" THEN Goes("proceed") ELSE Ends(1, OpenRefused)
  /\ UNCHANGED <<opening, contacted, work>>

(***************************************************************************)
(* proceed and do_restore.                                                 *)
(***************************************************************************)
Planned == {item \in list.items : Has("only") => item \in Matching}

Proceed ==
  /\ Alive("proceed")
  /\ \/ Planned = {} /\ Ends(1, "nothing matched") /\ UNCHANGED left
     \/ Planned # {} /\ args.mode = "Restore" /\ left' = Planned /\ Goes("restore")
     \/ Planned # {} /\ args.mode # "Restore" /\ Ends(0, "") /\ UNCHANGED left
  /\ UNCHANGED <<opening, contacted, restored, failed>>

\* Their order is Restore's.
RestoreItem(item) ==
  /\ Alive("restore")
  /\ left' = left \ {item}
  /\ \/ restored' = restored \union {item} /\ UNCHANGED failed
     \/ failed' = failed \union {item} /\ UNCHANGED restored
  /\ contacted' = contacted \union (IF Has("blobs_dir") THEN {} ELSE {"storage"})
  /\ UNCHANGED <<line, at, opening, said>>

\* Mistake: some files are enough.
FinishIfAny ==
  /\ Alive("restore")
  /\ left = {}
  /\ Ends(IF restored # {} THEN 0 ELSE 3, "")
  /\ UNCHANGED <<opening, contacted, work>>

Finish ==
  /\ Alive("restore")
  /\ left = {}
  /\ Ends(IF failed = {} THEN 0 ELSE 3, "")
  /\ UNCHANGED <<opening, contacted, work>>

\* ControlWindow's part, until it is closed.
Window ==
  /\ Alive("window")
  /\ Ends(0, "") \/ Ends(1, "window")
  /\ contacted' \in {contacted, contacted \union {"storage"}}
  /\ UNCHANGED <<opening, work>>

Next ==
  \/ Parse \/ Dispatch \/ WriteGui
  \/ \E address \in Addresses, account \in 0 .. 1, app \in Apps :
        PrintMessage(address, account, app)
  \/ \E file \in Disk : ReadFile(file)
  \/ KitKey
  \/ \E slot \in SlotFiles, signature \in SignatureFiles : SlotKey(slot, signature)
  \/ \E text \in CodeFiles : FileKey(text) \/ TypedKey(text)
  \/ Derive
  \/ \E l \in {file \in Disk : ~file.kit} : Found(l)
  \/ FoundNothing
  \/ OpenList \/ Proceed
  \/ \E item \in left : RestoreItem(item)
  \/ Finish \/ Window

Spec == Init /\ [][Next]_vars
-----------------------------------------------------------------------------
(***************************************************************************)
(* The key is taken from the place that was named on the command line, in  *)
(* a kit only if none was, and typed only when there is no other and the   *)
(* list at hand is one that this build can use (main.rs:291-304,           *)
(* mapfile.rs:41-43).                                                      *)
(***************************************************************************)
RightRoadToTheKey ==
  /\ Has("wallet_slot") => road \in {"none", "slot"}
  /\ Has("code_file") => road \in {"none", "file"}
  /\ carried # NoCode => road # "typed"
  /\ road # "none" /\ list # NoList /\ ~Has("find") => list.marker /\ ~list.newer

(***************************************************************************)
(* A person who has another account's key is told so, and one who has the  *)
(* right key is told that a file is broken only if it is, for every file   *)
(* whose heading is that of the list sealed in it (main.rs:306-313).       *)
(***************************************************************************)
OtherAccountIsSaid ==
  at = "list" /\ list.account = list.by =>
    /\ said = "other account" => key # list.by
    /\ said \in {"not readable", "will not open"} =>
         key = list.by /\ list.sealed # "fine"

(***************************************************************************)
(* A restore that exits 0 gave back every file that was asked for, and at  *)
(* least one (main.rs:606-610).                                            *)
(***************************************************************************)
ZeroMeansAll ==
  exit = 0 /\ at = "restore" =>
    /\ restored = Planned
    /\ restored # {}
    /\ failed = {}

\* The modes of which the code says that they use no network (args.rs:31-44).
NoNetwork == {"List", "FetchPlan", "Derive", "WriteGui", "PrintWalletMessage"}

(***************************************************************************)
(* Nobody is asked but for the work that was asked for, whatever other flags *)
(* are on the line: --derive, --write-gui and the wallet's message ask nobody *)
(* even beside --find; without --find no node is asked, and no storage but by *)
(* the window or a restore that has no folder to read; and only the window, *)
(* opened without --find, asks anybody before a key was read (main.rs:86-95, *)
(* args.rs USAGE, "WHAT GOES OUT").  --list and --print-fetch-plan beside  *)
(* --find are NoNetworkMeansNone's.                                        *)
(***************************************************************************)
AsksOnlyWhatWasAsked ==
  /\ args.mode \in {"Derive", "WriteGui", "PrintWalletMessage"} => contacted = {}
  /\ ~Has("find") =>
       /\ "nodes" \notin contacted
       /\ args.mode \in NoNetwork => contacted = {}
       /\ args.mode = "Restore" /\ Has("blobs_dir") => contacted = {}
  /\ (road = "none" \/ at = "key") /\ contacted # {} => args.mode = "Gui" /\ ~Has("find")

(***************************************************************************)
(* A mode that is said to use no network uses none: "Open the list and print *)
(* what it covers. No network, nothing written." (args.rs:31), and the same *)
(* of --print-fetch-plan (args.rs:33, 238).                                *)
(***************************************************************************)
NoNetworkMeansNone == args.mode \in NoNetwork => contacted = {}
=============================================================================
