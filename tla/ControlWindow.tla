---------------------------- MODULE ControlWindow ----------------------------
(***************************************************************************)
(* The control window: recovery/src/gui/mod.rs and the page it serves.     *)
(*                                                                         *)
(* Four kinds of process share the session.  The main thread opens lists   *)
(* and asks for the NMTS key; it is driven by a channel.  Each request is  *)
(* a thread of its own.  Each restore is a thread that a request started.  *)
(* The page polls and sends requests from what its last poll showed.  Every*)
(* block of code that holds the session lock is one action; what happens   *)
(* between two of them may be anything any other process does.             *)
(***************************************************************************)
EXTENDS Naturals, FiniteSets, Sequences

CONSTANTS
  Lists,         \* the recovery lists at hand
  Size,          \* Size[l]: how many files list l describes
  Starts,        \* how it may be started: "none", "arg" (--map), "seed" (--find)
  First,         \* the list a start with "arg" or "seed" begins from
  Slots,         \* request threads alive at once (the server allows 32)
  Threads,       \* restore threads alive at once
  MaxMaps,       \* bound: lists the page hands over
  MaxRestores,   \* bound: restores the page asks for
  SpawnFails,    \* whether the system may refuse a new thread
  Patience,      \* whether the page waits until nothing is under way
  NoList

ASSUME WindowAssumption ==
  /\ First \in Lists /\ NoList \notin Lists
  /\ Size \in [Lists -> Nat \ {0}]
  /\ Starts \subseteq {"none", "arg", "seed"}
  /\ MaxMaps \in Nat /\ MaxRestores \in Nat
  /\ SpawnFails \in BOOLEAN /\ Patience \subseteq BOOLEAN

VARIABLES
  \* The session, all of it behind one lock.
  phase, list, bundle, named, job,
  \* The program around it.
  main,     \* the main thread: where it is, and the list it is opening
  chan,     \* the events sent to it
  slot,     \* slot[s]: the request being served, if any
  run,      \* run[r]: the restore thread, if any
  \* The page.
  patient,  \* the person waits for the program
  seen,     \* the answer of the last poll to arrive
  shown,    \* the lists it has shown: a tick is never cleared by a new list
  back,     \* the person chose "Choose different files" and nothing since
  stopped,  \* the person closed the program: no more polls
  maps, restores

session == <<phase, list, bundle, named, job>>
page == <<patient, seen, shown, back, stopped, maps, restores>>
vars == <<session, main, chan, slot, run, page>>

Phases == {"need-map", "need-code", "ready", "restoring", "finished"}

NoJob == [total |-> 0, done |-> 0, failed |-> 0]

Idle == [kind |-> "idle"]
NoRun == [on |-> FALSE]

\* The bundle a list was read from, where there is one; named by its list.
NoBundle == NoList

Alive == main.at # "over"

Goes(at, l) == main' = [at |-> at, doc |-> l]

Ends(s) == slot' = [slot EXCEPT ![s] = Idle]

-----------------------------------------------------------------------------
\* Where the main thread begins.
Begun ==
  [none |-> [at |-> "recv", doc |-> NoList],
   arg |-> [at |-> "read", doc |-> First], seed |-> [at |-> "seed", doc |-> First]]

Init ==
  /\ phase = "need-map" /\ list = NoList /\ bundle = NoBundle
  /\ named = NoList /\ job = NoJob
  /\ main \in {Begun[how] : how \in Starts}
  /\ chan = <<>>
  /\ slot = [s \in Slots |-> Idle]
  /\ run = [r \in Threads |-> NoRun]
  /\ patient \in Patience /\ seen = [phase |-> "need-map", list |-> NoList]
  /\ shown = {} /\ back = FALSE /\ stopped = FALSE /\ maps = 0 /\ restores = 0

-----------------------------------------------------------------------------
(* The main thread *)

\* seed_from_network: the server is already answering when this runs.
SeedFromNetwork ==
  /\ main.at = "seed"
  /\ list' = main.doc /\ named' = main.doc /\ bundle' = main.doc
  /\ phase' = "ready"
  /\ Goes("recv", NoList)
  /\ UNCHANGED <<job, chan, slot, run, page>>

\* --map: the file is read, or the window says why not and asks for a list.
ReadArgument ==
  /\ main.at = "read"
  /\ Goes("open", main.doc) \/ Goes("recv", NoList)
  /\ UNCHANGED <<session, chan, slot, run, page>>

\* Mistake: opening a list drops everything sent behind it.
ReceiveOne ==
  /\ main.at = "recv" /\ chan # <<>>
  /\ chan' = <<>>
  /\ IF Head(chan).kind = "map"
     THEN Goes("open", Head(chan).doc)
     ELSE Goes("closing", NoList)
  /\ UNCHANGED <<session, slot, run, page>>

Receive ==
  /\ main.at = "recv" /\ chan # <<>>
  /\ chan' = Tail(chan)
  /\ IF Head(chan).kind = "map"
     THEN Goes("open", Head(chan).doc)
     ELSE Goes("closing", NoList)
  /\ UNCHANGED <<session, slot, run, page>>

\* Mistake: the phase is left as it was.
FailInPlace ==
  /\ list' = NoList /\ named' = NoList
  /\ Goes("recv", NoList)
  /\ UNCHANGED <<phase, bundle, job, chan, slot, run, page>>

\* open_map's fail: the window goes back to asking for a list.  The bundle and
\* the account are left as they were.
Fail ==
  /\ phase' = "need-map" /\ list' = NoList /\ named' = NoList
  /\ Goes("recv", NoList)
  /\ UNCHANGED <<bundle, job, chan, slot, run, page>>

\* A kit, a file that is not a list, or a list of a version not known here.
RejectMap == main.at = "open" /\ Fail

\* Mistake: the list is named before the window stops showing the other one.
AskCodeInPlace ==
  /\ main.at = "open"
  /\ named' = main.doc
  /\ Goes("prompt", main.doc)
  /\ UNCHANGED <<phase, list, bundle, job, chan, slot, run, page>>

AskCode ==
  /\ main.at = "open"
  /\ phase' = "need-code" /\ named' = main.doc
  /\ Goes("prompt", main.doc)
  /\ UNCHANGED <<list, bundle, job, chan, slot, run, page>>

\* A key that is not one, another account's, or a list that will not open.
CodeFails == main.at = "prompt" /\ Fail

\* Mistake: the bundle of the list before is left over.
CodeOpensKeepingBundle ==
  /\ main.at = "prompt"
  /\ list' = main.doc /\ phase' = "ready"
  /\ Goes("recv", NoList)
  /\ UNCHANGED <<bundle, named, job, chan, slot, run, page>>

CodeOpens ==
  /\ main.at = "prompt"
  /\ list' = main.doc /\ bundle' = NoBundle /\ phase' = "ready"
  /\ Goes("recv", NoList)
  /\ UNCHANGED <<named, job, chan, slot, run, page>>

\* The process ends, and with it every thread.
Exit ==
  /\ main.at = "closing"
  /\ Goes("over", NoList)
  /\ slot' = [s \in Slots |-> Idle]
  /\ run' = [r \in Threads |-> NoRun]
  /\ UNCHANGED <<session, chan, page>>

-----------------------------------------------------------------------------
(* The page: each call is made from what the last poll showed *)

\* A patient page shows what is open, and sends nothing while the program is
\* doing something.
Calm ==
  patient =>
    /\ \A s \in Slots : slot[s].kind \in {"idle", "state"}
    /\ main.at = "recv" /\ chan = <<>> /\ seen.list = list
    /\ seen.phase = phase \/ (back /\ phase = "finished")

Calls(s, request) ==
  /\ Alive /\ slot[s] = Idle
  /\ slot' = [slot EXCEPT ![s] = request]
  /\ UNCHANGED <<session, main, chan, run>>

\* Every 700 ms, and after every call that was answered.
Poll(s) ==
  /\ ~stopped
  /\ Calls(s, [kind |-> "state", at |-> "arrived"])
  /\ UNCHANGED page

PickFile(s) ==
  /\ seen.phase = "need-map" /\ maps < MaxMaps /\ Calm
  /\ \E l \in Lists : Calls(s, [kind |-> "map", at |-> "arrived", doc |-> l])
  /\ maps' = maps + 1
  /\ UNCHANGED <<patient, seen, shown, back, stopped, restores>>

\* The ticks are row numbers, put on the list the page shows or on one it showed
\* before, and row numbers are all that is sent.
ClickRestore(s) ==
  /\ seen.phase = "ready" /\ seen.list # NoList /\ restores < MaxRestores /\ Calm
  /\ \E rows \in SUBSET UNION {1 .. Size[l] : l \in shown} \ {{}} :
       Calls(s, [kind |-> "restore", at |-> "arrived", rows |-> rows])
  /\ restores' = restores + 1 /\ back' = FALSE
  /\ UNCHANGED <<patient, seen, shown, stopped, maps>>

ClickAgain ==
  /\ Alive /\ seen.phase = "finished"
  /\ seen' = [seen EXCEPT !.phase = "ready"]
  /\ back' = TRUE
  /\ UNCHANGED <<session, main, chan, slot, run, patient, shown, stopped, maps, restores>>

ClickFinish(s) ==
  /\ seen.phase = "finished" /\ ~stopped /\ Calm
  /\ Calls(s, [kind |-> "quit", at |-> "arrived"])
  /\ stopped' = TRUE
  /\ UNCHANGED <<patient, seen, shown, back, maps, restores>>

-----------------------------------------------------------------------------
(* The request threads *)

\* GET /api/state: the whole picture, taken under the lock.
TakeState(s) ==
  /\ slot[s].kind = "state" /\ slot[s].at = "arrived"
  /\ slot' = [slot EXCEPT ![s] =
       [kind |-> "state", at |-> "answered", phase |-> phase, list |-> list]]
  /\ UNCHANGED <<session, main, chan, run, page>>

\* The answer reaches the page, and replaces what it showed.
StateArrives(s) ==
  /\ slot[s].kind = "state" /\ slot[s].at = "answered"
  /\ seen' = [phase |-> slot[s].phase, list |-> slot[s].list]
  /\ shown' = shown \union ({slot[s].list} \ {NoList})
  /\ Ends(s)
  /\ UNCHANGED <<session, main, chan, run, patient, back, stopped, maps, restores>>

\* POST /api/map: the phase is looked at, and the lock is given back.
CheckMap(s) ==
  /\ slot[s].kind = "map" /\ slot[s].at = "arrived"
  /\ IF phase \in {"need-code", "restoring"}
     THEN Ends(s)
     ELSE slot' = [slot EXCEPT ![s].at = "admitted"]
  /\ UNCHANGED <<session, main, chan, run, page>>

SendMap(s) ==
  /\ slot[s].kind = "map" /\ slot[s].at = "admitted"
  /\ chan' = Append(chan, [kind |-> "map", doc |-> slot[s].doc])
  /\ Ends(s)
  /\ UNCHANGED <<session, main, run, page>>

SendQuit(s) ==
  /\ slot[s].kind = "quit"
  /\ chan' = Append(chan, [kind |-> "quit", doc |-> NoList])
  /\ Ends(s)
  /\ UNCHANGED <<session, main, run, page>>

\* The rows of the page's list that the open list has too.
Chosen(rows) == {i \in rows : list # NoList /\ i <= Size[list]}

\* Mistake: the phase is not taken together with the rows.
BeginRestoreQuietly(s) ==
  /\ slot[s].kind = "restore" /\ slot[s].at = "arrived"
  /\ phase # "restoring" /\ Chosen(slot[s].rows) # {}
  /\ job' = [total |-> Cardinality(Chosen(slot[s].rows)), done |-> 0, failed |-> 0]
  /\ slot' = [slot EXCEPT ![s] =
       [kind |-> "restore", at |-> "subset", of |-> list,
        left |-> Cardinality(Chosen(slot[s].rows))]]
  /\ UNCHANGED <<phase, list, bundle, named, main, chan, run, page>>

\* start_restore under its first lock.
BeginRestore(s) ==
  /\ slot[s].kind = "restore" /\ slot[s].at = "arrived"
  /\ phase # "restoring" /\ Chosen(slot[s].rows) # {}
  /\ job' = [total |-> Cardinality(Chosen(slot[s].rows)), done |-> 0, failed |-> 0]
  /\ phase' = "restoring"
  /\ slot' = [slot EXCEPT ![s] =
       [kind |-> "restore", at |-> "subset", of |-> list,
        left |-> Cardinality(Chosen(slot[s].rows))]]
  /\ UNCHANGED <<list, bundle, named, main, chan, run, page>>

\* Mistake: the phase is taken before the rows are looked at.
RefuseRestoreLate(s) ==
  /\ slot[s].kind = "restore" /\ slot[s].at = "arrived"
  /\ phase = "restoring" \/ Chosen(slot[s].rows) = {}
  /\ phase' = "restoring"
  /\ Ends(s)
  /\ UNCHANGED <<list, bundle, named, job, main, chan, run, page>>

RefuseRestore(s) ==
  /\ slot[s].kind = "restore" /\ slot[s].at = "arrived"
  /\ phase = "restoring" \/ Chosen(slot[s].rows) = {}
  /\ Ends(s)
  /\ UNCHANGED <<session, main, chan, run, page>>

\* start_restore's second lock: the bundle of whatever is open by then.
ReadBundle(s) ==
  /\ slot[s].kind = "restore" /\ slot[s].at = "subset"
  /\ slot' = [slot EXCEPT ![s] =
       [kind |-> "restore", at |-> "spawn", of |-> slot[s].of,
        left |-> slot[s].left, bundle |-> bundle]]
  /\ UNCHANGED <<session, main, chan, run, page>>

Spawn(s) ==
  /\ slot[s].kind = "restore" /\ slot[s].at = "spawn"
  /\ \E r \in Threads :
       /\ ~run[r].on
       /\ run' = [run EXCEPT ![r] =
            [on |-> TRUE, of |-> slot[s].of,
             bundle |-> slot[s].bundle, left |-> slot[s].left]]
  /\ Ends(s)
  /\ UNCHANGED <<session, main, chan, page>>

\* thread::Builder::spawn is refused: an error is answered, and that is all.
SpawnRefused(s) ==
  /\ SpawnFails
  /\ slot[s].kind = "restore" /\ slot[s].at = "spawn"
  /\ Ends(s)
  /\ UNCHANGED <<session, main, chan, run, page>>

-----------------------------------------------------------------------------
(* The restore threads *)

SettleFile(r) ==
  /\ run[r].on /\ run[r].left > 0
  /\ run' = [run EXCEPT ![r].left = @ - 1]
  /\ \/ job' = [job EXCEPT !.done = @ + 1]
     \/ job' = [job EXCEPT !.failed = @ + 1]
  /\ UNCHANGED <<phase, list, bundle, named, main, chan, slot, page>>

\* Mistake: the last file is not waited for.
FinishRunEarly(r) ==
  /\ run[r].on /\ run[r].left <= 1
  /\ phase' = "finished"
  /\ run' = [run EXCEPT ![r] = NoRun]
  /\ UNCHANGED <<list, bundle, named, job, main, chan, slot, page>>

\* Mistake: only a restore of which nothing failed is finished.
FinishRunIfDone(r) ==
  /\ run[r].on /\ run[r].left = 0
  /\ phase' = IF job.failed = 0 THEN "finished" ELSE phase
  /\ run' = [run EXCEPT ![r] = NoRun]
  /\ UNCHANGED <<list, bundle, named, job, main, chan, slot, page>>

FinishRun(r) ==
  /\ run[r].on /\ run[r].left = 0
  /\ phase' = "finished"
  /\ run' = [run EXCEPT ![r] = NoRun]
  /\ UNCHANGED <<list, bundle, named, job, main, chan, slot, page>>

-----------------------------------------------------------------------------
MainStep ==
  \/ SeedFromNetwork \/ ReadArgument \/ Receive \/ RejectMap \/ AskCode
  \/ CodeFails \/ CodeOpens \/ Exit

PageStep(s) ==
  Poll(s) \/ PickFile(s) \/ ClickRestore(s) \/ ClickFinish(s)

Serve(s) ==
  \/ TakeState(s) \/ StateArrives(s) \/ CheckMap(s) \/ SendMap(s) \/ SendQuit(s)
  \/ BeginRestore(s) \/ RefuseRestore(s) \/ ReadBundle(s) \/ Spawn(s)
  \/ SpawnRefused(s)

RunStep(r) == SettleFile(r) \/ FinishRun(r)

Next ==
  \/ MainStep \/ ClickAgain
  \/ \E s \in Slots : PageStep(s) \/ Serve(s)
  \/ \E r \in Threads : RunStep(r)

Spec == Init /\ [][Next]_vars

-----------------------------------------------------------------------------
(* Properties *)

Requests ==
  {Idle} \union [kind : {"state", "quit"}, at : {"arrived"}]
  \union [kind : {"state"}, at : {"answered"}, phase : Phases, list : Lists \union {NoList}]
  \union [kind : {"map"}, at : {"arrived", "admitted"}, doc : Lists]
  \union [kind : {"restore"}, at : {"arrived"}, rows : SUBSET Nat]
  \union [kind : {"restore"}, at : {"subset"}, of : Lists, left : Nat]
  \union [kind : {"restore"}, at : {"spawn"}, of : Lists, left : Nat,
          bundle : Lists \union {NoBundle}]

SessionTypeOK ==
  /\ phase \in Phases
  /\ {list, bundle, named} \subseteq Lists \union {NoList}
  /\ job \in [total : Nat, done : Nat, failed : Nat]

ProgramTypeOK ==
  /\ main \in [at : {"seed", "read", "open", "prompt", "recv", "closing", "over"},
               doc : Lists \union {NoList}]
  /\ chan \in Seq([kind : {"map", "quit"}, doc : Lists \union {NoList}])
  /\ slot \in [Slots -> Requests]
  /\ run \in [Threads -> {NoRun} \union
       [on : {TRUE}, of : Lists, bundle : Lists \union {NoBundle},
        left : Nat]]

PageTypeOK ==
  /\ seen \in [phase : Phases, list : Lists \union {NoList}]
  /\ shown \subseteq Lists /\ {patient, back, stopped} \subseteq BOOLEAN
  /\ maps \in 0 .. MaxMaps /\ restores \in 0 .. MaxRestores

TypeOK == SessionTypeOK /\ ProgramTypeOK /\ PageTypeOK

\* Restores under way: running, or past the point where the phase was taken.
Starting == {s \in Slots : slot[s].kind = "restore" /\ slot[s].at \in {"subset", "spawn"}}
Running == {r \in Threads : run[r].on}

\* "a second list opened from a file after one was found on the network must
\* not inherit the network one's bundle": no restore ever resolves a file of
\* one list in the bundle of another, whatever is opened while it starts.
NoForeignBundle ==
  \A r \in Running : run[r].bundle \in {NoBundle, run[r].of}

\* The page that says "type your key in the terminal" is right: the terminal
\* is asking, for the list the page names.
PromptIsThere ==
  phase = "need-code" => main.at = "prompt" /\ named = main.doc

\* While the window says files are being written, some restore is writing them
\* or about to.
RestoringIsTrue == phase = "restoring" /\ Alive => Starting \union Running # {}

\* A page that may tick rows has a list, the one it names.
ReadyHasItsList == phase = "ready" => list # NoList /\ named = list

\* The person waits for the program, or, however hasty, has handed over no list
\* since it was started.
Steady == patient \/ maps = 0

\* The counters of a finished restore account for every file that was asked for.
FinishedAddsUp ==
  Steady /\ phase = "finished" => job.done + job.failed = job.total

Restores == Cardinality(Starting) + Cardinality(Running)

\* Of restores that are asked for at once only one begins, and none before the
\* last is over.
OneRestore == Steady => Restores <= 1

\* A restore that starts ends, and the window says so or the process is over.
RestoringEnds == phase = "restoring" ~> (phase # "restoring" \/ ~Alive)
=============================================================================
