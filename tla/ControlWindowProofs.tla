-------------------------- MODULE ControlWindowProofs --------------------------
(***************************************************************************)
(* What the control window keeps for any lists, any number of requests and *)
(* restores at once, and any order in which their critical sections run;   *)
(* and what its server keeps, for any number of sockets, any limit and     *)
(* whatever is sent.                                                       *)
(***************************************************************************)
EXTENDS WindowServer, FiniteSetTheorems, TLAPS

-----------------------------------------------------------------------------
(* Types *)

\* The requests there are, so that their kinds need not be looked at again.
LEMMA RequestKinds ==
  /\ Idle \in Requests
  /\ \A k \in {"state", "quit"} : [kind |-> k, at |-> "arrived"] \in Requests
  /\ \A p \in Phases, l \in Lists \union {NoList} :
       [kind |-> "state", at |-> "answered", phase |-> p, list |-> l] \in Requests
  /\ \A a \in {"arrived", "admitted"}, l \in Lists :
       [kind |-> "map", at |-> a, doc |-> l] \in Requests
  /\ \A rows \in SUBSET Nat :
       [kind |-> "restore", at |-> "arrived", rows |-> rows] \in Requests
  /\ \A l \in Lists, n \in Nat :
       [kind |-> "restore", at |-> "subset", of |-> l, left |-> n] \in Requests
  /\ \A l \in Lists, n \in Nat, b \in Lists \union {NoBundle} :
       [kind |-> "restore", at |-> "spawn", of |-> l, left |-> n, bundle |-> b] \in Requests
BY DEF Requests

\* What a request of each kind holds.
LEMMA RequestFields ==
  ASSUME NEW q \in Requests
  PROVE  /\ q.kind = "state" /\ q.at = "answered" =>
              q.phase \in Phases /\ q.list \in Lists \union {NoList}
         /\ q.kind = "map" => q.doc \in Lists
         /\ q.kind = "map" => q = [kind |-> "map", at |-> q.at, doc |-> q.doc]
         /\ q.kind = "restore" /\ q.at = "arrived" => q.rows \in SUBSET Nat
         /\ q.kind = "restore" /\ q.at = "subset" => q.of \in Lists /\ q.left \in Nat
         /\ q.kind = "restore" /\ q.at = "spawn" =>
              q.of \in Lists /\ q.left \in Nat /\ q.bundle \in Lists \union {NoBundle}
<1>1. CASE q \in {Idle}
  BY <1>1 DEF Idle
<1>2. CASE q \in [kind : {"state", "quit"}, at : {"arrived"}]
  BY <1>2
<1>3. CASE q \in [kind : {"state"}, at : {"answered"}, phase : Phases,
                  list : Lists \union {NoList}]
  BY <1>3
<1>4. CASE q \in [kind : {"map"}, at : {"arrived", "admitted"}, doc : Lists]
  BY <1>4
<1>5. CASE q \in [kind : {"restore"}, at : {"arrived"}, rows : SUBSET Nat]
  BY <1>5
<1>6. CASE q \in [kind : {"restore"}, at : {"subset"}, of : Lists, left : Nat]
  BY <1>6
<1>7. CASE q \in [kind : {"restore"}, at : {"spawn"}, of : Lists, left : Nat,
                  bundle : Lists \union {NoBundle}]
  BY <1>7
<1> QED
  BY <1>1, <1>2, <1>3, <1>4, <1>5, <1>6, <1>7 DEF Requests

\* The rows of a request that the open list has can be counted.
LEMMA ChosenIsFinite ==
  ASSUME WindowAssumption, list \in Lists \union {NoList}, NEW rows \in SUBSET Nat
  PROVE  Cardinality(Chosen(rows)) \in Nat
<1>1. CASE list = NoList
  <2>1. Chosen(rows) = {}
    BY <1>1 DEF Chosen
  <2> QED
    BY <2>1, FS_EmptySet
<1>2. CASE list \in Lists
  <2>1. Size[list] \in Nat
    BY <1>2 DEF WindowAssumption
  <2>2. IsFiniteSet(0 .. Size[list])
    BY <2>1, FS_Interval
  <2>3. Chosen(rows) \subseteq 0 .. Size[list]
    <3> SUFFICES ASSUME NEW i \in Chosen(rows) PROVE i \in 0 .. Size[list]
      OBVIOUS
    <3>1. i \in rows /\ i <= Size[list]
      BY DEF Chosen
    <3>2. i \in Nat
      BY <3>1
    <3> QED
      BY <2>1, <3>1, <3>2
  <2>4. IsFiniteSet(Chosen(rows))
    BY <2>2, <2>3, FS_Subset
  <2> QED
    BY <2>4, FS_CardinalityType
<1> QED
  BY <1>1, <1>2

\* Every critical section keeps the types.
LEMMA TypedStep == WindowAssumption /\ TypeOK /\ [Next]_vars => TypeOK'
<1> SUFFICES ASSUME WindowAssumption, TypeOK, [Next]_vars PROVE TypeOK'
  OBVIOUS
<1> USE DEF TypeOK
<1>1. CASE SeedFromNetwork
  <2>1. SessionTypeOK'
    BY <1>1 DEF SeedFromNetwork, Goes, session, SessionTypeOK, ProgramTypeOK, Phases, NoBundle
  <2>2. ProgramTypeOK'
    BY <1>1, RequestKinds, RequestFields
    DEF SeedFromNetwork, Goes, ProgramTypeOK, SessionTypeOK, NoBundle
  <2>3. PageTypeOK'
    BY <1>1 DEF SeedFromNetwork, Goes, page, PageTypeOK, Phases
  <2> QED
    BY <2>1, <2>2, <2>3
<1>2. CASE ReadArgument
  <2>1. SessionTypeOK'
    BY <1>2 DEF ReadArgument, Goes, session, SessionTypeOK, ProgramTypeOK, Phases, NoBundle
  <2>2. ProgramTypeOK'
    <3>1. main.doc \in Lists \union {NoList}
      BY DEF ProgramTypeOK
    <3>2. main' \in {[at |-> "open", doc |-> main.doc], [at |-> "recv", doc |-> NoList]}
      BY <1>2 DEF ReadArgument, Goes
    <3>3. main' \in [at : {"seed", "read", "open", "prompt", "recv", "closing", "over"},
                     doc : Lists \union {NoList}]
      BY <3>1, <3>2
    <3> QED
      BY <1>2, <3>3 DEF ReadArgument, ProgramTypeOK
  <2>3. PageTypeOK'
    BY <1>2 DEF ReadArgument, Goes, page, PageTypeOK, Phases
  <2> QED
    BY <2>1, <2>2, <2>3
<1>3. CASE Receive
  <2>1. SessionTypeOK'
    BY <1>3 DEF Receive, Goes, session, SessionTypeOK, ProgramTypeOK, Phases, NoBundle
  <2>2. ProgramTypeOK'
    <3> DEFINE Event == [kind : {"map", "quit"}, doc : Lists \union {NoList}]
    <3>1. chan \in Seq(Event) /\ chan # <<>>
      BY <1>3 DEF Receive, ProgramTypeOK
    <3>2. Head(chan) \in Event /\ Tail(chan) \in Seq(Event)
      <4> HIDE DEF Event
      <4> QED
        BY <3>1
    <3>3. main' \in {[at |-> "open", doc |-> Head(chan).doc], [at |-> "closing", doc |-> NoList]}
      BY <1>3 DEF Receive, Goes
    <3>4. Head(chan).doc \in Lists \union {NoList}
      BY <3>2
    <3>5. main' \in [at : {"seed", "read", "open", "prompt", "recv", "closing", "over"},
                     doc : Lists \union {NoList}]
      BY <3>3, <3>4
    <3>6. chan' \in Seq(Event) /\ UNCHANGED <<slot, run>>
      BY <1>3, <3>2 DEF Receive
    <3> QED
      BY <3>5, <3>6 DEF ProgramTypeOK
  <2>3. PageTypeOK'
    BY <1>3 DEF Receive, Goes, page, PageTypeOK, Phases
  <2> QED
    BY <2>1, <2>2, <2>3
<1>4. CASE RejectMap
  <2>1. SessionTypeOK'
    BY <1>4 DEF RejectMap, Fail, Goes, session, SessionTypeOK, ProgramTypeOK, Phases, NoBundle
  <2>2. ProgramTypeOK'
    BY <1>4, RequestKinds, RequestFields
    DEF RejectMap, Fail, Goes, ProgramTypeOK, SessionTypeOK, NoBundle
  <2>3. PageTypeOK'
    BY <1>4 DEF RejectMap, Fail, Goes, page, PageTypeOK, Phases
  <2> QED
    BY <2>1, <2>2, <2>3
<1>5. CASE AskCode
  <2>1. SessionTypeOK'
    BY <1>5 DEF AskCode, Goes, session, SessionTypeOK, ProgramTypeOK, Phases, NoBundle
  <2>2. ProgramTypeOK'
    BY <1>5, RequestKinds, RequestFields
    DEF AskCode, Goes, ProgramTypeOK, SessionTypeOK, NoBundle
  <2>3. PageTypeOK'
    BY <1>5 DEF AskCode, Goes, page, PageTypeOK, Phases
  <2> QED
    BY <2>1, <2>2, <2>3
<1>6. CASE CodeFails
  <2>1. SessionTypeOK'
    BY <1>6 DEF CodeFails, Fail, Goes, session, SessionTypeOK, ProgramTypeOK, Phases, NoBundle
  <2>2. ProgramTypeOK'
    BY <1>6, RequestKinds, RequestFields
    DEF CodeFails, Fail, Goes, ProgramTypeOK, SessionTypeOK, NoBundle
  <2>3. PageTypeOK'
    BY <1>6 DEF CodeFails, Fail, Goes, page, PageTypeOK, Phases
  <2> QED
    BY <2>1, <2>2, <2>3
<1>7. CASE CodeOpens
  <2>1. SessionTypeOK'
    BY <1>7 DEF CodeOpens, Goes, session, SessionTypeOK, ProgramTypeOK, Phases, NoBundle
  <2>2. ProgramTypeOK'
    BY <1>7, RequestKinds, RequestFields
    DEF CodeOpens, Goes, ProgramTypeOK, SessionTypeOK, NoBundle
  <2>3. PageTypeOK'
    BY <1>7 DEF CodeOpens, Goes, page, PageTypeOK, Phases
  <2> QED
    BY <2>1, <2>2, <2>3
<1>8. CASE Exit
  <2>1. SessionTypeOK'
    BY <1>8 DEF Exit, Goes, session, SessionTypeOK, ProgramTypeOK, Phases, NoBundle
  <2>2. ProgramTypeOK'
    BY <1>8, RequestKinds, RequestFields
    DEF Exit, Goes, ProgramTypeOK, SessionTypeOK, NoBundle
  <2>3. PageTypeOK'
    BY <1>8 DEF Exit, Goes, page, PageTypeOK, Phases
  <2> QED
    BY <2>1, <2>2, <2>3
<1>9. CASE ClickAgain
  <2>1. SessionTypeOK'
    BY <1>9 DEF ClickAgain, session, SessionTypeOK, ProgramTypeOK, Phases, NoBundle
  <2>2. ProgramTypeOK'
    BY <1>9, RequestKinds, RequestFields
    DEF ClickAgain, ProgramTypeOK, SessionTypeOK, NoBundle
  <2>3. PageTypeOK'
    BY <1>9 DEF ClickAgain, page, PageTypeOK, Phases
  <2> QED
    BY <2>1, <2>2, <2>3
<1>10. ASSUME NEW s \in Slots, Poll(s) PROVE TypeOK'
  <2>1. SessionTypeOK'
    BY <1>10 DEF Poll, Calls, session, SessionTypeOK, ProgramTypeOK, Phases, NoBundle
  <2>2. ProgramTypeOK'
    BY <1>10, RequestKinds, RequestFields
    DEF Poll, Calls, ProgramTypeOK, SessionTypeOK, NoBundle
  <2>3. PageTypeOK'
    BY <1>10 DEF Poll, Calls, page, PageTypeOK, Phases
  <2> QED
    BY <2>1, <2>2, <2>3
<1>11. ASSUME NEW s \in Slots, PickFile(s) PROVE TypeOK'
  <2>1. SessionTypeOK'
    BY <1>11 DEF PickFile, Calls, session, SessionTypeOK, ProgramTypeOK, Phases, NoBundle
  <2>2. ProgramTypeOK'
    <3>1. PICK l \in Lists :
            slot' = [slot EXCEPT ![s] = [kind |-> "map", at |-> "arrived", doc |-> l]]
      BY <1>11 DEF PickFile, Calls
    <3>2. [kind |-> "map", at |-> "arrived", doc |-> l] \in Requests
      BY RequestKinds
    <3>3. slot' \in [Slots -> Requests]
      BY <3>1, <3>2 DEF ProgramTypeOK
    <3> QED
      BY <1>11, <3>3 DEF PickFile, Calls, ProgramTypeOK
  <2>3. PageTypeOK'
    BY <1>11 DEF PickFile, Calls, page, PageTypeOK, Phases
  <2> QED
    BY <2>1, <2>2, <2>3
<1>12. ASSUME NEW s \in Slots, ClickRestore(s) PROVE TypeOK'
  <2>1. SessionTypeOK'
    BY <1>12 DEF ClickRestore, Calls, session, SessionTypeOK, ProgramTypeOK, Phases, NoBundle
  <2>2. ProgramTypeOK'
    <3>1. UNION {1 .. Size[l] : l \in shown} \subseteq Nat
      BY DEF PageTypeOK, WindowAssumption
    <3>2. PICK rows \in SUBSET Nat :
            slot' = [slot EXCEPT ![s] = [kind |-> "restore", at |-> "arrived", rows |-> rows]]
      BY <1>12, <3>1 DEF ClickRestore, Calls
    <3>3. [kind |-> "restore", at |-> "arrived", rows |-> rows] \in Requests
      BY RequestKinds
    <3>4. slot' \in [Slots -> Requests]
      BY <3>2, <3>3 DEF ProgramTypeOK
    <3> QED
      BY <1>12, <3>4 DEF ClickRestore, Calls, ProgramTypeOK
  <2>3. PageTypeOK'
    <3>1. /\ restores' = restores + 1 /\ restores < MaxRestores /\ back' = FALSE
          /\ UNCHANGED <<patient, seen, shown, stopped, maps>>
      BY <1>12 DEF ClickRestore
    <3>2. restores' \in 0 .. MaxRestores
      BY <3>1 DEF PageTypeOK, WindowAssumption
    <3> QED
      BY <3>1, <3>2 DEF PageTypeOK
  <2> QED
    BY <2>1, <2>2, <2>3
<1>13. ASSUME NEW s \in Slots, ClickFinish(s) PROVE TypeOK'
  <2>1. SessionTypeOK'
    BY <1>13 DEF ClickFinish, Calls, session, SessionTypeOK, ProgramTypeOK, Phases, NoBundle
  <2>2. ProgramTypeOK'
    BY <1>13, RequestKinds, RequestFields
    DEF ClickFinish, Calls, ProgramTypeOK, SessionTypeOK, NoBundle
  <2>3. PageTypeOK'
    BY <1>13 DEF ClickFinish, Calls, page, PageTypeOK, Phases
  <2> QED
    BY <2>1, <2>2, <2>3
<1>14. ASSUME NEW s \in Slots, TakeState(s) PROVE TypeOK'
  <2>1. SessionTypeOK'
    BY <1>14 DEF TakeState, session, SessionTypeOK, ProgramTypeOK, Phases, NoBundle
  <2>2. ProgramTypeOK'
    BY <1>14, RequestKinds, RequestFields
    DEF TakeState, ProgramTypeOK, SessionTypeOK, NoBundle
  <2>3. PageTypeOK'
    BY <1>14 DEF TakeState, page, PageTypeOK, Phases
  <2> QED
    BY <2>1, <2>2, <2>3
<1>15. ASSUME NEW s \in Slots, StateArrives(s) PROVE TypeOK'
  <2>1. SessionTypeOK'
    BY <1>15 DEF StateArrives, Ends, session, SessionTypeOK, ProgramTypeOK, Phases, NoBundle
  <2>2. ProgramTypeOK'
    BY <1>15, RequestKinds, RequestFields
    DEF StateArrives, Ends, ProgramTypeOK, SessionTypeOK, NoBundle
  <2>3. PageTypeOK'
    <3>1. slot[s].phase \in Phases /\ slot[s].list \in Lists \union {NoList}
      BY <1>15, RequestFields DEF StateArrives, ProgramTypeOK
    <3>2. /\ seen' = [phase |-> slot[s].phase, list |-> slot[s].list]
          /\ shown' = shown \union ({slot[s].list} \ {NoList})
          /\ UNCHANGED <<patient, back, stopped, maps, restores>>
      BY <1>15 DEF StateArrives
    <3> QED
      BY <3>1, <3>2 DEF PageTypeOK
  <2> QED
    BY <2>1, <2>2, <2>3
<1>16. ASSUME NEW s \in Slots, CheckMap(s) PROVE TypeOK'
  <2>1. SessionTypeOK'
    BY <1>16 DEF CheckMap, Ends, session, SessionTypeOK, ProgramTypeOK, Phases, NoBundle
  <2>2. ProgramTypeOK'
    <3>1. /\ slot[s].doc \in Lists
          /\ slot[s] = [kind |-> "map", at |-> "arrived", doc |-> slot[s].doc]
      BY <1>16, RequestFields DEF CheckMap, ProgramTypeOK
    <3>2. [slot[s] EXCEPT !.at = "admitted"] =
            [kind |-> "map", at |-> "admitted", doc |-> slot[s].doc]
      BY <3>1
    <3>3. [slot[s] EXCEPT !.at = "admitted"] \in Requests
      BY <3>1, <3>2, RequestKinds
    <3>4. \/ slot' = [slot EXCEPT ![s] = Idle]
          \/ slot' = [slot EXCEPT ![s] = [slot[s] EXCEPT !.at = "admitted"]]
      BY <1>16 DEF CheckMap, Ends
    <3>5. slot' \in [Slots -> Requests]
      BY <3>3, <3>4, RequestKinds DEF ProgramTypeOK
    <3> QED
      BY <1>16, <3>5 DEF CheckMap, ProgramTypeOK
  <2>3. PageTypeOK'
    BY <1>16 DEF CheckMap, Ends, page, PageTypeOK, Phases
  <2> QED
    BY <2>1, <2>2, <2>3
<1>17. ASSUME NEW s \in Slots, SendMap(s) PROVE TypeOK'
  <2>1. SessionTypeOK'
    BY <1>17 DEF SendMap, Ends, session, SessionTypeOK, ProgramTypeOK, Phases, NoBundle
  <2>2. ProgramTypeOK'
    <3>1. slot[s].doc \in Lists
      BY <1>17, RequestFields DEF SendMap, ProgramTypeOK
    <3>2. [kind |-> "map", doc |-> slot[s].doc] \in [kind : {"map", "quit"}, doc : Lists \union {NoList}]
      BY <3>1
    <3>3. chan' \in Seq([kind : {"map", "quit"}, doc : Lists \union {NoList}])
      BY <1>17, <3>2 DEF SendMap, ProgramTypeOK
    <3>4. slot' \in [Slots -> Requests]
      BY <1>17, RequestKinds DEF SendMap, Ends, ProgramTypeOK
    <3> QED
      BY <1>17, <3>3, <3>4 DEF SendMap, ProgramTypeOK
  <2>3. PageTypeOK'
    BY <1>17 DEF SendMap, Ends, page, PageTypeOK, Phases
  <2> QED
    BY <2>1, <2>2, <2>3
<1>18. ASSUME NEW s \in Slots, SendQuit(s) PROVE TypeOK'
  <2>1. SessionTypeOK'
    BY <1>18 DEF SendQuit, Ends, session, SessionTypeOK, ProgramTypeOK, Phases, NoBundle
  <2>2. ProgramTypeOK'
    <3>2. [kind |-> "quit", doc |-> NoList] \in [kind : {"map", "quit"}, doc : Lists \union {NoList}]
      OBVIOUS
    <3>3. chan' \in Seq([kind : {"map", "quit"}, doc : Lists \union {NoList}])
      BY <1>18, <3>2 DEF SendQuit, ProgramTypeOK
    <3>4. slot' \in [Slots -> Requests]
      BY <1>18, RequestKinds DEF SendQuit, Ends, ProgramTypeOK
    <3> QED
      BY <1>18, <3>3, <3>4 DEF SendQuit, ProgramTypeOK
  <2>3. PageTypeOK'
    BY <1>18 DEF SendQuit, Ends, page, PageTypeOK, Phases
  <2> QED
    BY <2>1, <2>2, <2>3
<1>19. ASSUME NEW s \in Slots, BeginRestore(s) PROVE TypeOK'
  <2>0. /\ Cardinality(Chosen(slot[s].rows)) \in Nat
        /\ list \in Lists
    <3>1. slot[s].rows \in SUBSET Nat
      BY <1>19, RequestFields DEF BeginRestore, ProgramTypeOK
    <3>2. list \in Lists \union {NoList}
      BY DEF SessionTypeOK
    <3> QED
      BY <1>19, <3>1, <3>2, ChosenIsFinite DEF BeginRestore, Chosen
  <2>1. SessionTypeOK'
    BY <1>19, <2>0 DEF BeginRestore, SessionTypeOK, Phases
  <2>2. ProgramTypeOK'
    <3> DEFINE q == [kind |-> "restore", at |-> "subset", of |-> list,
                     left |-> Cardinality(Chosen(slot[s].rows))]
    <3>1. q \in Requests
      BY <2>0, RequestKinds
    <3>2. slot' = [slot EXCEPT ![s] = q]
      BY <1>19 DEF BeginRestore
    <3>3. slot' \in [Slots -> Requests]
      BY <3>1, <3>2 DEF ProgramTypeOK
    <3> QED
      BY <1>19, <3>3 DEF BeginRestore, ProgramTypeOK
  <2>3. PageTypeOK'
    BY <1>19 DEF BeginRestore, page, PageTypeOK, Phases
  <2> QED
    BY <2>1, <2>2, <2>3
<1>20. ASSUME NEW s \in Slots, RefuseRestore(s) PROVE TypeOK'
  <2>1. SessionTypeOK'
    BY <1>20 DEF RefuseRestore, Ends, session, SessionTypeOK, ProgramTypeOK, Phases, NoBundle
  <2>2. ProgramTypeOK'
    BY <1>20, RequestKinds, RequestFields
    DEF RefuseRestore, Ends, ProgramTypeOK, SessionTypeOK, NoBundle
  <2>3. PageTypeOK'
    BY <1>20 DEF RefuseRestore, Ends, page, PageTypeOK, Phases
  <2> QED
    BY <2>1, <2>2, <2>3
<1>21. ASSUME NEW s \in Slots, ReadBundle(s) PROVE TypeOK'
  <2>1. SessionTypeOK'
    BY <1>21 DEF ReadBundle, session, SessionTypeOK, ProgramTypeOK, Phases, NoBundle
  <2>2. ProgramTypeOK'
    BY <1>21, RequestKinds, RequestFields
    DEF ReadBundle, ProgramTypeOK, SessionTypeOK, NoBundle
  <2>3. PageTypeOK'
    BY <1>21 DEF ReadBundle, page, PageTypeOK, Phases
  <2> QED
    BY <2>1, <2>2, <2>3
<1>22. ASSUME NEW s \in Slots, Spawn(s) PROVE TypeOK'
  <2>1. SessionTypeOK'
    BY <1>22 DEF Spawn, Ends, session, SessionTypeOK, ProgramTypeOK, Phases, NoBundle
  <2>2. ProgramTypeOK'
    <3>1. /\ slot[s].of \in Lists /\ slot[s].left \in Nat
          /\ slot[s].bundle \in Lists \union {NoBundle}
      BY <1>22, RequestFields DEF Spawn, ProgramTypeOK
    <3>2. PICK r \in Threads :
            run' = [run EXCEPT ![r] = [on |-> TRUE, of |-> slot[s].of,
                                       bundle |-> slot[s].bundle, left |-> slot[s].left]]
      BY <1>22 DEF Spawn
    <3>3. run' \in [Threads -> {NoRun} \union
            [on : {TRUE}, of : Lists, bundle : Lists \union {NoBundle}, left : Nat]]
      BY <3>1, <3>2 DEF ProgramTypeOK
    <3>4. slot' \in [Slots -> Requests]
      BY <1>22, RequestKinds DEF Spawn, Ends, ProgramTypeOK
    <3> QED
      BY <1>22, <3>3, <3>4 DEF Spawn, ProgramTypeOK
  <2>3. PageTypeOK'
    BY <1>22 DEF Spawn, Ends, page, PageTypeOK, Phases
  <2> QED
    BY <2>1, <2>2, <2>3
<1>23. ASSUME NEW s \in Slots, SpawnRefused(s) PROVE TypeOK'
  <2>1. SessionTypeOK'
    BY <1>23 DEF SpawnRefused, Ends, session, SessionTypeOK, ProgramTypeOK, Phases, NoBundle
  <2>2. ProgramTypeOK'
    BY <1>23, RequestKinds, RequestFields
    DEF SpawnRefused, Ends, ProgramTypeOK, SessionTypeOK, NoBundle
  <2>3. PageTypeOK'
    BY <1>23 DEF SpawnRefused, Ends, page, PageTypeOK, Phases
  <2> QED
    BY <2>1, <2>2, <2>3
<1>24. ASSUME NEW r \in Threads, SettleFile(r) PROVE TypeOK'
  <2>1. SessionTypeOK'
    <3>1. \/ job' = [job EXCEPT !.done = job.done + 1]
          \/ job' = [job EXCEPT !.failed = job.failed + 1]
      BY <1>24 DEF SettleFile
    <3>2. job' \in [total : Nat, done : Nat, failed : Nat]
      <4>1. job \in [total : Nat, done : Nat, failed : Nat]
        BY DEF SessionTypeOK
      <4> QED
        BY <3>1, <4>1
    <3> QED
      BY <1>24, <3>2 DEF SettleFile, SessionTypeOK
  <2>2. ProgramTypeOK'
    <3> DEFINE Run == [on : {TRUE}, of : Lists, bundle : Lists \union {NoBundle}, left : Nat]
    <3>0. run[r].on /\ run[r].left > 0
      BY <1>24 DEF SettleFile
    <3>1. run[r] \in Run
      <4>1. run[r] \in {NoRun} \union Run
        BY <1>24 DEF ProgramTypeOK
      <4>2. ~NoRun.on
        BY DEF NoRun
      <4> QED
        BY <3>0, <4>1, <4>2
    <3>2. [run[r] EXCEPT !.left = @ - 1] \in Run
      <4>1. run[r].left > 0
        BY <3>0
      <4>2. run[r].left \in Nat
        BY <3>1
      <4>3. run[r].left - 1 \in Nat
        BY <4>1, <4>2
      <4> QED
        BY <3>1, <4>3
    <3>3. run' = [run EXCEPT ![r] = [run[r] EXCEPT !.left = @ - 1]]
      BY <1>24 DEF SettleFile
    <3>4. run' \in [Threads -> {NoRun} \union Run]
      BY <3>2, <3>3 DEF ProgramTypeOK
    <3> QED
      BY <1>24, <3>4 DEF SettleFile, ProgramTypeOK
  <2>3. PageTypeOK'
    BY <1>24 DEF SettleFile, page, PageTypeOK, Phases
  <2> QED
    BY <2>1, <2>2, <2>3
<1>25. ASSUME NEW r \in Threads, FinishRun(r) PROVE TypeOK'
  <2>1. SessionTypeOK'
    BY <1>25 DEF FinishRun, session, SessionTypeOK, ProgramTypeOK, Phases, NoBundle
  <2>2. ProgramTypeOK'
    BY <1>25, RequestKinds, RequestFields
    DEF FinishRun, ProgramTypeOK, SessionTypeOK, NoBundle
  <2>3. PageTypeOK'
    BY <1>25 DEF FinishRun, page, PageTypeOK, Phases
  <2> QED
    BY <2>1, <2>2, <2>3
<1>26. CASE UNCHANGED vars
  BY <1>26 DEF vars, session, page, SessionTypeOK, ProgramTypeOK, PageTypeOK
<1> QED
  BY <1>1, <1>2, <1>3, <1>4, <1>5, <1>6, <1>7, <1>8, <1>9, <1>10, <1>11, <1>12, <1>13,
     <1>14, <1>15, <1>16, <1>17, <1>18, <1>19, <1>20, <1>21, <1>22, <1>23, <1>24, <1>25, <1>26
     DEF Next, MainStep, PageStep, Serve, RunStep

\* However it is started, the main thread begins at a place it has, and not in
\* the middle of a list.
LEMMA BegunPlaces ==
  ASSUME NEW place \in {Begun[how] : how \in Starts}
  PROVE  place \in [at : {"seed", "read", "recv"}, doc : Lists \union {NoList}]
<1>1. First \in Lists /\ Starts \subseteq {"none", "arg", "seed"}
  BY WindowAssumption DEF WindowAssumption
<1>2. PICK how \in {"none", "arg", "seed"} : place = Begun[how]
  BY <1>1
<1> QED
  BY <1>1, <1>2 DEF Begun

LEMMA TypedInit == Init => TypeOK
<1> SUFFICES ASSUME Init PROVE TypeOK
  OBVIOUS
<1>1. First \in Lists
  BY WindowAssumption
<1>2. SessionTypeOK
  BY DEF Init, SessionTypeOK, Phases, NoJob, NoBundle
<1>3. ProgramTypeOK
  <2>1. main \in [at : {"seed", "read", "open", "prompt", "recv", "closing", "over"},
                  doc : Lists \union {NoList}]
    BY <1>1, BegunPlaces DEF Init
  <2> QED
    BY <2>1, RequestKinds DEF Init, ProgramTypeOK
<1>4. PageTypeOK
  <2>1. {patient, back, stopped} \subseteq BOOLEAN
    <3>1. Patience \subseteq BOOLEAN
      BY WindowAssumption DEF WindowAssumption
    <3>2. patient \in Patience /\ back = FALSE /\ stopped = FALSE
      BY DEF Init
    <3> QED
      BY <3>1, <3>2, Zenon
  <2>2. /\ seen \in [phase : Phases, list : Lists \union {NoList}] /\ shown \subseteq Lists
        /\ maps \in 0 .. MaxMaps /\ restores \in 0 .. MaxRestores
    BY WindowAssumption DEF Init, Phases, WindowAssumption
  <2> QED
    BY <2>1, <2>2 DEF PageTypeOK
<1> QED
  BY <1>2, <1>3, <1>4 DEF TypeOK

\* Session, program and page keep their types, for any number of lists, request
\* threads and restores (mod.rs; the page's script).
THEOREM WindowTyped == Spec => []TypeOK
<1>1. Init => TypeOK
  BY TypedInit
<1>2. TypeOK /\ [Next]_vars => TypeOK'
  BY TypedStep, WindowAssumption
<1> QED
  BY <1>1, <1>2, PTL DEF Spec

-----------------------------------------------------------------------------
(* Bundles *)

\* The open bundle, if any, is that of the open list, or of the last one opened;
\* a restore that is about to read it began with the list it belongs to.
BundleIsOfList ==
  /\ bundle # NoBundle => list \in {NoList, bundle}
  /\ main.at = "seed" => list = NoList /\ bundle = NoBundle

AboutToRead(s) == slot[s].kind = "restore" /\ slot[s].at = "subset"

HasRead(s) == slot[s].kind = "restore" /\ slot[s].at = "spawn"

BundlesMatch ==
  /\ BundleIsOfList
  /\ \A s \in Slots : AboutToRead(s) => bundle \in {NoBundle, slot[s].of} /\ main.at # "seed"
  /\ \A s \in Slots : HasRead(s) => slot[s].bundle \in {NoBundle, slot[s].of}
  /\ NoForeignBundle

\* Every critical section keeps them matched.
LEMMA BundlesStep ==
  TypeOK /\ BundlesMatch /\ [Next]_vars => BundlesMatch'
<1> SUFFICES ASSUME TypeOK, BundlesMatch, [Next]_vars PROVE BundlesMatch'
  OBVIOUS
<1>0. slot \in [Slots -> Requests] /\ DOMAIN run = Threads
  BY DEF TypeOK, ProgramTypeOK
<1> USE DEF BundlesMatch, BundleIsOfList, AboutToRead, HasRead, NoForeignBundle,
           Running, NoBundle, NoRun, Idle, Chosen
<1>1. CASE SeedFromNetwork
  BY <1>0, <1>1 DEF SeedFromNetwork, Goes, session, page
<1>2. CASE ReadArgument
  BY <1>0, <1>2 DEF ReadArgument, Goes, session, page
<1>3. CASE Receive
  BY <1>0, <1>3 DEF Receive, Goes, session, page
<1>4. CASE RejectMap
  BY <1>0, <1>4 DEF RejectMap, Fail, Goes, session, page
<1>5. CASE AskCode
  BY <1>0, <1>5 DEF AskCode, Goes, session, page
<1>6. CASE CodeFails
  BY <1>0, <1>6 DEF CodeFails, Fail, Goes, session, page
<1>7. CASE CodeOpens
  BY <1>0, <1>7 DEF CodeOpens, Goes, session, page
<1>8. CASE Exit
  BY <1>0, <1>8 DEF Exit, Goes, session, page
<1>9. CASE ClickAgain
  BY <1>0, <1>9 DEF ClickAgain, session, page
<1>10. ASSUME NEW q \in Slots, Poll(q) PROVE BundlesMatch'
  BY <1>0, <1>10 DEF Poll, Calls, session, page
<1>11. ASSUME NEW q \in Slots, PickFile(q) PROVE BundlesMatch'
  BY <1>0, <1>11 DEF PickFile, Calls, session, page
<1>12. ASSUME NEW q \in Slots, ClickRestore(q) PROVE BundlesMatch'
  BY <1>0, <1>12 DEF ClickRestore, Calls, session, page
<1>13. ASSUME NEW q \in Slots, ClickFinish(q) PROVE BundlesMatch'
  BY <1>0, <1>13 DEF ClickFinish, Calls, session, page
<1>14. ASSUME NEW q \in Slots, TakeState(q) PROVE BundlesMatch'
  BY <1>0, <1>14 DEF TakeState, session, page
<1>15. ASSUME NEW q \in Slots, StateArrives(q) PROVE BundlesMatch'
  BY <1>0, <1>15 DEF StateArrives, Ends, session, page
<1>16. ASSUME NEW q \in Slots, CheckMap(q) PROVE BundlesMatch'
  <2>1. slot[q] = [kind |-> "map", at |-> "arrived", doc |-> slot[q].doc]
    BY <1>0, <1>16, RequestFields DEF CheckMap
  <2>2. \/ slot' = [slot EXCEPT ![q] = Idle]
        \/ slot' = [slot EXCEPT ![q] = [kind |-> "map", at |-> "admitted", doc |-> slot[q].doc]]
    BY <1>0, <1>16, <2>1 DEF CheckMap, Ends
  <2>3. \A s \in Slots : ~AboutToRead(s) \/ s # q
    BY <2>1 DEF AboutToRead
  <2>4. \A s \in Slots : /\ AboutToRead(s)' => AboutToRead(s) /\ slot'[s] = slot[s]
                         /\ HasRead(s)' => HasRead(s) /\ slot'[s] = slot[s]
    BY <1>0, <2>2 DEF AboutToRead, HasRead, Idle
  <2>5. UNCHANGED <<list, bundle, main, run>>
    BY <1>16 DEF CheckMap, session
  <2>6. BundleIsOfList' /\ NoForeignBundle'
    BY <2>5
  <2>7. \A s \in Slots : AboutToRead(s)' =>
          bundle' \in {NoBundle, slot'[s].of} /\ main'.at # "seed"
    BY <2>4, <2>5
  <2>8. \A s \in Slots : HasRead(s)' => slot'[s].bundle \in {NoBundle, slot'[s].of}
    BY <2>4
  <2> QED
    BY <2>6, <2>7, <2>8
<1>17. ASSUME NEW q \in Slots, SendMap(q) PROVE BundlesMatch'
  BY <1>0, <1>17 DEF SendMap, Ends, session, page
<1>18. ASSUME NEW q \in Slots, SendQuit(q) PROVE BundlesMatch'
  BY <1>0, <1>18 DEF SendQuit, Ends, session, page
<1>19. ASSUME NEW q \in Slots, BeginRestore(q) PROVE BundlesMatch'
  BY <1>0, <1>19 DEF BeginRestore, session, page
<1>20. ASSUME NEW q \in Slots, RefuseRestore(q) PROVE BundlesMatch'
  BY <1>0, <1>20 DEF RefuseRestore, Ends, session, page
<1>21. ASSUME NEW q \in Slots, ReadBundle(q) PROVE BundlesMatch'
  BY <1>0, <1>21 DEF ReadBundle, session, page
<1>22. ASSUME NEW q \in Slots, Spawn(q) PROVE BundlesMatch'
  BY <1>0, <1>22 DEF Spawn, Ends, session, page
<1>23. ASSUME NEW q \in Slots, SpawnRefused(q) PROVE BundlesMatch'
  BY <1>0, <1>23 DEF SpawnRefused, Ends, session, page
<1>24. ASSUME NEW r \in Threads, SettleFile(r) PROVE BundlesMatch'
  BY <1>0, <1>24 DEF SettleFile, session, page
<1>25. ASSUME NEW r \in Threads, FinishRun(r) PROVE BundlesMatch'
  BY <1>0, <1>25 DEF FinishRun, session, page
<1>26. CASE UNCHANGED vars
  BY <1>26 DEF vars, session, page
<1> QED
  BY <1>1, <1>2, <1>3, <1>4, <1>5, <1>6, <1>7, <1>8, <1>9, <1>10, <1>11, <1>12, <1>13,
     <1>14, <1>15, <1>16, <1>17, <1>18, <1>19, <1>20, <1>21, <1>22, <1>23, <1>24, <1>25, <1>26
     DEF Next, MainStep, PageStep, Serve, RunStep

LEMMA BundlesInit == Init => BundlesMatch
BY DEF Init, BundlesMatch, BundleIsOfList, AboutToRead, HasRead, NoForeignBundle, Running,
       NoBundle, NoRun, Idle

\* No restore ever looks for a file of one list in the bundle of another,
\* whatever is opened while it starts: open_map clears the bundle in the same
\* critical section that puts the list in place, and start_restore's two locks
\* can be that far apart (mod.rs 373-382, 717).
THEOREM BundleIsNeverForeign == Spec => []NoForeignBundle
<1>1. Init => BundlesMatch
  BY BundlesInit
<1>2. TypeOK /\ BundlesMatch /\ [Next]_vars => BundlesMatch'
  BY BundlesStep
<1>3. BundlesMatch => NoForeignBundle
  BY DEF BundlesMatch
<1> QED
  BY <1>1, <1>2, <1>3, WindowTyped, PTL DEF Spec

-----------------------------------------------------------------------------
(* What the window says *)

\* What main.rs's thread is opening is a list, and once it asks for the key the
\* window names that list.
OpensAList ==
  /\ main.at \in {"seed", "read", "open", "prompt"} => main.doc \in Lists
  /\ main.at = "prompt" => named = main.doc
  /\ \A k \in DOMAIN chan : chan[k].kind = "map" => chan[k].doc \in Lists

SaysWhatIs == OpensAList /\ PromptIsThere /\ ReadyHasItsList

\* Every critical section leaves the window saying what is.
LEMMA SaysStep ==
  TypeOK /\ SaysWhatIs /\ [Next]_vars => SaysWhatIs'
<1> SUFFICES ASSUME TypeOK, SaysWhatIs, [Next]_vars PROVE SaysWhatIs'
  OBVIOUS
<1>0. slot \in [Slots -> Requests] /\ DOMAIN run = Threads
  BY DEF TypeOK, ProgramTypeOK
<1> USE DEF SaysWhatIs, OpensAList, PromptIsThere, ReadyHasItsList, NoBundle
<1>1. CASE SeedFromNetwork
  <2>1. main.doc \in Lists /\ main.doc # NoList
    BY <1>1, WindowAssumption DEF SeedFromNetwork, WindowAssumption
  <2> QED
    BY <1>1, <2>1 DEF SeedFromNetwork, Goes
<1>2. CASE ReadArgument
  BY <1>0, <1>2 DEF ReadArgument, Goes, session, page
<1>3. CASE Receive
  BY <1>0, <1>3 DEF Receive, Goes, session, page
<1>4. CASE RejectMap
  BY <1>0, <1>4 DEF RejectMap, Fail, Goes, session, page
<1>5. CASE AskCode
  BY <1>0, <1>5 DEF AskCode, Goes, session, page
<1>6. CASE CodeFails
  BY <1>0, <1>6 DEF CodeFails, Fail, Goes, session, page
<1>7. CASE CodeOpens
  <2>1. main.doc \in Lists /\ main.doc # NoList
    BY <1>7, WindowAssumption DEF CodeOpens, WindowAssumption
  <2> QED
    BY <1>7, <2>1 DEF CodeOpens, Goes
<1>8. CASE Exit
  BY <1>0, <1>8 DEF Exit, Goes, session, page
<1>9. CASE ClickAgain
  BY <1>0, <1>9 DEF ClickAgain, session, page
<1>10. ASSUME NEW q \in Slots, Poll(q) PROVE SaysWhatIs'
  BY <1>0, <1>10 DEF Poll, Calls, session, page
<1>11. ASSUME NEW q \in Slots, PickFile(q) PROVE SaysWhatIs'
  BY <1>0, <1>11 DEF PickFile, Calls, session, page
<1>12. ASSUME NEW q \in Slots, ClickRestore(q) PROVE SaysWhatIs'
  BY <1>0, <1>12 DEF ClickRestore, Calls, session, page
<1>13. ASSUME NEW q \in Slots, ClickFinish(q) PROVE SaysWhatIs'
  BY <1>0, <1>13 DEF ClickFinish, Calls, session, page
<1>14. ASSUME NEW q \in Slots, TakeState(q) PROVE SaysWhatIs'
  BY <1>0, <1>14 DEF TakeState, session, page
<1>15. ASSUME NEW q \in Slots, StateArrives(q) PROVE SaysWhatIs'
  BY <1>0, <1>15 DEF StateArrives, Ends, session, page
<1>16. ASSUME NEW q \in Slots, CheckMap(q) PROVE SaysWhatIs'
  BY <1>0, <1>16 DEF CheckMap, Ends, session, page
<1>17. ASSUME NEW q \in Slots, SendMap(q) PROVE SaysWhatIs'
  <2>1. slot[q].doc \in Lists
    BY <1>0, <1>17, RequestFields DEF SendMap
  <2>2. chan \in Seq([kind : {"map", "quit"}, doc : Lists \union {NoList}])
    BY DEF TypeOK, ProgramTypeOK
  <2>3. chan' = Append(chan, [kind |-> "map", doc |-> slot[q].doc])
    BY <1>17 DEF SendMap
  <2>4. \A k \in DOMAIN chan' : chan'[k].kind = "map" => chan'[k].doc \in Lists
    <3> SUFFICES ASSUME NEW k \in DOMAIN chan', chan'[k].kind = "map"
                 PROVE  chan'[k].doc \in Lists
      OBVIOUS
    <3>1. CASE k = Len(chan) + 1
      BY <2>1, <2>2, <2>3, <3>1
    <3>2. CASE k # Len(chan) + 1
      <4>1. k \in DOMAIN chan /\ chan'[k] = chan[k]
        BY <2>2, <2>3, <3>2
      <4> QED
        BY <4>1
    <3> QED
      BY <3>1, <3>2
  <2> QED
    BY <1>17, <2>4 DEF SendMap, session
<1>18. ASSUME NEW q \in Slots, SendQuit(q) PROVE SaysWhatIs'
  BY <1>0, <1>18 DEF SendQuit, Ends, session, page
<1>19. ASSUME NEW q \in Slots, BeginRestore(q) PROVE SaysWhatIs'
  BY <1>0, <1>19 DEF BeginRestore, session, page
<1>20. ASSUME NEW q \in Slots, RefuseRestore(q) PROVE SaysWhatIs'
  BY <1>0, <1>20 DEF RefuseRestore, Ends, session, page
<1>21. ASSUME NEW q \in Slots, ReadBundle(q) PROVE SaysWhatIs'
  BY <1>0, <1>21 DEF ReadBundle, session, page
<1>22. ASSUME NEW q \in Slots, Spawn(q) PROVE SaysWhatIs'
  BY <1>0, <1>22 DEF Spawn, Ends, session, page
<1>23. ASSUME NEW q \in Slots, SpawnRefused(q) PROVE SaysWhatIs'
  BY <1>0, <1>23 DEF SpawnRefused, Ends, session, page
<1>24. ASSUME NEW r \in Threads, SettleFile(r) PROVE SaysWhatIs'
  BY <1>0, <1>24 DEF SettleFile, session, page
<1>25. ASSUME NEW r \in Threads, FinishRun(r) PROVE SaysWhatIs'
  BY <1>0, <1>25 DEF FinishRun, session, page
<1>26. CASE UNCHANGED vars
  BY <1>26 DEF vars, session, page
<1> QED
  BY <1>1, <1>2, <1>3, <1>4, <1>5, <1>6, <1>7, <1>8, <1>9, <1>10, <1>11, <1>12, <1>13,
     <1>14, <1>15, <1>16, <1>17, <1>18, <1>19, <1>20, <1>21, <1>22, <1>23, <1>24, <1>25, <1>26
     DEF Next, MainStep, PageStep, Serve, RunStep

\* The window says what is, from the start on.
LEMMA SaysInit == Init => SaysWhatIs
<1> SUFFICES ASSUME Init PROVE SaysWhatIs
  OBVIOUS
<1>1. main.at \in {"seed", "read", "recv"} /\ (main.at # "recv" => main.doc \in Lists)
  BY BegunPlaces, WindowAssumption DEF Init, Begun, WindowAssumption
<1> QED
  BY <1>1, WindowAssumption DEF Init, SaysWhatIs, OpensAList, PromptIsThere, ReadyHasItsList,
                                WindowAssumption

LEMMA SaysHolds == Spec => []SaysWhatIs
<1>1. Init => SaysWhatIs
  BY SaysInit
<1>2. TypeOK /\ SaysWhatIs /\ [Next]_vars => SaysWhatIs'
  BY SaysStep
<1> QED
  BY <1>1, <1>2, WindowTyped, PTL DEF Spec

\* A page that says the terminal is asking for a key is right, and right about
\* the list (mod.rs 336-346), whatever restores begin or end meanwhile.
THEOREM PromptIsTrue == Spec => []PromptIsThere
<1>1. SaysWhatIs => PromptIsThere
  BY DEF SaysWhatIs
<1> QED
  BY <1>1, SaysHolds, PTL

\* A window that offers rows to tick has the list it names (mod.rs 291-302,
\* 373-382, 691-714).
THEOREM ReadyIsTrue == Spec => []ReadyHasItsList
<1>1. SaysWhatIs => ReadyHasItsList
  BY DEF SaysWhatIs
<1> QED
  BY <1>1, SaysHolds, PTL

\* Every critical section keeps the phase true.
LEMMA RestoringStep ==
  TypeOK /\ ~SpawnFails /\ RestoringIsTrue /\ [Next]_vars => RestoringIsTrue'
<1> SUFFICES ASSUME TypeOK, ~SpawnFails, RestoringIsTrue, [Next]_vars PROVE RestoringIsTrue'
  OBVIOUS
<1>0. slot \in [Slots -> Requests] /\ DOMAIN run = Threads
  BY DEF TypeOK, ProgramTypeOK
<1> USE DEF RestoringIsTrue, Starting, Running, Alive, NoRun, Idle
<1>1. CASE SeedFromNetwork
  BY <1>0, <1>1 DEF SeedFromNetwork, Goes, session, page
<1>2. CASE ReadArgument
  BY <1>0, <1>2 DEF ReadArgument, Goes, session, page
<1>3. CASE Receive
  BY <1>0, <1>3 DEF Receive, Goes, session, page
<1>4. CASE RejectMap
  BY <1>0, <1>4 DEF RejectMap, Fail, Goes, session, page
<1>5. CASE AskCode
  BY <1>0, <1>5 DEF AskCode, Goes, session, page
<1>6. CASE CodeFails
  BY <1>0, <1>6 DEF CodeFails, Fail, Goes, session, page
<1>7. CASE CodeOpens
  BY <1>0, <1>7 DEF CodeOpens, Goes, session, page
<1>8. CASE Exit
  BY <1>0, <1>8 DEF Exit, Goes, session, page
<1>9. CASE ClickAgain
  BY <1>0, <1>9 DEF ClickAgain, session, page
<1>10. ASSUME NEW q \in Slots, Poll(q) PROVE RestoringIsTrue'
  BY <1>0, <1>10 DEF Poll, Calls, session, page
<1>11. ASSUME NEW q \in Slots, PickFile(q) PROVE RestoringIsTrue'
  BY <1>0, <1>11 DEF PickFile, Calls, session, page
<1>12. ASSUME NEW q \in Slots, ClickRestore(q) PROVE RestoringIsTrue'
  BY <1>0, <1>12 DEF ClickRestore, Calls, session, page
<1>13. ASSUME NEW q \in Slots, ClickFinish(q) PROVE RestoringIsTrue'
  BY <1>0, <1>13 DEF ClickFinish, Calls, session, page
<1>14. ASSUME NEW q \in Slots, TakeState(q) PROVE RestoringIsTrue'
  BY <1>0, <1>14 DEF TakeState, session, page
<1>15. ASSUME NEW q \in Slots, StateArrives(q) PROVE RestoringIsTrue'
  BY <1>0, <1>15 DEF StateArrives, Ends, session, page
<1>16. ASSUME NEW q \in Slots, CheckMap(q) PROVE RestoringIsTrue'
  BY <1>0, <1>16 DEF CheckMap, Ends, session, page
<1>17. ASSUME NEW q \in Slots, SendMap(q) PROVE RestoringIsTrue'
  BY <1>0, <1>17 DEF SendMap, Ends, session, page
<1>18. ASSUME NEW q \in Slots, SendQuit(q) PROVE RestoringIsTrue'
  BY <1>0, <1>18 DEF SendQuit, Ends, session, page
<1>19. ASSUME NEW q \in Slots, BeginRestore(q) PROVE RestoringIsTrue'
  BY <1>0, <1>19 DEF BeginRestore, session, page
<1>20. ASSUME NEW q \in Slots, RefuseRestore(q) PROVE RestoringIsTrue'
  BY <1>0, <1>20 DEF RefuseRestore, Ends, session, page
<1>21. ASSUME NEW q \in Slots, ReadBundle(q) PROVE RestoringIsTrue'
  BY <1>0, <1>21 DEF ReadBundle, session, page
<1>22. ASSUME NEW q \in Slots, Spawn(q) PROVE RestoringIsTrue'
  BY <1>0, <1>22 DEF Spawn, Ends, session, page
<1>23. ASSUME NEW q \in Slots, SpawnRefused(q) PROVE RestoringIsTrue'
  BY <1>0, <1>23 DEF SpawnRefused, Ends, session, page
<1>24. ASSUME NEW r \in Threads, SettleFile(r) PROVE RestoringIsTrue'
  BY <1>0, <1>24 DEF SettleFile, session, page
<1>25. ASSUME NEW r \in Threads, FinishRun(r) PROVE RestoringIsTrue'
  BY <1>0, <1>25 DEF FinishRun, session, page
<1>26. CASE UNCHANGED vars
  BY <1>26 DEF vars, session, page
<1> QED
  BY <1>1, <1>2, <1>3, <1>4, <1>5, <1>6, <1>7, <1>8, <1>9, <1>10, <1>11, <1>12, <1>13,
     <1>14, <1>15, <1>16, <1>17, <1>18, <1>19, <1>20, <1>21, <1>22, <1>23, <1>24, <1>25, <1>26
     DEF Next, MainStep, PageStep, Serve, RunStep

\* Where a thread can always be started, a window that says files are being
\* written is writing them or about to: the phase is taken by a request that
\* goes on to start a restore, and given back only by a restore that is over
\* (mod.rs 691-731, 794-800).
THEOREM RestoringIsNoLie == ~SpawnFails => (Spec => []RestoringIsTrue)
<1> SUFFICES ASSUME ~SpawnFails PROVE Spec => []RestoringIsTrue
  OBVIOUS
<1>1. Init => RestoringIsTrue
  BY DEF Init, RestoringIsTrue
<1>2. TypeOK /\ RestoringIsTrue /\ [Next]_vars => RestoringIsTrue'
  BY RestoringStep
<1> QED
  BY <1>1, <1>2, WindowTyped, PTL DEF Spec

-----------------------------------------------------------------------------
(* What the window tells a person who waits for it *)

\* A request other than a poll.
Asks(s) == slot[s].kind \notin {"idle", "state"}

\* A restore that took the phase and has no thread yet.
Begins(s) == slot[s].kind = "restore" /\ slot[s].at \in {"subset", "spawn"}

\* The counters account for every file but those left.
Adds(left) == job.done + job.failed + left = job.total

Undisturbed == phase = "restoring" /\ main.at = "recv" /\ chan = <<>>

\* One thing at a time: a request, or a restore, or a list being opened; and
\* a restore is counted from where its rows are taken to its end.
OneThing ==
  /\ \A s, t \in Slots : Asks(s) /\ Asks(t) => s = t
  /\ \A q, r \in Threads : run[q].on /\ run[r].on => q = r
  /\ \A s \in Slots, r \in Threads : ~(Asks(s) /\ run[r].on)
  /\ \A s \in Slots : Asks(s) => main.at = "recv" /\ chan = <<>>
  /\ \A s \in Slots : Begins(s) => Undisturbed /\ Adds(slot[s].left)
  /\ \A r \in Threads : run[r].on => Undisturbed /\ Adds(run[r].left)
  /\ phase = "finished" => Adds(0)

\* A page that sends a request while it is calm sends the only one there is.
LEMMA CalmAsks ==
  ASSUME OneThing, patient, Calm, NEW q \in Slots, NEW request,
         slot \in [Slots -> Requests], Calls(q, request),
         request.kind \in {"map", "restore", "quit"}, ~Begins(q)', phase # "restoring"
  PROVE  OneThing'
<1>1. \A s \in Slots : ~Asks(s)
  BY DEF Calm, Asks
<1>2. /\ slot'[q] = request /\ \A s \in Slots : s # q => slot'[s] = slot[s]
      /\ UNCHANGED <<phase, job, main, chan, run>>
  BY DEF Calls, session
<1>3. \A s \in Slots : s # q => ~Asks(s)' /\ ~Begins(s)'
  BY <1>1, <1>2 DEF Asks, Begins
<1>4. main.at = "recv" /\ chan = <<>> /\ \A r \in Threads : ~run[r].on
  BY DEF Calm, OneThing, Undisturbed
<1>5. \A s \in Slots : ~Begins(s)'
  BY <1>3
<1> QED
  BY <1>2, <1>3, <1>4, <1>5 DEF OneThing, Adds

\* Every critical section keeps it one thing, as long as the person waits.
LEMMA PatientStep ==
  TypeOK /\ (patient => OneThing) /\ [Next]_vars => (patient => OneThing)'
<1> SUFFICES ASSUME TypeOK, patient => OneThing, [Next]_vars, patient' PROVE OneThing'
  OBVIOUS
<1>0. /\ slot \in [Slots -> Requests] /\ DOMAIN run = Threads
      /\ patient /\ OneThing
      /\ job \in [total : Nat, done : Nat, failed : Nat]
      /\ run \in [Threads -> {NoRun} \union
           [on : {TRUE}, of : Lists, bundle : Lists \union {NoBundle}, left : Nat]]
  <2>1. patient
    BY DEF Next, MainStep, PageStep, Serve, RunStep, vars, page, SeedFromNetwork,
      ReadArgument, Receive, RejectMap, CodeFails, Fail, AskCode, CodeOpens, Exit,
      ClickAgain, Poll, PickFile, ClickRestore, ClickFinish, TakeState, StateArrives,
      CheckMap, SendMap, SendQuit, BeginRestore, RefuseRestore, ReadBundle, Spawn,
      SpawnRefused, SettleFile, FinishRun
  <2> QED
    BY <2>1 DEF TypeOK, ProgramTypeOK, SessionTypeOK
<1> USE DEF OneThing, Asks, Begins, Adds, Undisturbed, NoRun, Idle
<1>1. CASE SeedFromNetwork
  BY <1>0, <1>1 DEF SeedFromNetwork, Goes, session, page
<1>2. CASE ReadArgument
  BY <1>0, <1>2 DEF ReadArgument, Goes, session, page
<1>3. CASE Receive
  BY <1>0, <1>3 DEF Receive, Goes, session, page
<1>4. CASE RejectMap
  BY <1>0, <1>4 DEF RejectMap, Fail, Goes, session, page
<1>5. CASE AskCode
  BY <1>0, <1>5 DEF AskCode, Goes, session, page
<1>6. CASE CodeFails
  BY <1>0, <1>6 DEF CodeFails, Fail, Goes, session, page
<1>7. CASE CodeOpens
  BY <1>0, <1>7 DEF CodeOpens, Goes, session, page
<1>8. CASE Exit
  BY <1>0, <1>8 DEF Exit, Goes, session, page
<1>9. CASE ClickAgain
  BY <1>0, <1>9 DEF ClickAgain, session, page
<1>10. ASSUME NEW q \in Slots, Poll(q) PROVE OneThing'
  BY <1>0, <1>10 DEF Poll, Calls, session, page
<1>11. ASSUME NEW q \in Slots, PickFile(q) PROVE OneThing'
  <2>1. PICK l \in Lists : Calls(q, [kind |-> "map", at |-> "arrived", doc |-> l])
    BY <1>11 DEF PickFile
  <2>2. Calm /\ phase # "restoring"
    BY <1>0, <1>11 DEF PickFile, Calm
  <2>3. ~Begins(q)'
    BY <1>0, <2>1 DEF Calls
  <2> QED
    BY <1>0, <2>1, <2>2, <2>3, CalmAsks
<1>12. ASSUME NEW q \in Slots, ClickRestore(q) PROVE OneThing'
  <2>1. PICK rows : Calls(q, [kind |-> "restore", at |-> "arrived", rows |-> rows])
    BY <1>12 DEF ClickRestore
  <2>2. Calm /\ phase # "restoring"
    BY <1>0, <1>12 DEF ClickRestore, Calm
  <2>3. ~Begins(q)'
    BY <1>0, <2>1 DEF Calls
  <2> QED
    BY <1>0, <2>1, <2>2, <2>3, CalmAsks
<1>13. ASSUME NEW q \in Slots, ClickFinish(q) PROVE OneThing'
  <2>1. Calls(q, [kind |-> "quit", at |-> "arrived"])
    BY <1>13 DEF ClickFinish
  <2>2. Calm /\ phase # "restoring"
    BY <1>0, <1>13 DEF ClickFinish, Calm
  <2>3. ~Begins(q)'
    BY <1>0, <2>1 DEF Calls
  <2> QED
    BY <1>0, <2>1, <2>2, <2>3, CalmAsks
<1>14. ASSUME NEW q \in Slots, TakeState(q) PROVE OneThing'
  BY <1>0, <1>14 DEF TakeState, session, page
<1>15. ASSUME NEW q \in Slots, StateArrives(q) PROVE OneThing'
  BY <1>0, <1>15 DEF StateArrives, Ends, session, page
<1>16. ASSUME NEW q \in Slots, CheckMap(q) PROVE OneThing'
  <2>1. slot[q] = [kind |-> "map", at |-> "arrived", doc |-> slot[q].doc]
    BY <1>0, <1>16, RequestFields DEF CheckMap
  <2>2. \/ slot' = [slot EXCEPT ![q] = Idle]
        \/ slot' = [slot EXCEPT ![q] = [kind |-> "map", at |-> "admitted", doc |-> slot[q].doc]]
    BY <1>0, <1>16, <2>1 DEF CheckMap, Ends
  <2>3. Asks(q) /\ ~Begins(q)
    BY <2>1
  <2>4. \A s \in Slots : /\ Asks(s)' => Asks(s)
                         /\ Begins(s)' => Begins(s) /\ slot'[s] = slot[s]
    BY <1>0, <2>2, <2>3
  <2>5. UNCHANGED <<phase, job, main, chan, run>>
    BY <1>16 DEF CheckMap, session
  <2> QED
    BY <1>0, <2>4, <2>5
<1>17. ASSUME NEW q \in Slots, SendMap(q) PROVE OneThing'
  BY <1>0, <1>17 DEF SendMap, Ends, session, page
<1>18. ASSUME NEW q \in Slots, SendQuit(q) PROVE OneThing'
  BY <1>0, <1>18 DEF SendQuit, Ends, session, page
<1>19. ASSUME NEW q \in Slots, BeginRestore(q) PROVE OneThing'
  <2> DEFINE n == Cardinality(Chosen(slot[q].rows))
  <2>1. n \in Nat
    <3>1. slot[q].rows \in SUBSET Nat
      BY <1>0, <1>19, RequestFields DEF BeginRestore
    <3> QED
      BY <3>1, ChosenIsFinite, WindowAssumption DEF TypeOK, SessionTypeOK
  <2> HIDE DEF n
  <2>2. /\ Asks(q) /\ phase' = "restoring" /\ UNCHANGED <<main, chan, run>>
        /\ job' = [total |-> n, done |-> 0, failed |-> 0]
        /\ slot' = [slot EXCEPT ![q] =
             [kind |-> "restore", at |-> "subset", of |-> list, left |-> n]]
    BY <1>19 DEF BeginRestore, n
  <2>3. \A s \in Slots : s # q => ~Asks(s)' /\ ~Begins(s)'
    BY <1>0, <2>2
  <2>4. Asks(q)' /\ slot'[q].left = n
    BY <1>0, <2>2
  <2>5. main.at = "recv" /\ chan = <<>> /\ \A r \in Threads : ~run[r].on
    BY <1>0, <2>2
  <2> QED
    BY <2>1, <2>2, <2>3, <2>4, <2>5
<1>20. ASSUME NEW q \in Slots, RefuseRestore(q) PROVE OneThing'
  BY <1>0, <1>20 DEF RefuseRestore, Ends, session, page
<1>21. ASSUME NEW q \in Slots, ReadBundle(q) PROVE OneThing'
  BY <1>0, <1>21 DEF ReadBundle, session, page
<1>22. ASSUME NEW q \in Slots, Spawn(q) PROVE OneThing'
  <2>1. PICK r \in Threads :
          run' = [run EXCEPT ![r] = [on |-> TRUE, of |-> slot[q].of,
                    bundle |-> slot[q].bundle, left |-> slot[q].left]]
    BY <1>22 DEF Spawn
  <2>2. /\ Begins(q) /\ Asks(q) /\ slot' = [slot EXCEPT ![q] = Idle]
        /\ UNCHANGED <<phase, job, main, chan>>
    BY <1>22 DEF Spawn, Ends, session
  <2>3. \A s \in Slots : ~Asks(s)' /\ ~Begins(s)'
    BY <1>0, <2>2
  <2>4. /\ run'[r].on /\ run'[r].left = slot[q].left
        /\ \A t \in Threads : t # r => ~run'[t].on
    BY <1>0, <2>1, <2>2
  <2> QED
    BY <1>0, <2>2, <2>3, <2>4
<1>23. ASSUME NEW q \in Slots, SpawnRefused(q) PROVE OneThing'
  BY <1>0, <1>23 DEF SpawnRefused, Ends, session, page
<1>24. ASSUME NEW r \in Threads, SettleFile(r) PROVE OneThing'
  <2>0. run[r] \in [on : {TRUE}, of : Lists, bundle : Lists \union {NoBundle}, left : Nat]
    <3>1. run[r].on
      BY <1>24 DEF SettleFile
    <3>2. run[r] # NoRun
      BY <3>1
    <3> QED
      BY <1>0, <3>2
  <2>1. /\ run[r].on /\ run[r].left > 0 /\ run[r].left \in Nat
        /\ run' = [run EXCEPT ![r].left = @ - 1]
        /\ UNCHANGED <<phase, main, chan, slot>>
    BY <1>0, <1>24, <2>0 DEF SettleFile
  <2>2. /\ run'[r].on /\ run'[r].left = run[r].left - 1
        /\ \A t \in Threads : t # r => run'[t] = run[t]
    BY <1>0, <2>0, <2>1
  <2>3. \A s \in Slots : ~Asks(s)' /\ ~Begins(s)'
    BY <1>0, <2>1
  <2>4. /\ job'.done + job'.failed = job.done + job.failed + 1
        /\ job'.total = job.total
    BY <1>0, <1>24 DEF SettleFile
  <2>5. job.done + job.failed \in Nat
    BY <1>0
  <2> QED
    BY <1>0, <2>1, <2>2, <2>3, <2>4, <2>5
<1>25. ASSUME NEW r \in Threads, FinishRun(r) PROVE OneThing'
  <2>1. /\ run[r].on /\ run[r].left = 0 /\ phase' = "finished"
        /\ run' = [run EXCEPT ![r] = NoRun]
        /\ UNCHANGED <<job, main, chan, slot>>
    BY <1>25 DEF FinishRun
  <2>2. \A t \in Threads : ~run'[t].on
    BY <1>0, <2>1
  <2>3. \A s \in Slots : ~Asks(s)' /\ ~Begins(s)'
    BY <1>0, <2>1
  <2>4. Adds(0)
    BY <1>0, <2>1
  <2> QED
    BY <2>1, <2>2, <2>3, <2>4
<1>26. CASE UNCHANGED vars
  BY <1>0, <1>26 DEF vars, session, page
<1> QED
  BY <1>1, <1>2, <1>3, <1>4, <1>5, <1>6, <1>7, <1>8, <1>9, <1>10, <1>11, <1>12, <1>13,
     <1>14, <1>15, <1>16, <1>17, <1>18, <1>19, <1>20, <1>21, <1>22, <1>23, <1>24, <1>25, <1>26
     DEF Next, MainStep, PageStep, Serve, RunStep

LEMMA PatientHolds == Spec => [](patient => OneThing)
<1>1. Init => (patient => OneThing)
  BY DEF Init, OneThing, Asks, Begins, Idle, NoRun, Adds, Begun
<1> QED
  BY <1>1, PatientStep, WindowTyped, PTL DEF Spec

\* Restores begin one after the other, and each is counted from where its rows
\* are taken to its end.
OneJob ==
  /\ \A s, t \in Slots : Begins(s) /\ Begins(t) => s = t
  /\ \A q, r \in Threads : run[q].on /\ run[r].on => q = r
  /\ \A s \in Slots, r \in Threads : ~(Begins(s) /\ run[r].on)
  /\ \A s \in Slots : Begins(s) => phase = "restoring" /\ Adds(slot[s].left)
  /\ \A r \in Threads : run[r].on => phase = "restoring" /\ Adds(run[r].left)
  /\ phase = "finished" => Adds(0)

Quits == Seq([kind : {"quit"}, doc : Lists \union {NoList}])

NothingBegun == (\A s \in Slots : ~Begins(s)) /\ (\A r \in Threads : ~run[r].on)

\* The main thread opens the list the program was started with before anything
\* can be restored, and no other is on its way to it.
FirstListOnly ==
  /\ \A s \in Slots : slot[s].kind # "map"
  /\ chan \in Quits
  /\ main.at \in {"seed", "read", "open", "prompt"} => list = NoList /\ NothingBegun
  /\ OneJob

\* What touches no restore leaves them one after the other.
LEMMA JobSame ==
  ASSUME OneJob, UNCHANGED <<phase, job, run>>,
         \A s \in Slots : Begins(s)' => Begins(s) /\ slot'[s].left = slot[s].left
  PROVE  OneJob'
BY DEF OneJob, Adds

\* Every critical section keeps it so, however hasty the page, as long as it
\* hands over no list.
LEMMA FirstListStep ==
  TypeOK /\ (maps = 0 => FirstListOnly) /\ [Next]_vars => (maps = 0 => FirstListOnly)'
<1> SUFFICES ASSUME TypeOK, maps = 0 => FirstListOnly, [Next]_vars, maps' = 0
             PROVE  FirstListOnly'
  OBVIOUS
<1>0. /\ slot \in [Slots -> Requests] /\ DOMAIN run = Threads
      /\ maps = 0 /\ FirstListOnly
      /\ job \in [total : Nat, done : Nat, failed : Nat]
      /\ run \in [Threads -> {NoRun} \union
           [on : {TRUE}, of : Lists, bundle : Lists \union {NoBundle}, left : Nat]]
  <2>1. maps \in Nat
    BY WindowAssumption DEF WindowAssumption, TypeOK, PageTypeOK
  <2>2. maps' \in {maps, maps + 1}
    BY DEF Next, MainStep, PageStep, Serve, RunStep, vars, page, SeedFromNetwork,
      ReadArgument, Receive, RejectMap, CodeFails, Fail, AskCode, CodeOpens, Exit,
      ClickAgain, Poll, PickFile, ClickRestore, ClickFinish, TakeState, StateArrives,
      CheckMap, SendMap, SendQuit, BeginRestore, RefuseRestore, ReadBundle, Spawn,
      SpawnRefused, SettleFile, FinishRun
  <2>3. maps = 0
    BY <2>1, <2>2
  <2> QED
    BY <2>3 DEF TypeOK, ProgramTypeOK, SessionTypeOK
<1>a. OneJob /\ chan \in Quits /\ \A s \in Slots : slot[s].kind # "map"
  BY <1>0 DEF FirstListOnly
<1>b. ASSUME UNCHANGED <<phase, list, job, run, main, chan>>,
             \A s \in Slots : /\ slot'[s].kind # "map"
                              /\ Begins(s)' => Begins(s) /\ slot'[s].left = slot[s].left
      PROVE  FirstListOnly'
  BY <1>0, <1>a, <1>b, JobSame DEF FirstListOnly, NothingBegun
<1>c. ASSUME NEW q \in Slots, NEW request, Calls(q, request),
             request.kind # "map", request.kind # "restore" \/ request.at = "arrived"
      PROVE  FirstListOnly'
  <2>1. \A s \in Slots : slot'[s] = IF s = q THEN request ELSE slot[s]
    BY <1>0, <1>c DEF Calls
  <2>2. UNCHANGED <<phase, list, job, run, main, chan>>
    BY <1>c DEF Calls, session
  <2>3. request.kind # "map" /\ ~(request.kind = "restore" /\ request.at \in {"subset", "spawn"})
    BY <1>c
  <2>4. ASSUME NEW s \in Slots
        PROVE  slot'[s].kind # "map" /\ (Begins(s)' => Begins(s) /\ slot'[s].left = slot[s].left)
    <3>1. CASE s = q
      <4>1. slot'[s] = request
        BY <2>1, <3>1
      <4> QED
        BY <2>3, <4>1 DEF Begins
    <3>2. CASE s # q
      BY <1>a, <2>1, <3>2 DEF Begins
    <3> QED
      BY <3>1, <3>2
  <2> QED
    BY <1>b, <2>2, <2>4
<1>d. ASSUME NEW q \in Slots, Ends(q), UNCHANGED <<phase, list, job, run, main, chan>>
      PROVE  FirstListOnly'
  <2>1. \A s \in Slots : slot'[s] = IF s = q THEN Idle ELSE slot[s]
    BY <1>0, <1>d DEF Ends
  <2> QED
    BY <1>a, <1>b, <1>d, <2>1 DEF Begins, Idle
\* The list the program was started with.
<1>1. CASE SeedFromNetwork \/ RejectMap \/ AskCode \/ CodeFails \/ CodeOpens
  <2>1. /\ UNCHANGED <<job, chan, slot, run>> /\ phase' # "finished"
        /\ main.at \in {"seed", "open", "prompt"}
        /\ main'.at \in {"seed", "read", "open", "prompt"} => list' = list
    BY <1>1 DEF SeedFromNetwork, RejectMap, AskCode, CodeFails, CodeOpens, Fail, Goes
  <2>2. NothingBegun /\ list = NoList
    BY <1>0, <2>1 DEF FirstListOnly
  <2>3. NothingBegun' /\ OneJob'
    BY <2>1, <2>2 DEF NothingBegun, OneJob, Begins
  <2> QED
    BY <1>a, <2>1, <2>2, <2>3 DEF FirstListOnly
<1>2. CASE ReadArgument
  <2>1. /\ UNCHANGED <<session, chan, slot, run>> /\ main.at = "read"
    BY <1>2 DEF ReadArgument
  <2>2. OneJob'
    BY <1>a, <2>1, JobSame DEF session, Begins
  <2> QED
    BY <1>0, <1>a, <2>1, <2>2 DEF FirstListOnly, NothingBegun, Begins, session
<1>3. CASE Receive
  <2>1. Head(chan).kind = "quit" /\ Tail(chan) \in Quits
    <3> DEFINE Event == [kind : {"quit"}, doc : Lists \union {NoList}]
    <3>1. chan \in Seq(Event) /\ chan # <<>>
      BY <1>3, <1>a DEF Receive, Quits
    <3>2. Head(chan) \in Event /\ Tail(chan) \in Seq(Event)
      <4> HIDE DEF Event
      <4> QED
        BY <3>1
    <3> QED
      BY <3>2 DEF Quits
  <2>2. /\ main'.at = "closing" /\ chan' \in Quits /\ UNCHANGED <<session, slot, run>>
    BY <1>3, <2>1 DEF Receive, Goes
  <2>3. OneJob'
    BY <1>a, <2>2, JobSame DEF session, Begins
  <2> QED
    BY <1>a, <2>2, <2>3 DEF FirstListOnly
<1>4. CASE Exit
  <2>1. /\ main'.at = "over" /\ UNCHANGED <<session, chan>>
        /\ \A s \in Slots : slot'[s] = Idle
        /\ \A r \in Threads : ~run'[r].on
    BY <1>4 DEF Exit, Goes, NoRun
  <2>2. OneJob'
    BY <1>a, <2>1 DEF OneJob, Begins, Idle, Adds, session
  <2> QED
    BY <1>a, <2>1, <2>2 DEF FirstListOnly, Idle
<1>5. CASE ClickAgain
  BY <1>5, <1>a, <1>b DEF ClickAgain, session, Begins
<1>6. ASSUME NEW q \in Slots, PageStep(q) PROVE FirstListOnly'
  <2>1. CASE Poll(q)
    BY <2>1, <1>c DEF Poll
  <2>2. CASE PickFile(q)
    BY <1>0, <2>2 DEF PickFile
  <2>3. CASE ClickRestore(q)
    BY <2>3, <1>c DEF ClickRestore
  <2>4. CASE ClickFinish(q)
    BY <2>4, <1>c DEF ClickFinish
  <2> QED
    BY <1>6, <2>1, <2>2, <2>3, <2>4 DEF PageStep
<1>7. ASSUME NEW q \in Slots,
             StateArrives(q) \/ RefuseRestore(q) \/ SpawnRefused(q)
      PROVE  FirstListOnly'
  BY <1>7, <1>d DEF StateArrives, RefuseRestore, SpawnRefused, session
<1>8. ASSUME NEW q \in Slots, CheckMap(q) \/ SendMap(q) PROVE FirstListOnly'
  BY <1>8, <1>a DEF CheckMap, SendMap
<1>9. ASSUME NEW q \in Slots, TakeState(q) PROVE FirstListOnly'
  <2>1. \A s \in Slots : s # q => slot'[s] = slot[s]
    BY <1>0, <1>9 DEF TakeState
  <2>2. slot'[q].kind = "state" /\ UNCHANGED <<phase, list, job, run, main, chan>>
    BY <1>0, <1>9 DEF TakeState, session
  <2> QED
    BY <1>a, <1>b, <2>1, <2>2 DEF Begins
<1>10. ASSUME NEW q \in Slots, ReadBundle(q) PROVE FirstListOnly'
  <2>1. \A s \in Slots : s # q => slot'[s] = slot[s]
    BY <1>0, <1>10 DEF ReadBundle
  <2>2. /\ slot'[q].kind = "restore" /\ slot'[q].left = slot[q].left /\ Begins(q)
        /\ UNCHANGED <<phase, list, job, run, main, chan>>
    BY <1>0, <1>10 DEF ReadBundle, session, Begins
  <2> QED
    BY <1>a, <1>b, <2>1, <2>2 DEF Begins
<1>11. ASSUME NEW q \in Slots, SendQuit(q) PROVE FirstListOnly'
  <2>1. chan' \in Quits
    <3> DEFINE Event == [kind : {"quit"}, doc : Lists \union {NoList}]
    <3>1. chan \in Seq(Event)
      BY <1>a DEF Quits
    <3>2. [kind |-> "quit", doc |-> NoList] \in Event
      OBVIOUS
    <3>3. chan' = Append(chan, [kind |-> "quit", doc |-> NoList])
      BY <1>11 DEF SendQuit
    <3>4. chan' \in Seq(Event)
      <4> HIDE DEF Event
      <4> QED
        BY <3>1, <3>2, <3>3
    <3> QED
      BY <3>4 DEF Quits
  <2>2. /\ \A s \in Slots : slot'[s] = IF s = q THEN Idle ELSE slot[s]
        /\ UNCHANGED <<session, main, run>>
    BY <1>0, <1>11 DEF SendQuit, Ends
  <2>3. \A s \in Slots : slot'[s].kind # "map" /\ (Begins(s)' => Begins(s) /\ slot'[s] = slot[s])
    BY <1>a, <2>2 DEF Begins, Idle
  <2>4. OneJob'
    BY <1>a, <2>2, <2>3, JobSame DEF session
  <2> QED
    BY <1>0, <2>1, <2>2, <2>3, <2>4 DEF FirstListOnly, NothingBegun, session
\* The restores.
<1>12. ASSUME NEW q \in Slots, BeginRestore(q) PROVE FirstListOnly'
  <2> DEFINE n == Cardinality(Chosen(slot[q].rows))
  <2>1. n \in Nat
    <3>1. slot[q].rows \in SUBSET Nat
      BY <1>0, <1>12, RequestFields DEF BeginRestore
    <3> QED
      BY <3>1, ChosenIsFinite, WindowAssumption DEF TypeOK, SessionTypeOK
  <2>2. list # NoList
    BY <1>12 DEF BeginRestore, Chosen
  <2> HIDE DEF n
  <2>3. /\ phase # "restoring" /\ phase' = "restoring" /\ UNCHANGED <<list, main, chan, run>>
        /\ job' = [total |-> n, done |-> 0, failed |-> 0]
        /\ slot' = [slot EXCEPT ![q] =
             [kind |-> "restore", at |-> "subset", of |-> list, left |-> n]]
    BY <1>12 DEF BeginRestore, n
  <2>4. NothingBegun
    BY <1>a, <2>3 DEF OneJob, NothingBegun
  <2>5. /\ \A s \in Slots : s # q => slot'[s] = slot[s]
        /\ slot'[q].kind = "restore" /\ slot'[q].left = n
    BY <1>0, <2>3
  <2>6. \A s \in Slots : s # q => ~Begins(s)'
    BY <2>4, <2>5 DEF NothingBegun, Begins
  <2>7. OneJob'
    BY <2>1, <2>3, <2>4, <2>5, <2>6 DEF OneJob, NothingBegun, Adds
  <2>8. main'.at \notin {"seed", "read", "open", "prompt"}
    BY <1>0, <2>2, <2>3 DEF FirstListOnly
  <2> QED
    BY <1>a, <2>3, <2>5, <2>7, <2>8 DEF FirstListOnly
<1>13. ASSUME NEW q \in Slots, Spawn(q) PROVE FirstListOnly'
  <2>1. PICK r \in Threads :
          run' = [run EXCEPT ![r] = [on |-> TRUE, of |-> slot[q].of,
                    bundle |-> slot[q].bundle, left |-> slot[q].left]]
    BY <1>13 DEF Spawn
  <2>2. /\ Begins(q) /\ slot' = [slot EXCEPT ![q] = Idle]
        /\ UNCHANGED <<phase, list, job, main, chan>>
    BY <1>13 DEF Spawn, Ends, session, Begins
  <2>3. \A s \in Slots : slot'[s].kind # "map" /\ ~Begins(s)'
    BY <1>0, <1>a, <2>2 DEF Begins, Idle, OneJob
  <2>4. /\ run'[r].on /\ run'[r].left = slot[q].left
        /\ \A t \in Threads : t # r => ~run'[t].on
    BY <1>0, <1>a, <2>1, <2>2 DEF OneJob
  <2>5. phase = "restoring" /\ Adds(slot[q].left)
    BY <1>a, <2>2 DEF OneJob
  <2>6. OneJob'
    BY <2>2, <2>3, <2>4, <2>5 DEF OneJob, Adds
  <2>7. main.at \notin {"seed", "read", "open", "prompt"}
    BY <1>0, <2>2 DEF FirstListOnly, NothingBegun
  <2> QED
    BY <1>a, <2>2, <2>3, <2>6, <2>7 DEF FirstListOnly
<1>14. ASSUME NEW r \in Threads, RunStep(r) PROVE FirstListOnly'
  <2>0. /\ run[r] \in [on : {TRUE}, of : Lists, bundle : Lists \union {NoBundle}, left : Nat]
        /\ run[r].on
    <3>1. run[r].on
      BY <1>14 DEF RunStep, SettleFile, FinishRun
    <3>2. run[r] # NoRun
      BY <3>1 DEF NoRun
    <3> QED
      BY <1>0, <3>1, <3>2
  <2>1. /\ phase = "restoring" /\ Adds(run[r].left)
        /\ \A t \in Threads : t # r => ~run[t].on
        /\ \A s \in Slots : ~Begins(s)
        /\ main.at \notin {"seed", "read", "open", "prompt"}
    BY <1>0, <1>a, <2>0 DEF OneJob, FirstListOnly, NothingBegun
  <2>2. UNCHANGED <<list, main, chan, slot>> /\ \A s \in Slots : ~Begins(s)'
    BY <1>14, <2>1 DEF RunStep, SettleFile, FinishRun, Begins
  <2>3. CASE SettleFile(r)
    <3>1. /\ run' = [run EXCEPT ![r].left = @ - 1] /\ phase' = phase
      BY <2>3 DEF SettleFile
    <3>2. /\ run'[r].left = run[r].left - 1
          /\ \A t \in Threads : t # r => run'[t] = run[t]
      BY <1>0, <2>0, <3>1
    <3>3. /\ job'.done + job'.failed = job.done + job.failed + 1
          /\ job'.total = job.total
      BY <1>0, <2>3 DEF SettleFile
    <3>4. job.done + job.failed \in Nat /\ run[r].left \in Nat
      BY <1>0, <2>0
    <3>5. Adds(run[r].left)'
      BY <2>1, <3>2, <3>3, <3>4 DEF Adds
    <3>6. OneJob'
      BY <2>1, <2>2, <3>1, <3>2, <3>5 DEF OneJob, Adds
    <3> QED
      BY <1>a, <2>1, <2>2, <3>6 DEF FirstListOnly
  <2>4. CASE FinishRun(r)
    <3>1. /\ run[r].left = 0 /\ phase' = "finished" /\ UNCHANGED job
          /\ \A t \in Threads : ~run'[t].on
      BY <1>0, <2>1, <2>4 DEF FinishRun, NoRun
    <3>2. OneJob'
      BY <2>1, <2>2, <3>1 DEF OneJob, Adds
    <3> QED
      BY <1>a, <2>1, <2>2, <3>2 DEF FirstListOnly
  <2> QED
    BY <1>14, <2>3, <2>4 DEF RunStep
<1>15. CASE UNCHANGED vars
  BY <1>15, <1>a, <1>b DEF vars, session, Begins
<1> QED
  BY <1>1, <1>2, <1>3, <1>4, <1>5, <1>6, <1>7, <1>8, <1>9, <1>10, <1>11, <1>12, <1>13,
     <1>14, <1>15 DEF Next, MainStep, Serve

LEMMA FirstListInit == Init => FirstListOnly
<1>1. Init => /\ \A s \in Slots : slot[s] = Idle
              /\ \A r \in Threads : run[r] = NoRun
              /\ chan = <<>> /\ list = NoList /\ phase = "need-map"
  BY DEF Init
<1>2. chan = <<>> => chan \in Quits
  BY DEF Quits
<1> QED
  BY <1>1, <1>2 DEF FirstListOnly, OneJob, NothingBegun, Begins, Idle, NoRun

LEMMA SteadyIsOneJob ==
  ASSUME patient => OneThing, maps = 0 => FirstListOnly, Steady
  PROVE  OneJob
<1>1. CASE patient
  <2>1. \A s \in Slots : Begins(s) => Asks(s)
    BY DEF Begins, Asks
  <2> QED
    BY <1>1, <2>1 DEF OneThing, OneJob, Undisturbed
<1>2. CASE maps = 0
  BY <1>2 DEF FirstListOnly
<1> QED
  BY <1>1, <1>2 DEF Steady

\* Restores begin one after the other for a person who waits, and for any page
\* that hands over no list.
LEMMA SteadyHolds == Spec => [](Steady => OneJob)
<1>1. (patient => OneThing) /\ (maps = 0 => FirstListOnly) => (Steady => OneJob)
  BY SteadyIsOneJob
<1> QED
  BY <1>1, PatientHolds, FirstListInit, FirstListStep, WindowTyped, PTL DEF Spec

LEMMA OneJobAddsUp == ASSUME TypeOK, Steady => OneJob PROVE FinishedAddsUp
BY DEF OneJob, Adds, FinishedAddsUp, TypeOK, SessionTypeOK

\* Restores one after the other are one at a time.
LEMMA OneJobOneRestore == ASSUME Steady => OneJob PROVE OneRestore
<1> SUFFICES ASSUME OneJob PROVE Restores <= 1
  BY DEF OneRestore
<1> USE DEF OneJob, Begins
<1>1. \A s \in Starting : s \in Slots /\ Begins(s)
  BY DEF Starting
<1>2. CASE Running = {}
  <2>1. Cardinality(Running) = 0
    BY <1>2, FS_EmptySet
  <2>2. CASE Starting = {}
    BY <2>1, <2>2, FS_EmptySet DEF Restores
  <2>3. CASE Starting # {}
    <3>1. PICK s \in Starting : Starting = {s}
      BY <1>1, <2>3
    <3>2. Cardinality(Starting) = 1
      BY <3>1, FS_Singleton
    <3> QED
      BY <2>1, <3>2 DEF Restores
  <2> QED
    BY <2>2, <2>3
<1>3. CASE Running # {}
  <2>1. PICK r \in Running : Running = {r}
    BY <1>3 DEF Running
  <2>2. Starting = {}
    BY <1>1, <2>1 DEF Running
  <2>3. Cardinality(Running) = 1 /\ Cardinality(Starting) = 0
    BY <2>1, <2>2, FS_Singleton, FS_EmptySet
  <2> QED
    BY <2>3 DEF Restores
<1> QED
  BY <1>2, <1>3

\* The counters of a finished restore account for every file that was asked
\* for, if the person waits for the program or hands over no list: total is
\* taken with the phase, one counter grows for each file, and no second restore
\* resets or adds to them (mod.rs 691-731, 735-800).
THEOREM TheCountersAddUp == Spec => []FinishedAddsUp
<1>1. TypeOK /\ (Steady => OneJob) => FinishedAddsUp
  BY OneJobAddsUp
<1> QED
  BY <1>1, SteadyHolds, WindowTyped, PTL

\* However many restores a page asks for at once, with any number of request
\* and restore threads, one begins and no other before it is over, as long as the
\* page has handed over no list: the phase is looked at and taken under one lock
\* (mod.rs 691-701).  A page that hands over lists too has one restore at a time
\* if the person waits.
THEOREM OneAtATime == Spec => []OneRestore
<1>1. (Steady => OneJob) => OneRestore
  BY OneJobOneRestore
<1> QED
  BY <1>1, SteadyHolds, PTL

-----------------------------------------------------------------------------
(* The server: the requests under way and their count *)

Sockets == Slots \union Strangers

Places == {"backlog", "head", "body", "api", "done"}

\* A request that came is somewhere on its way.
Connections ==
  {Server!NoConn} \union [at : Places, req : Server!Requests, sent : Nat]

CountInv ==
  /\ conn \in [Sockets -> Connections]
  /\ live = Cardinality(Server!Holding)
  /\ live \in Nat /\ live <= MaxConnections

Held(k) == k.at \in {"head", "body", "api", "done"}

\* The threads are the sockets that hold a slot.
LEMMA HoldingIs == Server!Holding = {c \in Sockets : Held(conn[c])}
BY DEF Server!Holding, Held, Sockets

\* A socket that holds a slot before and after, or neither, leaves the count.
LEMMA SameCount ==
  ASSUME CountInv, NEW c \in Sockets, NEW k \in Connections,
         conn' = [conn EXCEPT ![c] = k], live' = live, Held(conn[c]) <=> Held(k)
  PROVE  CountInv'
<1>1. /\ conn' \in [Sockets -> Connections]
      /\ \A d \in Sockets : Held(conn[d]) <=> Held(conn'[d])
  BY DEF CountInv
<1>2. Server!Holding' = Server!Holding
  BY <1>1 DEF Server!Holding, Held, Sockets
<1> QED
  BY <1>1, <1>2 DEF CountInv

\* One that takes a slot is counted.
LEMMA OneMore ==
  ASSUME CountInv, NEW c \in Sockets, NEW k \in Connections,
         conn' = [conn EXCEPT ![c] = k], live' = live + 1, live < MaxConnections,
         ~Held(conn[c]), Held(k)
  PROVE  CountInv'
<1>1. conn' \in [Sockets -> Connections]
  BY DEF CountInv
<1>2. Server!Holding' = Server!Holding \union {c} /\ c \notin Server!Holding
  BY DEF CountInv, Server!Holding, Held, Sockets
<1>3. IsFiniteSet(Server!Holding)
  BY FS_Subset, HoldingIs, ServerAssumption DEF Sockets
<1>4. Cardinality(Server!Holding') = Cardinality(Server!Holding) + 1
  BY <1>2, <1>3, FS_AddElement
<1>5. live' \in Nat /\ live' <= MaxConnections
  BY ServerAssumption DEF CountInv
<1> QED
  BY <1>1, <1>4, <1>5 DEF CountInv

\* One that gives a slot back is counted off.
LEMMA OneLess ==
  ASSUME CountInv, NEW c \in Sockets, NEW k \in Connections,
         conn' = [conn EXCEPT ![c] = k], live' = live - 1,
         Held(conn[c]), ~Held(k)
  PROVE  CountInv'
<1>1. conn' \in [Sockets -> Connections]
  BY DEF CountInv
<1>2. Server!Holding' = Server!Holding \ {c} /\ c \in Server!Holding
  BY DEF CountInv, Server!Holding, Held, Sockets
<1>3. IsFiniteSet(Server!Holding)
  BY FS_Subset, HoldingIs, ServerAssumption DEF Sockets
<1>4. Cardinality(Server!Holding') = Cardinality(Server!Holding) - 1
  BY <1>2, <1>3, FS_RemoveElement
<1>5. Cardinality(Server!Holding') \in Nat
  BY <1>2, <1>3, FS_RemoveElement, FS_CardinalityType
<1> QED
  BY <1>1, <1>4, <1>5, ServerAssumption DEF CountInv

-----------------------------------------------------------------------------
(* The server's steps *)

\* A request goes on from one place to another.
At(c, place) == [conn[c] EXCEPT !.at = place]

LEMMA AtIs ==
  ASSUME CountInv, NEW c \in Sockets, conn[c].at # "none", NEW place \in Places
  PROVE  At(c, place) \in Connections /\ At(c, place).at = place
<1>1. conn[c] \in [at : Places, req : Server!Requests, sent : Nat]
  BY DEF CountInv, Connections, Server!NoConn
<1> QED
  BY <1>1 DEF At, Connections

LEMMA ConnectKeeps ==
  ASSUME CountInv, NEW c \in Sockets, NEW r \in Server!Requests, Server!Connect(c, r)
  PROVE  CountInv'
<1>1. [at |-> "backlog", req |-> r, sent |-> 0] \in Connections
  <2>1. [at |-> "backlog", req |-> r, sent |-> 0] \in
          [at : Places, req : Server!Requests, sent : Nat]
    BY DEF Places
  <2> QED
    BY <2>1 DEF Connections
<1>2. ~Held(conn[c])
  BY DEF Server!Connect, Server!NoConn, Held
<1>3. /\ conn' = [conn EXCEPT ![c] = [at |-> "backlog", req |-> r, sent |-> 0]]
      /\ live' = live
  BY DEF Server!Connect
<1>4. ~Held([at |-> "backlog", req |-> r, sent |-> 0])
  BY DEF Held
<1> QED
  BY <1>1, <1>2, <1>3, <1>4, SameCount

LEMMA ClosedKeeps ==
  ASSUME CountInv, NEW c \in Sockets, Server!Drop(c) \/ Server!NoThread(c)
  PROVE  CountInv'
<1>1. /\ conn' = [conn EXCEPT ![c] = Server!NoConn] /\ live' = live
      /\ conn[c].at = "backlog"
  BY DEF Server!Drop, Server!NoThread
<1>2. Server!NoConn \in Connections /\ ~Held(Server!NoConn) /\ ~Held(conn[c])
  BY <1>1 DEF Connections, Held, Server!NoConn
<1> QED
  BY <1>1, <1>2, SameCount

LEMMA AcceptKeeps ==
  ASSUME CountInv, NEW c \in Sockets, Server!Accept(c)
  PROVE  CountInv'
<1>1. /\ conn[c].at = "backlog" /\ live < MaxConnections /\ live' = live + 1
      /\ conn' = [conn EXCEPT ![c] = At(c, "head")]
  BY DEF Server!Accept, At
<1>2. At(c, "head") \in Connections /\ Held(At(c, "head")) /\ ~Held(conn[c])
  <2>1. conn[c].at # "none"
    BY <1>1
  <2>2. At(c, "head") \in Connections /\ At(c, "head").at = "head"
    BY <2>1, AtIs DEF Places
  <2> QED
    BY <1>1, <2>2 DEF Held
<1> QED
  BY <1>1, <1>2, OneMore

\* A thread that goes on keeps its slot.
LEMMA ThreadGoesOn ==
  ASSUME CountInv, NEW c \in Sockets, NEW place \in {"body", "api", "done"},
         Held(conn[c]), conn' = [conn EXCEPT ![c] = At(c, place)], live' = live
  PROVE  CountInv'
<1>1. At(c, place) \in Connections /\ Held(At(c, place))
  <2>1. conn[c].at # "none"
    BY DEF Held
  <2>2. At(c, place) \in Connections /\ At(c, place).at = place
    BY <2>1, AtIs DEF Places
  <2> QED
    BY <2>2 DEF Held
<1> QED
  BY <1>1, SameCount

LEMMA TrickleKeeps ==
  ASSUME CountInv, NEW c \in Sockets, Server!Trickle(c)
  PROVE  CountInv'
<1> DEFINE k == [conn[c] EXCEPT !.sent = @ + 1]
<1>1. conn[c] \in [at : Places, req : Server!Requests, sent : Nat]
  BY DEF CountInv, Connections, Server!NoConn, Server!Trickle
<1>2. k \in Connections /\ Held(k) /\ Held(conn[c])
  BY <1>1 DEF Connections, Held, Server!Trickle
<1>3. conn' = [conn EXCEPT ![c] = k] /\ live' = live
  BY DEF Server!Trickle
<1> QED
  BY <1>2, <1>3, SameCount

LEMMA ThreadKeeps ==
  ASSUME CountInv, NEW c \in Sockets, Server!Thread(c)
  PROVE  CountInv'
<1>1. CASE Server!Decide(c)
  <2> DEFINE place == IF Server!Verdict(conn[c].req) = "body" THEN "body" ELSE "done"
  <2>1. /\ Held(conn[c]) /\ live' = live
        /\ conn' = [conn EXCEPT ![c] = At(c, place)]
    BY <1>1 DEF Server!Decide, Held, At
  <2> QED
    BY <2>1, ThreadGoesOn
<1>2. CASE Server!ReadBody(c)
  <2> DEFINE place == IF conn[c].req.body = "whole" THEN "api" ELSE "done"
  <2>1. /\ Held(conn[c]) /\ live' = live
        /\ conn' = [conn EXCEPT ![c] = At(c, place)]
    BY <1>2 DEF Server!ReadBody, Held, At
  <2> QED
    BY <2>1, ThreadGoesOn
<1>3. CASE Server!End(c)
  <2>1. /\ Held(conn[c]) /\ live' = live - 1
        /\ conn' = [conn EXCEPT ![c] = Server!NoConn]
    BY <1>3 DEF Server!End, Held
  <2>2. Server!NoConn \in Connections /\ ~Held(Server!NoConn)
    BY DEF Connections, Held, Server!NoConn
  <2> QED
    BY <2>1, <2>2, OneLess
<1> QED
  BY <1>1, <1>2, <1>3 DEF Server!Thread

-----------------------------------------------------------------------------
(* The window behind it *)

\* Nothing is counted when the program begins and when it is over.
LEMMA NobodyIsCounted ==
  ASSUME live = 0, conn = [c \in Sockets |-> Server!NoConn]
  PROVE  CountInv
<1>1. \A c \in Sockets : conn[c] = Server!NoConn
  OBVIOUS
<1>2. Server!Holding = {}
  BY <1>1, HoldingIs DEF Held, Server!NoConn
<1> QED
  BY <1>2, FS_EmptySet, ServerAssumption DEF CountInv, Connections

LEMMA CountInit == WindowInit => CountInv
BY NobodyIsCounted DEF WindowInit, Server!HttpInit, Sockets

LEMMA CountStep == CountInv /\ [ServerNext]_allvars => CountInv'
<1> SUFFICES ASSUME CountInv, [ServerNext]_allvars PROVE CountInv'
  OBVIOUS
<1>0. ASSUME UNCHANGED <<live, conn>> PROVE CountInv'
  BY <1>0 DEF CountInv, Server!Holding
<1>1. CASE Otherwise
  <2>1. CASE live' = 0 /\ conn' = [c \in Sockets |-> Server!NoConn]
    <3>1. Server!Holding' = {}
      BY <2>1 DEF Server!Holding, Server!NoConn, Sockets
    <3>2. conn' \in [Sockets -> Connections]
      BY <2>1 DEF Connections
    <3> QED
      BY <2>1, <3>1, <3>2, FS_EmptySet, ServerAssumption DEF CountInv
  <2> QED
    BY <1>0, <1>1, <2>1 DEF Otherwise, Sockets
<1>2. ASSUME NEW s \in Slots, Call(s) PROVE CountInv'
  <2>1. OwnRequest \in Server!Requests
    BY DEF OwnRequest, Server!Requests
  <2> QED
    BY <1>2, <2>1, ConnectKeeps DEF Call, Sockets
<1>3. ASSUME NEW s \in Slots, CallLost(s) PROVE CountInv'
  BY <1>3, ClosedKeeps DEF CallLost, Sockets
<1>4. ASSUME NEW s \in Slots, Api(s) PROVE CountInv'
  <2>1. Held(conn[s]) /\ s \in Sockets
    BY <1>4 DEF Api, Server!Admitted, Held, Sockets
  <2>2. CASE Server!Answered(s)
    BY <2>1, <2>2, ThreadGoesOn DEF Server!Answered, At
  <2> QED
    BY <1>0, <1>4, <2>2 DEF Api
<1>5. ASSUME NEW c \in Strangers, Visit(c) PROVE CountInv'
  BY <1>5, ConnectKeeps, ServerAssumption DEF Visit, Sockets
<1>6. ASSUME NEW c \in Sockets, Handle(c) PROVE CountInv'
  BY <1>6, ClosedKeeps, AcceptKeeps, TrickleKeeps, ThreadKeeps DEF Handle
<1>7. CASE UNCHANGED allvars
  BY <1>0, <1>7 DEF allvars, servervars
<1> QED
  BY <1>1, <1>2, <1>3, <1>4, <1>5, <1>6, <1>7 DEF ServerNext, Sockets

(***************************************************************************)
(* The count of serve is at all times the number of threads that hold a    *)
(* slot, and never above the limit, whatever strangers send, whichever     *)
(* sockets are closed and whenever the window ends (gui/mod.rs, serve).    *)
(***************************************************************************)
THEOREM TheCountIsTrue == ServerSpec => []CountIsTrue
<1>1. CountInv => CountIsTrue
  BY DEF CountInv, CountIsTrue
<1>2. WindowInit /\ [][ServerNext]_allvars => []CountInv
  BY CountInit, CountStep, PTL
<1>3. ServerSpec => WindowInit /\ [][ServerNext]_allvars
  BY PTL DEF ServerSpec
<1> QED
  BY <1>1, <1>2, <1>3, PTL

(***************************************************************************)
(* A call of the page is dropped only while another program holds a slot,  *)
(* if the page makes no more calls at once than there are slots: what is   *)
(* left of PageIsServedAgain without fairness.  No slot of the page's own  *)
(* is ever forgotten, or this would fail in the end (gui/mod.rs, serve).   *)
(***************************************************************************)
OnlyStrangersFill ==
  \A s \in Slots : Server!Drop(s) => \E c \in Strangers : Held(conn[c])

LEMMA OwnCallsFit ==
  ASSUME CountInv, Cardinality(Slots) <= MaxConnections, NEW s \in Slots, Server!Drop(s)
  PROVE  \E c \in Strangers : Held(conn[c])
<1>1. conn[s].at = "backlog" /\ live >= MaxConnections
  BY DEF Server!Drop
<1>2. IsFiniteSet(Slots)
  BY ServerAssumption, FS_Subset DEF Sockets
<1>3. SUFFICES ASSUME Server!Holding \subseteq Slots \ {s} PROVE FALSE
  BY <1>1, HoldingIs DEF Held, Sockets
<1>4. /\ IsFiniteSet(Slots \ {s})
      /\ Cardinality(Slots \ {s}) = Cardinality(Slots) - 1 /\ Cardinality(Slots) \in Nat
  BY <1>2, FS_RemoveElement, FS_CardinalityType
<1>5. Cardinality(Server!Holding) <= Cardinality(Slots \ {s})
  BY <1>3, <1>4, FS_Subset
<1> QED
  BY <1>1, <1>4, <1>5, ServerAssumption DEF CountInv

\* With as many slots as the page makes calls, only another program's connections
\* can make the server drop one of its calls (serve).
THEOREM OthersFillTheServer ==
  Cardinality(Slots) <= MaxConnections => (ServerSpec => [][OnlyStrangersFill]_allvars)
<1> SUFFICES ASSUME Cardinality(Slots) <= MaxConnections
             PROVE  ServerSpec => [][OnlyStrangersFill]_allvars
  OBVIOUS
<1>1. CountInv => OnlyStrangersFill
  BY OwnCallsFit DEF OnlyStrangersFill
<1>2. WindowInit /\ [][ServerNext]_allvars => []CountInv
  BY CountInit, CountStep, PTL
<1>3. ServerSpec => WindowInit /\ [][ServerNext]_allvars
  BY PTL DEF ServerSpec
<1> QED
  BY <1>1, <1>2, <1>3, PTL

-----------------------------------------------------------------------------
(* What the window keeps, it keeps behind its server *)

\* A restore begins only for a request the server let through, and nobody is
\* served when the program is over.
Unserved ==
  /\ ~Alive => \A s \in Slots : slot[s] = Idle
  /\ \A s \in Slots : conn[s].at # "api" => ~Begins(s)

\* What the page sends has not begun anything.
LEMMA CallIsNew ==
  ASSUME TypeOK, NEW s \in Slots, PageStep(s)
  PROVE  /\ Alive' /\ ~Begins(s)'
         /\ \A t \in Slots : t # s => slot'[t] = slot[t]
<1>1. slot \in [Slots -> Requests]
  BY DEF TypeOK, ProgramTypeOK
<1>2. ASSUME NEW request, Calls(s, request), request.kind # "restore" \/ request.at = "arrived"
      PROVE  /\ Alive' /\ ~Begins(s)'
             /\ \A t \in Slots : t # s => slot'[t] = slot[t]
  BY <1>1, <1>2 DEF Calls, Begins, Alive
<1> QED
  BY <1>2 DEF PageStep, Poll, PickFile, ClickRestore, ClickFinish

\* A request thread serves its own request, while the program runs.
LEMMA ServesItsOwn ==
  ASSUME TypeOK, NEW s \in Slots, Serve(s)
  PROVE  /\ slot[s] # Idle /\ (Alive' <=> Alive)
         /\ \A t \in Slots : t # s => slot'[t] = slot[t]
<1>1. slot \in [Slots -> Requests]
  BY DEF TypeOK, ProgramTypeOK
<1> QED
  BY <1>1 DEF Serve, TakeState, StateArrives, CheckMap, SendMap, SendQuit, BeginRestore,
    RefuseRestore, ReadBundle, Spawn, SpawnRefused, Ends, Idle, Alive

\* The other threads leave the requests alone, unless the program ends.
LEMMA OthersLeaveThem ==
  ASSUME MainStep \/ ClickAgain \/ \E r \in Threads : RunStep(r)
  PROVE  \/ UNCHANGED slot /\ (~Alive' => ~Alive)
         \/ \A s \in Slots : slot'[s] = Idle
<1>1. CASE Exit
  BY <1>1 DEF Exit
<1>2. CASE MainStep /\ ~Exit
  BY <1>2 DEF MainStep, SeedFromNetwork, ReadArgument, Receive, RejectMap, AskCode, CodeFails,
    CodeOpens, Fail, Goes, Alive
<1>3. CASE ClickAgain
  BY <1>3 DEF ClickAgain, Alive
<1>4. CASE \E r \in Threads : RunStep(r)
  BY <1>4 DEF RunStep, SettleFile, FinishRun, Alive
<1> QED
  BY <1>1, <1>2, <1>3, <1>4

LEMMA UnservedStep ==
  TypeOK /\ CountInv /\ Unserved /\ [ServerNext]_allvars => Unserved'
<1> SUFFICES ASSUME TypeOK, CountInv, Unserved, [ServerNext]_allvars PROVE Unserved'
  OBVIOUS
<1>0. conn \in [Sockets -> Connections] /\ Slots \subseteq Sockets
  BY DEF CountInv, Sockets
<1>1. CASE Otherwise
  <2>1. CASE \A s \in Slots : slot'[s] = Idle
    BY <2>1 DEF Unserved, Begins, Idle
  <2>2. CASE UNCHANGED slot /\ (~Alive' => ~Alive)
    <3>1. CASE Alive'
      <4>1. UNCHANGED conn
        BY <1>1, <3>1 DEF Otherwise, Alive
      <4> QED
        BY <2>2, <3>1, <4>1 DEF Unserved, Begins
    <3>2. CASE ~Alive'
      BY <2>2, <3>2 DEF Unserved, Begins, Idle
    <3> QED
      BY <3>1, <3>2
  <2> QED
    BY <1>1, <2>1, <2>2, OthersLeaveThem DEF Otherwise
<1>2. ASSUME NEW s \in Slots, Call(s) PROVE Unserved'
  <2>1. PageStep(s) /\ conn' = [conn EXCEPT ![s] = [at |-> "backlog", req |-> OwnRequest, sent |-> 0]]
    BY <1>2 DEF Call, Server!Connect
  <2>2. \A t \in Slots : t # s => conn'[t] = conn[t]
    BY <1>0, <2>1
  <2> QED
    BY <2>1, <2>2, CallIsNew DEF Unserved, Begins
<1>3. ASSUME NEW s \in Slots, CallLost(s) PROVE Unserved'
  <2>1. /\ slot' = [slot EXCEPT ![s] = Idle] /\ UNCHANGED main
        /\ conn' = [conn EXCEPT ![s] = Server!NoConn]
    BY <1>3 DEF CallLost, Server!Drop, Server!NoThread
  <2>2. \A t \in Slots : t # s => conn'[t] = conn[t] /\ slot'[t] = slot[t]
    BY <1>0, <2>1 DEF TypeOK, ProgramTypeOK
  <2>3. slot'[s] = Idle
    BY <2>1 DEF TypeOK, ProgramTypeOK
  <2> QED
    BY <2>1, <2>2, <2>3 DEF Unserved, Begins, Idle, Alive
<1>4. ASSUME NEW s \in Slots, Api(s) PROVE Unserved'
  <2>1. /\ Serve(s) /\ conn[s].at = "api"
        /\ \/ slot'[s] = Idle /\ conn' = [conn EXCEPT ![s].at = "done"]
           \/ UNCHANGED conn
    BY <1>4 DEF Api, Server!Admitted, Server!Answered
  <2>2. \A t \in Slots : t # s => conn'[t] = conn[t]
    BY <1>0, <2>1
  <2>3. /\ slot[s] # Idle /\ (Alive' <=> Alive)
        /\ \A t \in Slots : t # s => slot'[t] = slot[t]
    BY <2>1, ServesItsOwn
  <2>4. ~Begins(s)' \/ conn'[s].at = "api"
    BY <2>1 DEF Begins, Idle
  <2> QED
    BY <2>2, <2>3, <2>4 DEF Unserved, Begins
<1>5. ASSUME UNCHANGED vars, NEW c \in Sockets, NEW k, conn' = [conn EXCEPT ![c] = k],
             k.at = "api" \/ conn[c].at # "api"
      PROVE  Unserved'
  <2>1. UNCHANGED <<slot, main>>
    BY <1>5 DEF vars
  <2>2. \A t \in Slots : conn'[t].at # "api" => conn[t].at # "api"
    BY <1>0, <1>5
  <2> QED
    BY <2>1, <2>2 DEF Unserved, Begins, Alive
<1>6. ASSUME NEW c \in Strangers, Visit(c) PROVE Unserved'
  <2>1. UNCHANGED vars /\ c \in Sockets /\ conn[c] = Server!NoConn
        /\ \E k : conn' = [conn EXCEPT ![c] = k]
    BY <1>6 DEF Visit, Server!Connect, Sockets
  <2>2. conn[c].at # "api"
    BY <2>1 DEF Server!NoConn
  <2>3. PICK k : conn' = [conn EXCEPT ![c] = k]
    BY <2>1
  <2> QED
    BY <1>5, <2>1, <2>2, <2>3
<1>7. ASSUME NEW c \in Sockets, Handle(c) PROVE Unserved'
  <2>1. UNCHANGED vars /\ conn[c].at # "api" /\ \E k : conn' = [conn EXCEPT ![c] = k]
    BY <1>7 DEF Handle, Server!Drop, Server!NoThread, Server!Accept, Server!Trickle,
      Server!Thread, Server!Decide, Server!ReadBody, Server!End
  <2>2. PICK k : conn' = [conn EXCEPT ![c] = k]
    BY <2>1
  <2> QED
    BY <1>5, <2>1, <2>2
<1>8. CASE UNCHANGED allvars
  BY <1>8 DEF allvars, servervars, vars, Unserved, Begins, Alive
<1> QED
  BY <1>1, <1>2, <1>3, <1>4, <1>6, <1>7, <1>8 DEF ServerNext, Sockets

\* A step of the server is a step of the window, none of its, or the loss of a
\* call: a request that is dropped, in whatever state the page left it.
LEMMA ServerSteps ==
  Unserved /\ [ServerNext]_allvars =>
    \/ [Next]_vars
    \/ \E s \in Slots : /\ slot' = [slot EXCEPT ![s] = Idle] /\ ~Begins(s)
                        /\ stopped' \in BOOLEAN
                        /\ UNCHANGED <<session, main, chan, run, patient, seen,
                                       shown, back, maps, restores>>
<1> SUFFICES ASSUME Unserved, [ServerNext]_allvars
             PROVE  \/ [Next]_vars
                    \/ \E s \in Slots : /\ slot' = [slot EXCEPT ![s] = Idle] /\ ~Begins(s)
                                        /\ stopped' \in BOOLEAN
                                        /\ UNCHANGED <<session, main, chan, run, patient,
                                                       seen, shown, back, maps, restores>>
  OBVIOUS
<1>1. CASE Otherwise
  BY <1>1 DEF Otherwise, Next
<1>2. ASSUME NEW s \in Slots, Call(s) \/ Api(s) PROVE Next
  BY <1>2 DEF Call, Api, Next
<1>3. ASSUME NEW s \in Slots, CallLost(s)
      PROVE  /\ slot' = [slot EXCEPT ![s] = Idle] /\ ~Begins(s)
             /\ stopped' \in BOOLEAN
             /\ UNCHANGED <<session, main, chan, run, patient, seen, shown, back,
                            maps, restores>>
  BY <1>3 DEF CallLost, Unserved, Server!Drop, Server!NoThread
<1>4. ASSUME NEW c \in Strangers, Visit(c) PROVE UNCHANGED vars
  BY <1>4 DEF Visit
<1>5. ASSUME NEW c \in Slots \union Strangers, Handle(c) PROVE UNCHANGED vars
  BY <1>5 DEF Handle
<1>6. CASE UNCHANGED allvars
  BY <1>6 DEF allvars
<1> QED
  BY <1>1, <1>2, <1>3, <1>4, <1>5, <1>6 DEF ServerNext

WindowKeeps ==
  /\ TypeOK /\ BundlesMatch /\ SaysWhatIs
  /\ patient => OneThing
  /\ maps = 0 => FirstListOnly
  /\ ~SpawnFails => RestoringIsTrue

LEMMA ServerKeeps == WindowKeeps /\ Unserved /\ [ServerNext]_allvars => WindowKeeps'
<1> SUFFICES ASSUME WindowKeeps, Unserved, [ServerNext]_allvars PROVE WindowKeeps'
  OBVIOUS
<1>1. CASE [Next]_vars
  <2>1. TypeOK' /\ BundlesMatch' /\ SaysWhatIs'
    BY <1>1, TypedStep, BundlesStep, SaysStep, WindowAssumption DEF WindowKeeps, WindowAssumption
  <2>2. (patient => OneThing)' /\ (maps = 0 => FirstListOnly)'
    BY <1>1, PatientStep, FirstListStep DEF WindowKeeps
  <2>3. ~SpawnFails => RestoringIsTrue'
    BY <1>1, RestoringStep DEF WindowKeeps
  <2> QED
    BY <2>1, <2>2, <2>3 DEF WindowKeeps
<1>2. ASSUME NEW s \in Slots,
             slot' = [slot EXCEPT ![s] = Idle], ~Begins(s),
             stopped' \in BOOLEAN,
             UNCHANGED <<session, main, chan, run, patient, seen, shown, back,
                         maps, restores>>
      PROVE  WindowKeeps'
  <2>1. TypeOK'
    <3>1. SessionTypeOK'
      BY <1>2 DEF WindowKeeps, TypeOK, SessionTypeOK, session
    <3>2. ProgramTypeOK'
      BY <1>2, RequestKinds DEF WindowKeeps, TypeOK, ProgramTypeOK
    <3>3. PageTypeOK'
      BY <1>2 DEF WindowKeeps, TypeOK, PageTypeOK
    <3> QED
      BY <3>1, <3>2, <3>3 DEF TypeOK
  <2>2. \A t \in Slots : slot'[t] \in {slot[t], Idle}
    BY <1>2 DEF WindowKeeps, TypeOK, ProgramTypeOK
  <2>3. BundlesMatch'
    BY <1>2, <2>2 DEF WindowKeeps, BundlesMatch, BundleIsOfList, AboutToRead, HasRead,
      NoForeignBundle, Running, Idle, session
  <2>4. SaysWhatIs'
    BY <1>2 DEF WindowKeeps, SaysWhatIs, OpensAList, PromptIsThere, ReadyHasItsList,
      session
  <2>5. \A t \in Slots : (Asks(t)' => Asks(t)) /\ (Begins(t)' <=> Begins(t))
                         /\ (Begins(t)' => slot'[t] = slot[t])
    BY <1>2, <2>2 DEF Asks, Begins, Idle
  <2>6. (patient => OneThing)'
    BY <1>2, <2>5 DEF WindowKeeps, OneThing, Undisturbed, Adds, session
  <2>8. (maps = 0 => FirstListOnly)'
    <3> SUFFICES ASSUME maps = 0 PROVE FirstListOnly'
      BY <1>2
    <3>1. FirstListOnly /\ UNCHANGED <<phase, list, job, run, main, chan>>
      BY <1>2 DEF WindowKeeps, session
    <3>2. OneJob'
      BY <2>5, <3>1, JobSame DEF FirstListOnly
    <3>3. \A t \in Slots : slot'[t].kind # "map"
      BY <2>2, <3>1 DEF FirstListOnly, Idle
    <3> QED
      BY <2>5, <3>1, <3>2, <3>3 DEF FirstListOnly, NothingBegun
  <2>7. ~SpawnFails => RestoringIsTrue'
    BY <1>2, <2>5 DEF WindowKeeps, RestoringIsTrue, Starting, Running, Begins, Alive, session
  <2> QED
    BY <2>1, <2>3, <2>4, <2>6, <2>7, <2>8 DEF WindowKeeps
<1> QED
  BY <1>1, <1>2, ServerSteps

LEMMA KeptBehindTheServer ==
  ServerSpec => [](WindowKeeps /\ Unserved)
<1>1. WindowInit => WindowKeeps
  <2>1. Init => TypeOK /\ BundlesMatch /\ SaysWhatIs
    BY TypedInit, BundlesInit, SaysInit
  <2>2. Init => OneThing /\ RestoringIsTrue
    BY DEF Init, OneThing, Asks, Begins, Idle, NoRun, Adds, Begun, RestoringIsTrue
  <2> QED
    BY <2>1, <2>2, FirstListInit DEF WindowInit, WindowKeeps
<1>2. WindowInit => Unserved
  BY DEF WindowInit, Init, Unserved, Begins, Idle
<1>3. /\ CountInv /\ [ServerNext]_allvars => CountInv'
      /\ WindowKeeps /\ Unserved /\ [ServerNext]_allvars => WindowKeeps'
      /\ WindowKeeps /\ CountInv /\ Unserved /\ [ServerNext]_allvars => Unserved'
  BY CountStep, ServerKeeps, UnservedStep DEF WindowKeeps
<1>4. ServerSpec => WindowInit /\ [][ServerNext]_allvars
  BY PTL DEF ServerSpec
<1> QED
  BY <1>1, <1>2, <1>3, <1>4, CountInit, PTL

(***************************************************************************)
(* What the window says, what its restores read and, for a page that is    *)
(* steady, what it counts are right behind its server too, whatever the     *)
(* server drops on the way: a request that is dropped has begun nothing.   *)
(***************************************************************************)
THEOREM BehindTheServer ==
  ServerSpec => [](/\ NoForeignBundle /\ PromptIsThere /\ ReadyHasItsList
                   /\ FinishedAddsUp /\ OneRestore)
<1>1. WindowKeeps =>
        NoForeignBundle /\ PromptIsThere /\ ReadyHasItsList /\ FinishedAddsUp /\ OneRestore
  BY SteadyIsOneJob, OneJobAddsUp, OneJobOneRestore
     DEF WindowKeeps, BundlesMatch, SaysWhatIs
<1> QED
  BY <1>1, KeptBehindTheServer, PTL

\* Behind the server too, a window that says files are being written is writing
\* them or about to, where a thread can always be started.
THEOREM RestoringBehindTheServer == ~SpawnFails => (ServerSpec => []RestoringIsTrue)
<1> SUFFICES ASSUME ~SpawnFails PROVE ServerSpec => []RestoringIsTrue
  OBVIOUS
<1>1. WindowKeeps => RestoringIsTrue
  BY DEF WindowKeeps
<1> QED
  BY <1>1, KeptBehindTheServer, PTL
-----------------------------------------------------------------------------
(* What "closed" promises without fairness *)

\* The program was told to end, and will find it out: the request is on its way,
\* in the channel or taken.
ToldToEnd ==
  \/ main.at \in {"closing", "over"}
  \/ \E i \in DOMAIN chan : chan[i].kind = "quit"
  \/ \E s \in Slots : slot[s].kind = "quit"

ClosedWasTold == stopped => ToldToEnd \/ lost

\* The channel keeps what it has, but for the first; what it gives up is obeyed.
LEMMA ReceiveObeys ==
  ASSUME TypeOK, Receive, \E i \in DOMAIN chan : chan[i].kind = "quit" PROVE ToldToEnd'
<1>1. PICK S : chan \in Seq(S)
  BY DEF TypeOK, ProgramTypeOK
<1>2. PICK i \in 1 .. Len(chan) : chan[i].kind = "quit"
  BY <1>1
<1>3. chan # <<>> /\ chan' = Tail(chan) /\ (Head(chan).kind # "map" => main'.at = "closing")
  BY DEF Receive, Goes
<1>4. CASE i = 1
  <2>1. Head(chan) = chan[1]
    BY <1>1, <1>3
  <2>2. main'.at = "closing"
    BY <1>2, <1>3, <1>4, <2>1
  <2> QED
    BY <2>2 DEF ToldToEnd
<1>5. CASE i # 1
  <2>1. i - 1 \in DOMAIN Tail(chan) /\ Tail(chan)[i - 1] = chan[i]
    BY <1>1, <1>3, <1>5
  <2> QED
    BY <1>2, <1>3, <2>1 DEF ToldToEnd
<1> QED
  BY <1>4, <1>5

\* The main thread never turns back from the end, and takes nothing else from the
\* channel.
LEMMA MainStaysTold ==
  ASSUME TypeOK, ToldToEnd, MainStep \/ ClickAgain \/ (\E r \in Threads : RunStep(r))
  PROVE  ToldToEnd'
<1>1. CASE Receive
  <2>1. CASE \E i \in DOMAIN chan : chan[i].kind = "quit"
    BY <1>1, <2>1, ReceiveObeys
  <2>2. CASE ~ \E i \in DOMAIN chan : chan[i].kind = "quit"
    BY <1>1, <2>2 DEF Receive, ToldToEnd
  <2> QED
    BY <2>1, <2>2
<1>2. CASE Exit
  BY <1>2 DEF Exit, Goes, ToldToEnd
<1>3. CASE MainStep /\ ~Receive /\ ~Exit
  BY <1>3 DEF MainStep, SeedFromNetwork, ReadArgument, RejectMap, AskCode, CodeFails,
    CodeOpens, Fail, Goes, ToldToEnd
<1>4. CASE ClickAgain
  BY <1>4 DEF ClickAgain, ToldToEnd
<1>5. CASE \E r \in Threads : RunStep(r)
  BY <1>5 DEF RunStep, SettleFile, FinishRun, ToldToEnd
<1> QED
  BY <1>1, <1>2, <1>3, <1>4, <1>5

\* A request thread sends what it was given to send.
LEMMA ServeStaysTold ==
  ASSUME TypeOK, ToldToEnd, NEW s \in Slots, Serve(s) PROVE ToldToEnd'
<1>1. /\ slot \in [Slots -> Requests]
      /\ chan \in Seq([kind : {"map", "quit"}, doc : Lists \union {NoList}])
  BY DEF TypeOK, ProgramTypeOK
<1>2. ASSUME NEW x, chan' = Append(chan, x), UNCHANGED main, ~SendQuit(s),
             \A t \in Slots : slot[t].kind = "quit" => slot'[t] = slot[t]
      PROVE  ToldToEnd'
  <2>1. \A i \in DOMAIN chan : i \in DOMAIN chan' /\ chan'[i] = chan[i]
    BY <1>1, <1>2
  <2> QED
    BY <1>2, <2>1 DEF ToldToEnd
<1>3. CASE SendQuit(s)
  <2>1. PICK x : x.kind = "quit" /\ chan' = Append(chan, x)
    BY <1>3 DEF SendQuit
  <2>2. Len(chan) + 1 \in DOMAIN chan' /\ chan'[Len(chan) + 1] = x
    BY <1>1, <2>1
  <2> QED
    BY <2>1, <2>2 DEF ToldToEnd
<1>4. CASE SendMap(s)
  <2>1. \A t \in Slots : slot[t].kind = "quit" => slot'[t] = slot[t]
    BY <1>1, <1>4 DEF SendMap, Ends
  <2>2. ~SendQuit(s)
    BY <1>4 DEF SendMap, SendQuit
  <2>3. UNCHANGED main /\ \E x : chan' = Append(chan, x)
    BY <1>4 DEF SendMap
  <2> QED
    BY <1>2, <2>1, <2>2, <2>3
<1>5. CASE Serve(s) /\ ~SendQuit(s) /\ ~SendMap(s)
  <2>1. slot[s].kind # "quit" /\ UNCHANGED <<main, chan>>
        /\ \A t \in Slots : t # s => slot'[t] = slot[t]
    BY <1>1, <1>5 DEF Serve, TakeState, StateArrives, CheckMap, BeginRestore, RefuseRestore,
      ReadBundle, Spawn, SpawnRefused, Ends
  <2> QED
    BY <2>1 DEF ToldToEnd
<1> QED
  BY <1>3, <1>4, <1>5

\* A call that the page makes takes no other's place.
LEMMA PageStaysTold ==
  ASSUME TypeOK, ToldToEnd, NEW s \in Slots, PageStep(s) PROVE ToldToEnd'
<1>1. slot \in [Slots -> Requests]
  BY DEF TypeOK, ProgramTypeOK
<1>2. ASSUME NEW request, Calls(s, request) PROVE ToldToEnd'
  <2>1. /\ slot[s].kind # "quit" /\ UNCHANGED <<main, chan>>
        /\ \A t \in Slots : t # s => slot'[t] = slot[t]
    BY <1>1, <1>2 DEF Calls, Idle
  <2> QED
    BY <2>1 DEF ToldToEnd
<1> QED
  BY <1>2 DEF PageStep, Poll, PickFile, ClickRestore, ClickFinish

\* Once told, the program stays told, or a call was lost.
LEMMA StaysTold ==
  ASSUME TypeOK, ToldToEnd \/ lost, [ServerNext]_allvars PROVE ToldToEnd' \/ lost'
<1>0. slot \in [Slots -> Requests]
  BY DEF TypeOK, ProgramTypeOK
<1>1. lost => lost'
  BY DEF ServerNext, Otherwise, Call, CallLost, Api, Visit, Handle, allvars, servervars
<1> SUFFICES ASSUME ToldToEnd PROVE ToldToEnd' \/ lost'
  BY <1>1
<1>2. CASE Otherwise
  BY <1>2, MainStaysTold DEF Otherwise
<1>3. ASSUME NEW s \in Slots, Call(s) PROVE ToldToEnd'
  BY <1>3, PageStaysTold DEF Call
<1>4. ASSUME NEW s \in Slots, CallLost(s) PROVE ToldToEnd' \/ lost'
  <2>1. \A t \in Slots : t # s => slot'[t] = slot[t]
    BY <1>0, <1>4 DEF CallLost
  <2>2. UNCHANGED <<main, chan>> /\ (slot[s].kind = "quit" => lost')
    BY <1>4 DEF CallLost
  <2> QED
    BY <2>1, <2>2 DEF ToldToEnd
<1>5. ASSUME NEW s \in Slots, Api(s) PROVE ToldToEnd'
  BY <1>5, ServeStaysTold DEF Api
<1>6. CASE UNCHANGED vars
  BY <1>6 DEF vars, ToldToEnd
<1>7. ASSUME NEW c \in Strangers, Visit(c) PROVE UNCHANGED vars
  BY <1>7 DEF Visit
<1>8. ASSUME NEW c \in Slots \union Strangers, Handle(c) PROVE UNCHANGED vars
  BY <1>8 DEF Handle
<1>9. CASE UNCHANGED allvars
  BY <1>6, <1>9 DEF allvars
<1> QED
  BY <1>2, <1>3, <1>4, <1>5, <1>6, <1>7, <1>8, <1>9 DEF ServerNext

\* Nobody says "closed" but a person who asks for it, and a page whose poll was
\* dropped.
LEMMA SaysClosedOnce ==
  ASSUME TypeOK, ~stopped, stopped', [ServerNext]_allvars PROVE ToldToEnd' \/ lost'
<1>0. slot \in [Slots -> Requests]
  BY DEF TypeOK, ProgramTypeOK
<1>1. ASSUME NEW s \in Slots, Call(s) PROVE ToldToEnd'
  <2>1. ClickFinish(s)
    BY <1>1 DEF Call, PageStep, Poll, PickFile, ClickRestore, page
  <2>2. slot'[s].kind = "quit"
    BY <1>0, <2>1 DEF ClickFinish, Calls
  <2> QED
    BY <2>2 DEF ToldToEnd
<1>2. ASSUME NEW s \in Slots, CallLost(s) PROVE lost'
  BY <1>2 DEF CallLost
<1>3. ASSUME NEW s \in Slots, Api(s) PROVE FALSE
  BY <1>3 DEF Api, Serve, TakeState, StateArrives, CheckMap, SendMap, SendQuit, BeginRestore,
    RefuseRestore, ReadBundle, Spawn, SpawnRefused, page
<1>4. CASE Otherwise
  <2>1. UNCHANGED stopped
    BY <1>4 DEF Otherwise, MainStep, SeedFromNetwork, ReadArgument, Receive, RejectMap,
      AskCode, CodeFails, CodeOpens, Fail, Exit, ClickAgain, RunStep, SettleFile, FinishRun, page
  <2> QED
    BY <2>1
<1>5. ASSUME NEW c \in Strangers, Visit(c) PROVE FALSE
  BY <1>5 DEF Visit, vars, page
<1>6. ASSUME NEW c \in Slots \union Strangers, Handle(c) PROVE FALSE
  BY <1>6 DEF Handle, vars, page
<1>7. ~ UNCHANGED allvars
  BY DEF allvars, vars, page
<1> QED
  BY <1>1, <1>2, <1>3, <1>4, <1>5, <1>6, <1>7 DEF ServerNext

(***************************************************************************)
(* "The program has been closed" is never said of a program that does not  *)
(* know: unless a call of the page was lost, the main thread has taken the *)
(* request, or will find it in the channel, or its thread is on the way,   *)
(* and no list that was sent before or after drops it.  What is left of    *)
(* ClosedIsClosed is that each of these goes on.                           *)
(***************************************************************************)
THEOREM ClosedIsTold == ServerSpec => []ClosedWasTold
<1>1. WindowInit => ClosedWasTold
  BY DEF WindowInit, Init, ClosedWasTold
<1>2. WindowKeeps /\ ClosedWasTold /\ [ServerNext]_allvars => ClosedWasTold'
  BY StaysTold, SaysClosedOnce DEF ClosedWasTold, WindowKeeps
<1>3. ServerSpec => WindowInit /\ [][ServerNext]_allvars
  BY PTL DEF ServerSpec
<1> QED
  BY <1>1, <1>2, <1>3, KeptBehindTheServer, PTL
===============================================================================
