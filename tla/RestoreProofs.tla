---------------------------- MODULE RestoreProofs ----------------------------
(***************************************************************************)
(* Proofs about Restore.  The argument is in two layers.  The local one is *)
(* about one worker and the list alone: what a worker has written so far   *)
(* is, block for block, what the list describes (Sane and Written), and so *)
(* what reaches the rename is the whole file.  The other is about the disk:*)
(* the temporary a worker writes to is its own (OwnTemporary), so what it  *)
(* has written is what is there.                                           *)
(***************************************************************************)
EXTENDS Restore, SequenceTheorems, TLAPS

Lesser(a, b) == IF a < b THEN a ELSE b

\* Where the local variables of a worker stand with one another.
Sane(w) ==
  /\ pc[w] # "begin" => Working(w)
  /\ pc[w] \in {"begin", "create"} => pos[w] = 0 /\ put[w] = <<>>
  /\ pc[w] = "part" => pos[w] <= Len(Cur(w).parts)
  /\ pc[w] = "stream" =>
       /\ pos[w] < Len(Cur(w).parts)
       /\ srv[w] \in Streams /\ got[w] <= srv[w].good
       /\ srv[w].hdr = Expected(w)

\* What a worker has written, as far as it has come.
Written(w) ==
  /\ pc[w] \in {"part", "stream"} =>
       \A q \in 0 .. pos[w] - 1 : Holds(put[w], Cur(w), q, Cur(w).parts[q + 1].keep)
  /\ pc[w] = "part" =>
       Len(put[w]) = IF pos[w] = 0 THEN 0
                     ELSE Cur(w).parts[pos[w]].start + Cur(w).parts[pos[w]].keep
  /\ pc[w] = "stream" =>
       /\ Holds(put[w], Cur(w), pos[w], Lesser(got[w], Part(w).keep))
       /\ Len(put[w]) = Part(w).start + Lesser(got[w], Part(w).keep)
  /\ pc[w] = "rename" => Whole(put[w], Cur(w))

Local == TypeOK /\ \A w \in Workers : Sane(w) /\ Written(w)

\* No two names lead to one inode.
Distinct ==
  \A p, q \in Paths : dir[p] # NoFile /\ dir[p] = dir[q] => p = q

\* A worker that is writing a file has that file's temporary open, and what it
\* has written is what is there.
OwnTemporary ==
  \A w \in Workers : pc[w] \in {"part", "stream", "rename"} =>
    /\ ino[w] \in Inodes /\ ino[w] = dir[Cur(w).tmp]
    /\ data[ino[w]] = put[w]

Disk == Distinct /\ OwnTemporary /\ FinishedIsWhole /\ ReportedIsThere

IInv == Local /\ Disk

\* What a step that puts nothing in place does to the destinations: nothing.
DestsKept ==
  \A t \in Tasks :
    /\ dir'[Entry(t).dest] = dir[Entry(t).dest]
    /\ dir[Entry(t).dest] # NoFile =>
         data'[dir[Entry(t).dest]] = data[dir[Entry(t).dest]]

\* It reports nothing as restored either.
NoNews ==
  \A w \in Workers : \A k \in DOMAIN result'[w] :
    result'[w][k] = "restored" =>
      k \in DOMAIN result[w] /\ result[w][k] = "restored"

-----------------------------------------------------------------------------
LEMMA EntryTypes ==
  ASSUME NEW w \in Workers, NEW k \in DOMAIN Queue[w]
  PROVE  /\ Queue[w] \in Seq(Entries)
         /\ Queue[w][k] \in Entries
         /\ <<w, k>> \in Tasks /\ Entry(<<w, k>>) = Queue[w][k]
BY RestoreAssumption DEF Tasks, Entry

\* The file a worker is busy with is one of its files.
LEMMA CurTypes ==
  ASSUME NEW w \in Workers, WorkTypeOK, Working(w)
  PROVE  /\ Len(result[w]) + 1 \in DOMAIN Queue[w]
         /\ Cur(w) \in Entries
         /\ <<w, Len(result[w]) + 1>> \in Tasks
         /\ Entry(<<w, Len(result[w]) + 1>>) = Cur(w)
<1>1. Len(result[w]) \in Nat /\ Queue[w] \in Seq(Entries)
  BY RestoreAssumption DEF WorkTypeOK
<1>2. Len(result[w]) + 1 \in DOMAIN Queue[w]
  BY <1>1 DEF Working
<1> QED BY <1>2, EntryTypes DEF Cur

LEMMA CurParts ==
  ASSUME NEW w \in Workers, WorkTypeOK, Working(w), pos[w] < Len(Cur(w).parts)
  PROVE  /\ Part(w) \in Parts
         /\ Part(w) = Cur(w).parts[pos[w] + 1]
         /\ Part(w).start = IF pos[w] = 0 THEN 0
              ELSE Cur(w).parts[pos[w]].start + Cur(w).parts[pos[w]].keep
<1>1. Cur(w).parts \in Seq(Parts) /\ pos[w] \in Nat
  BY CurTypes DEF Entries, WorkTypeOK
<1>2. pos[w] + 1 \in DOMAIN Cur(w).parts
  BY <1>1
<1>3. Part(w) \in Parts
  BY <1>1, <1>2 DEF Part
<1>4. \A q \in DOMAIN Cur(w).parts : Cur(w).parts[q].start =
        IF q = 1 THEN 0 ELSE Cur(w).parts[q - 1].start + Cur(w).parts[q - 1].keep
  <2>1. Len(result[w]) + 1 \in DOMAIN Queue[w]
    BY CurTypes
  <2> QED BY <2>1, Tiled DEF Cur
<1>5. CASE pos[w] = 0
  <2>1. 1 \in DOMAIN Cur(w).parts
    BY <1>2, <1>5
  <2>2. Cur(w).parts[1].start = 0
    BY <1>4, <2>1
  <2> QED BY <1>3, <1>5, <2>2 DEF Part
<1>6. CASE pos[w] # 0
  <2> DEFINE q == pos[w] + 1
  <2>1. q # 1 /\ q - 1 = pos[w]
    BY <1>1, <1>6
  <2>2. Cur(w).parts[q].start = Cur(w).parts[q - 1].start + Cur(w).parts[q - 1].keep
    BY <1>2, <1>4, <2>1
  <2> QED BY <1>3, <1>6, <2>1, <2>2 DEF Part
<1> QED BY <1>5, <1>6

LEMMA StreamTypes ==
  ASSUME NEW s \in Streams
  PROVE  /\ s.hdr \in AllHeaders /\ s.good \in Nat /\ s.hdr.len \in Nat
         /\ s.good <= s.hdr.len
BY RestoreAssumption DEF Streams, AllHeaders, NoHeader

\* A header that passes the checks is the one the position calls for.
LEMMA HeaderIsExpected ==
  ASSUME NEW w \in Workers, NEW h \in AllHeaders, HeaderOK(w, h)
  PROVE  h = Expected(w)
BY RestoreAssumption DEF HeaderOK, Expected, AllHeaders

\* Blocks that are in place stay there when another is added behind them.
LEMMA HoldsAppend ==
  ASSUME NEW S, NEW d \in Seq(S), NEW b \in S, NEW e, NEW q, NEW n,
         Holds(d, e, q, n)
  PROVE  Holds(Append(d, b), e, q, n)
BY DEF Holds

LEMMA WriteAtType ==
  ASSUME NEW S, NEW d \in Seq(S), NEW b \in S, NEW o \in Nat, Hole \in S
  PROVE  WriteAt(d, o, b) \in Seq(S)
<1> DEFINE n == IF o < Len(d) THEN Len(d) ELSE o + 1
<1>1. n \in Nat OBVIOUS
<1>2. \A k \in 1 .. n :
        (IF k = o + 1 THEN b ELSE IF k <= Len(d) THEN d[k] ELSE Hole) \in S
  OBVIOUS
<1> QED BY <1>1, <1>2 DEF WriteAt

\* A block written at the end of a file is appended to it.
LEMMA WriteAtEnd ==
  ASSUME NEW S, NEW d \in Seq(S), NEW b \in S, Hole \in S
  PROVE  WriteAt(d, Len(d), b) = Append(d, b)
<1>1. Len(d) \in Nat /\ ~(Len(d) < Len(d))
  OBVIOUS
<1>2. WriteAt(d, Len(d), b) \in Seq(S) /\ Append(d, b) \in Seq(S)
  BY WriteAtType, <1>1
<1>3. WriteAt(d, Len(d), b) =
        [k \in 1 .. Len(d) + 1 |->
           IF k = Len(d) + 1 THEN b ELSE IF k <= Len(d) THEN d[k] ELSE Hole]
  BY <1>1 DEF WriteAt
<1>4. Len(WriteAt(d, Len(d), b)) = Len(d) + 1
  BY <1>1, <1>2, <1>3
<1>5. \A k \in 1 .. Len(d) + 1 : WriteAt(d, Len(d), b)[k] = Append(d, b)[k]
  BY <1>1, <1>3
<1> QED BY <1>2, <1>4, <1>5, SeqEqual

-----------------------------------------------------------------------------
(* The local layer: types, and what each worker has written. *)

LEMMA LocalInit == Init => Local
<1> SUFFICES ASSUME Init PROVE Local
  OBVIOUS
<1>1. WorkTypeOK
  BY RestoreAssumption DEF Init, WorkTypeOK
<1>2. DiskTypeOK
  BY RestoreAssumption DEF Init, DiskTypeOK, Contents
<1>3. crashes \in 0 .. MaxCrashes /\ intrusions \in 0 .. MaxIntrusions
  BY RestoreAssumption DEF Init
<1>4. \A w \in Workers : Sane(w) /\ Written(w)
  BY DEF Init, Sane, Written
<1> QED BY <1>1, <1>2, <1>3, <1>4 DEF Local, TypeOK

\* The end of a file leaves a worker with a clean slate.
LEMMA ConcludeLocal ==
  ASSUME WorkTypeOK, NEW w \in Workers, Working(w),
         NEW what \in {"restored", "failed"}, Conclude(w, what)
  PROVE  WorkTypeOK' /\ Sane(w)' /\ Written(w)'
<1>1. result' \in [Workers -> Seq({"restored", "failed"})]
  BY DEF Conclude, WorkTypeOK
<1>2. \A v \in Workers : Len(result'[v]) <= Len(Queue[v])
  BY RestoreAssumption DEF Conclude, WorkTypeOK, Working
<1>3. WorkTypeOK'
  BY <1>1, <1>2 DEF Conclude, WorkTypeOK
<1>4. pc'[w] = "begin" /\ pos'[w] = 0 /\ put'[w] = <<>>
  BY DEF Conclude, WorkTypeOK
<1> QED BY <1>3, <1>4 DEF Sane, Written

\* Whatever the step is, it was a worker's turn at a file of its own.
LEMMA StepWorking ==
  ASSUME NEW w \in Workers, Sane(w), Step(w)
  PROVE  Working(w)
BY DEF Sane, Step, Refuse, Accept, CreateTemp, CreateFails, PartMisplaced,
  PartUnavailable, OpenPart, PushBlock, WriteFails, EndPart, CheckWhole,
  Rename, RenameFails, RemoveTemp

\* A step of one worker is no step of another.
LEMMA OthersKeep ==
  ASSUME WorkTypeOK, NEW v \in Workers, Step(v), NEW w \in Workers, w # v
  PROVE  /\ pc'[w] = pc[w] /\ result'[w] = result[w] /\ pos'[w] = pos[w]
         /\ srv'[w] = srv[w] /\ got'[w] = got[w] /\ put'[w] = put[w]
         /\ ino'[w] = ino[w]
<1> USE DEF WorkTypeOK, Goto, Conclude, work
<1>1. CASE Refuse(v) \/ Rename(v) \/ RenameFails(v) \/ RemoveTemp(v)
  BY <1>1 DEF Refuse, Rename, RenameFails, RemoveTemp
<1>2. CASE \/ Accept(v) \/ CreateFails(v) \/ PartMisplaced(v) \/ PartUnavailable(v)
           \/ WriteFails(v)
  BY <1>2 DEF Accept, CreateFails, PartMisplaced, PartUnavailable, WriteFails
<1>3. CASE CreateTemp(v)
  BY <1>3 DEF CreateTemp
<1>4. CASE OpenPart(v)
  BY <1>4 DEF OpenPart
<1>5. CASE PushBlock(v)
  BY <1>5 DEF PushBlock
<1>6. CASE EndPart(v) \/ CheckWhole(v)
  BY <1>6 DEF EndPart, CheckWhole
<1> QED BY <1>1, <1>2, <1>3, <1>4, <1>5, <1>6 DEF Step

LEMMA OthersLocal ==
  ASSUME WorkTypeOK, NEW v \in Workers, Step(v), NEW w \in Workers, w # v,
         Sane(w), Written(w)
  PROVE  Sane(w)' /\ Written(w)'
BY OthersKeep DEF Sane, Written, Working, Cur, Part, Expected

\* A worker that goes on to another step of the same file.
LEMMA GotoLocal ==
  ASSUME WorkTypeOK, NEW w \in Workers, Working(w), NEW step, Goto(w, step),
         step \in {"begin", "create", "part", "stream", "rename", "remove"}
  PROVE  /\ pc' \in [Workers -> {"begin", "create", "part", "stream", "rename", "remove"}]
         /\ pc'[w] = step /\ result' = result
         /\ Working(w)' /\ Cur(w)' = Cur(w)
BY DEF WorkTypeOK, Goto, Working, Cur

LEMMA AcceptLocal ==
  ASSUME Local, NEW w \in Workers, Accept(w)
  PROVE  WorkTypeOK' /\ Sane(w)' /\ Written(w)'
<1>1. WorkTypeOK /\ Sane(w) /\ Working(w) /\ Goto(w, "create")
  BY DEF Local, TypeOK, Accept
<1>2. UNCHANGED <<pos, srv, got, put, ino>>
  BY DEF Accept, work
<1>3. WorkTypeOK'
  BY <1>1, <1>2, GotoLocal DEF WorkTypeOK
<1>4. pc[w] = "begin"
  BY DEF Accept
<1> QED BY <1>1, <1>2, <1>3, <1>4, GotoLocal DEF Sane, Written

LEMMA CreateLocal ==
  ASSUME Local, NEW w \in Workers, CreateTemp(w)
  PROVE  WorkTypeOK' /\ Sane(w)' /\ Written(w)'
<1>1. WorkTypeOK /\ Sane(w) /\ Working(w) /\ Goto(w, "part") /\ pc[w] = "create"
  BY DEF Local, TypeOK, Sane, CreateTemp
<1>2. UNCHANGED <<pos, srv, got, put>> /\ pos[w] = 0 /\ put[w] = <<>>
  BY <1>1 DEF CreateTemp, Sane
<1>3. ino' \in [Workers -> Inodes \union {NoFile}]
  BY <1>1 DEF CreateTemp, WorkTypeOK
<1>4. WorkTypeOK'
  BY <1>1, <1>2, <1>3, GotoLocal DEF WorkTypeOK
<1>5. 0 <= Len(Cur(w).parts)
  BY <1>1, CurTypes DEF Entries
<1> QED BY <1>1, <1>2, <1>4, <1>5, GotoLocal DEF Sane, Written

\* The ways out of the middle of a file.
LEMMA GiveUpLocal ==
  ASSUME Local, NEW w \in Workers,
         \/ CreateFails(w) \/ PartMisplaced(w) \/ PartUnavailable(w) \/ WriteFails(w)
  PROVE  WorkTypeOK' /\ Sane(w)' /\ Written(w)'
<1>1. WorkTypeOK /\ Sane(w) /\ Working(w) /\ Goto(w, "remove")
  BY DEF Local, TypeOK, Sane, CreateFails, PartMisplaced, PartUnavailable, WriteFails
<1>2. UNCHANGED <<pos, srv, got, put, ino>>
  BY DEF CreateFails, PartMisplaced, PartUnavailable, WriteFails, work
<1>3. WorkTypeOK'
  BY <1>1, <1>2, GotoLocal DEF WorkTypeOK
<1> QED BY <1>1, <1>2, <1>3, GotoLocal DEF Sane, Written

LEMMA OpenLocal ==
  ASSUME Local, NEW w \in Workers, OpenPart(w)
  PROVE  WorkTypeOK' /\ Sane(w)' /\ Written(w)'
<1>1. /\ WorkTypeOK /\ Sane(w) /\ Written(w) /\ Working(w)
      /\ pc[w] = "part" /\ pos[w] < Len(Cur(w).parts)
      /\ UNCHANGED <<pos, put, ino>>
  BY DEF Local, TypeOK, Sane, OpenPart
<1>2. PICK s \in Streams :
        IF HeaderOK(w, s.hdr)
        THEN /\ Goto(w, "stream")
             /\ srv' = [srv EXCEPT ![w] = s]
             /\ got' = [got EXCEPT ![w] = 0]
        ELSE Goto(w, "remove") /\ UNCHANGED <<srv, got>>
  BY DEF OpenPart
<1>3. CASE HeaderOK(w, s.hdr)
  <2>0. /\ Goto(w, "stream") /\ srv' = [srv EXCEPT ![w] = s]
        /\ got' = [got EXCEPT ![w] = 0]
    BY <1>2, <1>3
  <2>1. WorkTypeOK' /\ srv'[w] = s /\ got'[w] = 0
    BY <1>1, <2>0, GotoLocal DEF WorkTypeOK
  <2>2. /\ pc'[w] = "stream" /\ Working(w)' /\ Cur(w)' = Cur(w)
        /\ Part(w)' = Part(w) /\ Expected(w)' = Expected(w)
    BY <1>1, <1>2, <1>3, GotoLocal DEF Part, Expected
  <2>3. s.hdr = Expected(w) /\ 0 <= s.good
    BY <1>3, StreamTypes, HeaderIsExpected
  <2>4. Sane(w)'
    BY <1>1, <2>1, <2>2, <2>3 DEF Sane
  <2>5. Part(w).keep \in Nat /\ Part(w).start \in Nat /\ Len(put[w]) = Part(w).start
    BY <1>1, CurParts DEF Parts, Written
  <2>6. Lesser(got'[w], Part(w)'.keep) = 0
    BY <2>1, <2>2, <2>5 DEF Lesser
  <2>7. \A q \in 0 .. pos[w] - 1 : Holds(put[w], Cur(w), q, Cur(w).parts[q + 1].keep)
    BY <1>1 DEF Written
  <2>8. Holds(put[w], Cur(w), pos[w], 0)
    BY DEF Holds
  <2>9. Written(w)'
    BY <1>1, <2>2, <2>5, <2>6, <2>7, <2>8 DEF Written
  <2> QED BY <2>1, <2>4, <2>9
<1>4. CASE ~HeaderOK(w, s.hdr)
  <2>1. Goto(w, "remove") /\ UNCHANGED <<srv, got>>
    BY <1>2, <1>4
  <2>2. WorkTypeOK'
    BY <1>1, <2>1, GotoLocal DEF WorkTypeOK
  <2> QED BY <1>1, <2>1, <2>2, GotoLocal DEF Sane, Written
<1> QED BY <1>3, <1>4

LEMMA PushLocal ==
  ASSUME Local, NEW w \in Workers, PushBlock(w)
  PROVE  WorkTypeOK' /\ Sane(w)' /\ Written(w)'
<1> DEFINE b == <<srv[w].hdr, got[w] + 1>>
<1>1. /\ WorkTypeOK /\ Sane(w) /\ Written(w) /\ Working(w)
      /\ pc[w] = "stream" /\ pos[w] < Len(Cur(w).parts)
      /\ got[w] < srv[w].good /\ srv[w] \in Streams /\ srv[w].hdr = Expected(w)
      /\ UNCHANGED <<pos, srv, ino>> /\ Goto(w, "stream")
      /\ got' = [got EXCEPT ![w] = @ + 1]
  BY DEF Local, TypeOK, Sane, PushBlock
<1>2. /\ got[w] \in Nat /\ got'[w] = got[w] + 1 /\ srv[w].good \in Nat
      /\ got' \in [Workers -> Nat]
  BY <1>1, StreamTypes DEF WorkTypeOK
<1>3. /\ pc'[w] = "stream" /\ Working(w)' /\ Cur(w)' = Cur(w)
      /\ Part(w)' = Part(w) /\ Expected(w)' = Expected(w)
  BY <1>1, GotoLocal DEF Part, Expected
<1>4. Part(w).keep \in Nat /\ Part(w).start \in Nat /\ pos[w] \in Nat
  BY <1>1, CurParts DEF Parts, WorkTypeOK
<1>5. b \in AllHeaders \X Nat /\ b = Block(Cur(w), pos[w], got[w] + 1)
  BY <1>1, <1>2, StreamTypes DEF Block, Expected, Part
<1> HIDE DEF b
<1>6. Sane(w)'
  BY <1>1, <1>2, <1>3 DEF Sane
<1>7. CASE got[w] < Part(w).keep
  <2>1. put' = [put EXCEPT ![w] = Append(@, b)]
    BY <1>7 DEF PushBlock, b
  <2>2. put[w] \in Seq(AllHeaders \X Nat) /\ put'[w] = Append(put[w], b)
    BY <1>1, <2>1 DEF WorkTypeOK
  <2>3. put' \in [Workers -> Seq(AllHeaders \X Nat)]
    BY <1>1, <1>5, <2>1, <2>2 DEF WorkTypeOK
  <2>4. WorkTypeOK'
    BY <1>1, <1>2, <2>3, GotoLocal DEF WorkTypeOK
  <2>5. Lesser(got[w], Part(w).keep) = got[w]
        /\ Lesser(got'[w], Part(w).keep) = got[w] + 1
    BY <1>2, <1>4, <1>7 DEF Lesser
  <2>6. /\ Holds(put[w], Cur(w), pos[w], got[w])
        /\ Len(put[w]) = Part(w).start + got[w]
    BY <1>1, <2>5 DEF Written
  <2>7. \A q \in 0 .. pos[w] - 1 : Holds(put'[w], Cur(w), q, Cur(w).parts[q + 1].keep)
    BY <1>1, <1>5, <2>2, HoldsAppend DEF Written
  <2>8. Holds(put'[w], Cur(w), pos[w], got[w])
    BY <1>5, <2>2, <2>6, HoldsAppend
  <2>9. /\ Len(put'[w]) = Part(w).start + (got[w] + 1)
        /\ put'[w][Part(w).start + (got[w] + 1)] = b
        /\ Part(w).start + (got[w] + 1) \in DOMAIN put'[w]
    <3>1. /\ Append(put[w], b) \in Seq(AllHeaders \X Nat)
          /\ Len(Append(put[w], b)) = Len(put[w]) + 1
          /\ Append(put[w], b)[Len(put[w]) + 1] = b
          /\ Len(put[w]) + 1 \in DOMAIN Append(put[w], b)
      BY <1>5, <2>2, AppendProperties
    <3>2. Len(put[w]) + 1 = Part(w).start + (got[w] + 1)
      BY <1>2, <1>4, <2>6
    <3> QED BY <2>2, <3>1, <3>2
  <2>10. Holds(put'[w], Cur(w), pos[w], got[w] + 1)
    <3>1. SUFFICES ASSUME NEW k \in 1 .. got[w] + 1
                   PROVE  /\ Part(w).start + k \in DOMAIN put'[w]
                          /\ put'[w][Part(w).start + k] = Block(Cur(w), pos[w], k)
      BY DEF Holds, Part
    <3>2. CASE k = got[w] + 1
      BY <1>5, <2>9, <3>2
    <3>3. CASE k # got[w] + 1
      <4>1. k \in 1 .. got[w]
        BY <1>2, <3>3
      <4> QED BY <2>8, <4>1 DEF Holds, Part
    <3> QED BY <3>2, <3>3
  <2>11. Written(w)'
    BY <1>1, <1>3, <2>5, <2>7, <2>9, <2>10 DEF Written
  <2> QED BY <1>6, <2>4, <2>11
<1>8. CASE ~(got[w] < Part(w).keep)
  <2>1. UNCHANGED put
    BY <1>8 DEF PushBlock
  <2>2. WorkTypeOK'
    BY <1>1, <1>2, <2>1, GotoLocal DEF WorkTypeOK
  <2>3. Lesser(got[w], Part(w).keep) = Part(w).keep
        /\ Lesser(got'[w], Part(w).keep) = Part(w).keep
    BY <1>2, <1>4, <1>8 DEF Lesser
  <2>4. Written(w)'
    BY <1>1, <1>3, <2>1, <2>3 DEF Written
  <2> QED BY <1>6, <2>2, <2>4
<1> QED BY <1>7, <1>8

LEMMA EndLocal ==
  ASSUME Local, NEW w \in Workers, EndPart(w)
  PROVE  WorkTypeOK' /\ Sane(w)' /\ Written(w)'
<1>1. /\ WorkTypeOK /\ Sane(w) /\ Written(w) /\ Working(w)
      /\ pc[w] = "stream" /\ pos[w] < Len(Cur(w).parts)
      /\ srv[w] \in Streams
      /\ UNCHANGED <<srv, got, put, ino>>
  BY DEF Local, TypeOK, Sane, EndPart
<1>2. CASE /\ srv[w].end = "eof" /\ got[w] = srv[w].hdr.len /\ got[w] >= Part(w).keep
  <2>1. Goto(w, "part") /\ pos' = [pos EXCEPT ![w] = @ + 1]
    BY <1>2 DEF EndPart
  <2>2. WorkTypeOK' /\ pos'[w] = pos[w] + 1 /\ pos[w] \in Nat
    BY <1>1, <2>1, GotoLocal DEF WorkTypeOK
  <2>3. pc'[w] = "part" /\ Working(w)' /\ Cur(w)' = Cur(w)
    BY <1>1, <2>1, GotoLocal
  <2>4. Len(Cur(w).parts) \in Nat
    BY <1>1, CurTypes DEF Entries
  <2>5. Sane(w)'
    BY <1>1, <2>2, <2>3, <2>4 DEF Sane
  <2>6. Part(w).keep \in Nat /\ got[w] \in Nat
    BY <1>1, CurParts DEF Parts, WorkTypeOK
  <2>7. Lesser(got[w], Part(w).keep) = Part(w).keep
    BY <1>2, <2>6 DEF Lesser
  <2>8. /\ Holds(put[w], Cur(w), pos[w], Cur(w).parts[pos[w] + 1].keep)
        /\ Len(put[w]) = Cur(w).parts[pos[w] + 1].start + Cur(w).parts[pos[w] + 1].keep
    BY <1>1, <2>7 DEF Written, Part
  <2>9. \A q \in 0 .. pos[w] : Holds(put[w], Cur(w), q, Cur(w).parts[q + 1].keep)
    BY <1>1, <2>2, <2>8 DEF Written
  <2>10. Written(w)'
    BY <1>1, <2>2, <2>3, <2>8, <2>9 DEF Written
  <2> QED BY <2>2, <2>5, <2>10
<1>3. CASE ~(/\ srv[w].end = "eof" /\ got[w] = srv[w].hdr.len /\ got[w] >= Part(w).keep)
  <2>1. Goto(w, "remove") /\ UNCHANGED pos
    BY <1>3 DEF EndPart
  <2>2. WorkTypeOK'
    BY <1>1, <2>1, GotoLocal DEF WorkTypeOK
  <2> QED BY <1>1, <2>1, <2>2, GotoLocal DEF Sane, Written
<1> QED BY <1>2, <1>3

LEMMA CheckLocal ==
  ASSUME Local, NEW w \in Workers, CheckWhole(w)
  PROVE  WorkTypeOK' /\ Sane(w)' /\ Written(w)'
<1>1. /\ WorkTypeOK /\ Sane(w) /\ Written(w) /\ Working(w)
      /\ pc[w] = "part" /\ pos[w] = Len(Cur(w).parts)
      /\ UNCHANGED <<pos, srv, got, put, ino>>
  BY DEF Local, TypeOK, Sane, CheckWhole, work
<1>2. CASE Len(put[w]) = Cur(w).size /\ Cur(w).hash \in {NoHash, put[w]}
  <2>1. Goto(w, "rename")
    BY <1>2 DEF CheckWhole
  <2>2. WorkTypeOK' /\ pc'[w] = "rename" /\ Working(w)' /\ Cur(w)' = Cur(w)
    BY <1>1, <2>1, GotoLocal DEF WorkTypeOK
  <2>3. Whole(put[w], Cur(w))
    BY <1>1, <1>2 DEF Written, Whole
  <2> QED BY <1>1, <2>2, <2>3 DEF Sane, Written
<1>3. CASE ~(Len(put[w]) = Cur(w).size /\ Cur(w).hash \in {NoHash, put[w]})
  <2>1. Goto(w, "remove")
    BY <1>3 DEF CheckWhole
  <2>2. WorkTypeOK'
    BY <1>1, <2>1, GotoLocal DEF WorkTypeOK
  <2> QED BY <1>1, <2>1, <2>2, GotoLocal DEF Sane, Written
<1> QED BY <1>2, <1>3

LEMMA EndOfFileLocal ==
  ASSUME Local, NEW w \in Workers,
         Refuse(w) \/ Rename(w) \/ RenameFails(w) \/ RemoveTemp(w)
  PROVE  WorkTypeOK' /\ Sane(w)' /\ Written(w)'
<1>1. WorkTypeOK /\ Working(w)
  BY DEF Local, TypeOK, Sane, Refuse, Rename, RenameFails, RemoveTemp
<1>2. Conclude(w, "failed") \/ Conclude(w, "restored")
  BY DEF Refuse, Rename, RenameFails, RemoveTemp
<1> QED BY <1>1, <1>2, ConcludeLocal

LEMMA StepLocal ==
  ASSUME Local, NEW w \in Workers, Step(w)
  PROVE  WorkTypeOK' /\ \A v \in Workers : Sane(v)' /\ Written(v)'
<1>1. WorkTypeOK' /\ Sane(w)' /\ Written(w)'
  BY AcceptLocal, CreateLocal, GiveUpLocal, OpenLocal, PushLocal, EndLocal,
     CheckLocal, EndOfFileLocal DEF Step
<1>2. ASSUME NEW v \in Workers, v # w PROVE Sane(v)' /\ Written(v)'
  BY <1>2, OthersLocal DEF Local, TypeOK
<1> QED BY <1>1, <1>2

LEMMA DiskTypes ==
  ASSUME Local, Next
  PROVE  DiskTypeOK'
<1>0. DiskTypeOK /\ WorkTypeOK /\ \A w \in Workers : Sane(w)
  BY DEF Local, TypeOK
<1>1. ASSUME NEW w \in Workers, CreateTemp(w) PROVE DiskTypeOK'
  <2>1. PICK i \in Inodes : /\ dir' = [dir EXCEPT ![Cur(w).tmp] = i]
                            /\ data' = [data EXCEPT ![i] = <<>>]
    BY <1>1 DEF CreateTemp
  <2>2. <<>> \in Seq(Contents)
    OBVIOUS
  <2> QED BY <1>0, <2>1, <2>2 DEF DiskTypeOK
<1>2. ASSUME NEW w \in Workers, PushBlock(w) PROVE DiskTypeOK'
  <2> DEFINE b == <<srv[w].hdr, got[w] + 1>>
  <2>1. b \in Contents /\ Hole \in Contents
    BY <1>0, <1>2, StreamTypes DEF PushBlock, Sane, WorkTypeOK, Contents
  <2>2. /\ UNCHANGED dir
        /\ \/ UNCHANGED data
           \/ data' = [data EXCEPT ![ino[w]] = WriteAt(@, Len(put[w]), b)]
    BY <1>2 DEF PushBlock
  <2>3. Len(put[w]) \in Nat
    BY <1>0 DEF WorkTypeOK
  <2> HIDE DEF b
  <2>4. ASSUME NEW i \in Inodes
        PROVE  WriteAt(data[i], Len(put[w]), b) \in Seq(Contents)
    <3>1. data[i] \in Seq(Contents)
      BY <1>0 DEF DiskTypeOK
    <3> QED BY <2>1, <2>3, <3>1, WriteAtType
  <2>5. data \in [Inodes -> Seq(Contents)]
    BY <1>0 DEF DiskTypeOK
  <2>6. data' \in [Inodes -> Seq(Contents)]
    BY <2>2, <2>4, <2>5
  <2> QED BY <1>0, <2>2, <2>6 DEF DiskTypeOK
<1>3. ASSUME NEW w \in Workers, Rename(w) PROVE DiskTypeOK'
  <2>1. dir[Cur(w).tmp] \in Inodes \union {NoFile}
    BY <1>0, <1>3, CurTypes DEF Rename, Sane, Entries, DiskTypeOK
  <2> QED BY <1>0, <1>3, <2>1 DEF Rename, DiskTypeOK
<1>4. ASSUME NEW w \in Workers, RemoveTemp(w) PROVE DiskTypeOK'
  BY <1>0, <1>4 DEF RemoveTemp, DiskTypeOK
<1>5. CASE Intrude
  <2>1. <<Old>> \in Seq(Contents)
    BY DEF Contents
  <2> QED BY <1>0, <1>5, <2>1 DEF Intrude, DiskTypeOK
<1>6. CASE Crash
  BY <1>0, <1>6 DEF Crash, disk, DiskTypeOK
<1>7. ASSUME NEW w \in Workers,
             \/ Refuse(w) \/ Accept(w) \/ CreateFails(w) \/ PartMisplaced(w)
             \/ PartUnavailable(w) \/ OpenPart(w) \/ WriteFails(w) \/ EndPart(w)
             \/ CheckWhole(w) \/ RenameFails(w)
      PROVE DiskTypeOK'
  BY <1>0, <1>7 DEF Refuse, Accept, CreateFails, PartMisplaced, PartUnavailable,
    OpenPart, WriteFails, EndPart, CheckWhole, RenameFails, disk, DiskTypeOK
<1> QED BY <1>1, <1>2, <1>3, <1>4, <1>5, <1>6, <1>7 DEF Next, Step

LEMMA LocalStep == Local /\ [Next]_vars => Local'
<1> SUFFICES ASSUME Local, [Next]_vars PROVE Local'
  OBVIOUS
<1>0. TypeOK /\ WorkTypeOK /\ DiskTypeOK
  BY DEF Local, TypeOK
<1>1. ASSUME NEW w \in Workers, Step(w) PROVE Local'
  <2>1. DiskTypeOK'
    BY <1>1, DiskTypes DEF Next
  <2>2. UNCHANGED <<crashes, intrusions>>
    BY <1>1 DEF Step, Refuse, Accept, CreateTemp, CreateFails, PartMisplaced,
      PartUnavailable, OpenPart, PushBlock, WriteFails, EndPart, CheckWhole,
      Rename, RenameFails, RemoveTemp
  <2> QED BY <1>0, <1>1, <2>1, <2>2, StepLocal DEF Local, TypeOK
<1>2. CASE Crash
  <2>1. DiskTypeOK'
    BY <1>2, DiskTypes DEF Next
  <2>2. WorkTypeOK'
    BY <1>2, RestoreAssumption DEF Crash, WorkTypeOK
  <2>3. crashes' \in 0 .. MaxCrashes /\ intrusions' \in 0 .. MaxIntrusions
    BY <1>0, <1>2, RestoreAssumption DEF Crash, TypeOK
  <2>4. \A w \in Workers : Sane(w)' /\ Written(w)'
    BY <1>2 DEF Crash, Sane, Written
  <2> QED BY <2>1, <2>2, <2>3, <2>4 DEF Local, TypeOK
<1>3. CASE Intrude
  <2>1. DiskTypeOK'
    BY <1>3, DiskTypes DEF Next
  <2>2. WorkTypeOK'
    BY <1>0, <1>3 DEF Intrude, WorkTypeOK, work
  <2>3. crashes' \in 0 .. MaxCrashes /\ intrusions' \in 0 .. MaxIntrusions
    BY <1>0, <1>3, RestoreAssumption DEF Intrude, TypeOK
  <2>4. \A w \in Workers : Sane(w)' /\ Written(w)'
    BY <1>3 DEF Local, Intrude, work, Sane, Written, Working, Cur, Part, Expected
  <2> QED BY <2>1, <2>2, <2>3, <2>4 DEF Local, TypeOK
<1>4. CASE UNCHANGED vars
  <2>1. WorkTypeOK' /\ DiskTypeOK' /\ UNCHANGED <<crashes, intrusions>>
    BY <1>0, <1>4 DEF vars, work, disk, WorkTypeOK, DiskTypeOK
  <2>2. \A w \in Workers : Sane(w)' /\ Written(w)'
    BY <1>4 DEF Local, vars, work, Sane, Written, Working, Cur, Part, Expected
  <2> QED BY <1>0, <2>1, <2>2 DEF Local, TypeOK
<1> QED BY <1>1, <1>2, <1>3, <1>4 DEF Next

\* Every variable keeps its type, whatever the storage serves, whatever fails
\* and however the workers interleave (restore_item and decrypt_part).
THEOREM Typed == Spec => []TypeOK
<1>1. Local => TypeOK
  BY DEF Local
<1> QED BY <1>1, LocalInit, LocalStep, PTL DEF Spec

-----------------------------------------------------------------------------
(* No step goes round in a circle. *)

\* The steps of one part, in order; the two that end a file come last.
Rank(step) ==
  CASE step = "begin" -> 0 [] step = "create" -> 1 [] step = "part" -> 2
    [] step = "stream" -> 3 [] OTHER -> 4

\* A worker has come further: with a file, with a part of it, within the part, or
\* with the blocks of the answer it reads; and none of these goes beyond what the
\* list and the answer have.
Ahead(w) ==
  \/ Len(result'[w]) = Len(result[w]) + 1 /\ Len(result'[w]) <= Len(Queue[w])
  \/ /\ result'[w] = result[w]
     /\ \/ pos'[w] = pos[w] + 1 /\ pos'[w] <= Len(Cur(w).parts)
        \/ /\ pos'[w] = pos[w]
           /\ \/ Rank(pc'[w]) > Rank(pc[w])
              \/ /\ pc'[w] = "stream" /\ pc[w] = "stream" /\ srv'[w] = srv[w]
                 /\ got'[w] = got[w] + 1 /\ got'[w] <= Part(w).len

\* The worker is where it was.
Still(w) ==
  /\ pc'[w] = pc[w] /\ result'[w] = result[w] /\ pos'[w] = pos[w]
  /\ srv'[w] = srv[w] /\ got'[w] = got[w]

\* A file is given up or put in place, never begun again: no step but a crash
\* takes a worker back, and those that take one on are bounded by the list.
OnlyForward == Crash \/ \A w \in Workers : Still(w) \/ Ahead(w)

LEMMA StepAhead ==
  ASSUME Local, NEW w \in Workers, Step(w) PROVE Ahead(w)
<1>0. WorkTypeOK /\ Sane(w) /\ Working(w)
  BY StepWorking DEF Local, TypeOK
<1>1. /\ pc[w] \in {"begin", "create", "part", "stream", "rename", "remove"}
      /\ w \in DOMAIN pc /\ w \in DOMAIN result /\ w \in DOMAIN pos /\ w \in DOMAIN got
      /\ result[w] \in Seq({"restored", "failed"}) /\ pos[w] \in Nat /\ got[w] \in Nat
      /\ Len(Queue[w]) \in Nat
  BY <1>0, RestoreAssumption DEF WorkTypeOK
<1>2. ASSUME NEW what, Conclude(w, what) PROVE Ahead(w)
  <2>1. result'[w] = Append(result[w], what)
    BY <1>1, <1>2 DEF Conclude
  <2>2. Len(result'[w]) = Len(result[w]) + 1
    BY <1>1, <2>1
  <2> QED
    BY <1>0, <1>1, <2>2 DEF Ahead, Working
<1>3. ASSUME NEW step, Goto(w, step), UNCHANGED pos, Rank(step) > Rank(pc[w]) PROVE Ahead(w)
  BY <1>1, <1>3 DEF Goto, Ahead
<1>4. CASE Refuse(w) \/ Rename(w) \/ RenameFails(w) \/ RemoveTemp(w)
  BY <1>2, <1>4 DEF Refuse, Rename, RenameFails, RemoveTemp
<1>5. CASE Accept(w) \/ CreateTemp(w) \/ CreateFails(w) \/ PartMisplaced(w)
           \/ PartUnavailable(w) \/ WriteFails(w) \/ CheckWhole(w)
  BY <1>3, <1>5 DEF Accept, CreateTemp, CreateFails, PartMisplaced, PartUnavailable,
    WriteFails, CheckWhole, work, Rank
<1>6. CASE OpenPart(w)
  BY <1>3, <1>6 DEF OpenPart, Rank
<1>7. CASE PushBlock(w)
  <2>1. /\ srv[w].hdr = Expected(w) /\ srv[w] \in Streams
        /\ got[w] < srv[w].good /\ pc[w] = "stream"
    BY <1>0, <1>7 DEF PushBlock, Sane
  <2>2. srv[w].good <= Part(w).len /\ srv[w].good \in Int /\ Part(w).len \in Int
    <3>1. srv[w].good <= srv[w].hdr.len /\ srv[w].hdr \in AllHeaders /\ srv[w].good \in Nat
      BY <2>1, StreamTypes
    <3>2. srv[w].hdr.len = Part(w).len
      BY <2>1 DEF Expected
    <3>3. Part(w).len \in Nat
      BY <1>0, <2>1, CurParts DEF Sane, Parts
    <3> QED
      BY <3>1, <3>2, <3>3
  <2>3. got'[w] = got[w] + 1 /\ pc'[w] = "stream" /\ UNCHANGED <<pos, srv, result>>
    BY <1>1, <1>7 DEF PushBlock, Goto
  <2>4. got'[w] <= Part(w).len
    BY <1>1, <2>1, <2>2, <2>3
  <2> QED
    BY <2>1, <2>3, <2>4 DEF Ahead
<1>8. CASE EndPart(w)
  <2>1. CASE Goto(w, "part") /\ pos' = [pos EXCEPT ![w] = @ + 1]
    <3>1. pos[w] < Len(Cur(w).parts) /\ Len(Cur(w).parts) \in Nat
      BY <1>0, <1>8, CurTypes DEF EndPart, Sane, Entries
    <3>2. pos'[w] = pos[w] + 1 /\ result'[w] = result[w]
      BY <1>1, <2>1 DEF Goto
    <3> QED
      BY <1>1, <3>1, <3>2 DEF Ahead
  <2>2. CASE Goto(w, "remove") /\ UNCHANGED pos
    BY <1>3, <1>8, <2>2 DEF EndPart, Rank
  <2> QED
    BY <1>8, <2>1, <2>2 DEF EndPart
<1> QED
  BY <1>4, <1>5, <1>6, <1>7, <1>8 DEF Step

\* A restore cannot go on for ever: what restore_item does leads to an outcome,
\* with no part asked for twice and no file tried again, whatever the storage
\* serves and whichever operations fail.  That it goes on at all is
\* EveryFileIsSettled, for TLC.
THEOREM NeverGoesRound == Spec => [][OnlyForward]_vars
<1>1. Local /\ [Next]_vars => [OnlyForward]_vars
  <2> SUFFICES ASSUME Local, Next PROVE OnlyForward
    OBVIOUS
  <2>1. ASSUME NEW v \in Workers, Step(v) PROVE OnlyForward
    <3>1. Ahead(v)
      BY <2>1, StepAhead
    <3>2. \A w \in Workers : w # v => Still(w)
      BY <2>1, OthersKeep DEF Still, Local, TypeOK
    <3> QED
      BY <3>1, <3>2 DEF OnlyForward
  <2>2. CASE Intrude
    BY <2>2 DEF Intrude, work, OnlyForward, Still
  <2> QED
    BY <2>1, <2>2 DEF Next, OnlyForward
<1> QED
  BY <1>1, LocalInit, LocalStep, PTL DEF Spec

-----------------------------------------------------------------------------
(* The disk layer, for runs whose files are kept apart. *)

LEMMA DestTypes ==
  ASSUME NEW t \in Tasks
  PROVE  /\ Entry(t).dest \in Paths /\ Entry(t).tmp \in Paths
         /\ t[1] \in Workers /\ t[2] \in DOMAIN Queue[t[1]]
         /\ t = <<t[1], t[2]>> /\ Entry(t) = Queue[t[1]][t[2]]
<1>1. PICK w \in Workers : t \in {w} \X DOMAIN Queue[w]
  BY DEF Tasks
<1>2. t[1] = w /\ t[2] \in DOMAIN Queue[w] /\ t = <<t[1], t[2]>>
  BY <1>1
<1> QED BY <1>2, EntryTypes DEF Entry, Entries

LEMMA FinishedKept ==
  ASSUME FinishedIsWhole, DestsKept
  PROVE  FinishedIsWhole'
BY DEF FinishedIsWhole, DestsKept

LEMMA ReportedKept ==
  ASSUME WorkTypeOK, ReportedIsThere, DestsKept, NoNews
  PROVE  ReportedIsThere'
<1> SUFFICES ASSUME NEW w \in Workers, NEW k \in DOMAIN result'[w],
                    result'[w][k] = "restored"
             PROVE  /\ dir'[Queue[w][k].dest] # NoFile
                    /\ Whole(data'[dir'[Queue[w][k].dest]], Queue[w][k])
  BY DEF ReportedIsThere
<1>1. k \in DOMAIN result[w] /\ result[w][k] = "restored"
  BY DEF NoNews
<1>2. /\ dir[Queue[w][k].dest] # NoFile
      /\ Whole(data[dir[Queue[w][k].dest]], Queue[w][k])
  BY <1>1 DEF ReportedIsThere
<1>3. k \in DOMAIN Queue[w]
  BY <1>1, RestoreAssumption DEF WorkTypeOK
<1>4. <<w, k>> \in Tasks /\ Entry(<<w, k>>) = Queue[w][k]
  BY <1>3, EntryTypes
<1> QED BY <1>2, <1>4 DEF DestsKept

\* A step that leaves the disk alone and puts nothing in place.
LEMMA QuietStep ==
  ASSUME IInv, NEW v \in Workers,
         \/ Refuse(v) \/ Accept(v) \/ CreateFails(v) \/ PartMisplaced(v)
         \/ PartUnavailable(v) \/ OpenPart(v) \/ WriteFails(v) \/ EndPart(v)
         \/ CheckWhole(v) \/ RenameFails(v)
  PROVE  Disk' /\ DestsKept
<1>0. /\ WorkTypeOK /\ Sane(v) /\ Step(v) /\ Working(v)
      /\ Distinct /\ OwnTemporary /\ FinishedIsWhole /\ ReportedIsThere
  BY StepWorking DEF IInv, Local, TypeOK, Disk, Step
<1>1. UNCHANGED disk
  BY DEF Refuse, Accept, CreateFails, PartMisplaced, PartUnavailable,
    OpenPart, WriteFails, EndPart, CheckWhole, RenameFails, disk
<1>2. Distinct' /\ DestsKept
  BY <1>0, <1>1 DEF Distinct, DestsKept, disk
<1>3. Conclude(v, "failed") \/ UNCHANGED result
  BY DEF Refuse, Accept, CreateFails, PartMisplaced, PartUnavailable,
    OpenPart, WriteFails, EndPart, CheckWhole, RenameFails, Goto
<1>4. NoNews
  <2>1. CASE UNCHANGED result
    BY <2>1 DEF NoNews
  <2>2. CASE Conclude(v, "failed")
    <3>1. result[v] \in Seq({"restored", "failed"})
      BY <1>0 DEF WorkTypeOK
    <3>2. result'[v] = Append(result[v], "failed")
      BY <1>0, <2>2 DEF Conclude, WorkTypeOK
    <3>3. \A w \in Workers : w # v => result'[w] = result[w]
      BY <1>0, <2>2 DEF Conclude, WorkTypeOK
    <3>4. \A k \in DOMAIN result'[v] : k \in DOMAIN result[v] \/ result'[v][k] = "failed"
      BY <3>1, <3>2
    <3>5. \A k \in DOMAIN result[v] : result'[v][k] = result[v][k]
      BY <3>1, <3>2
    <3> QED BY <3>3, <3>4, <3>5 DEF NoNews
  <2> QED BY <1>3, <2>1, <2>2
<1>5. ASSUME pc'[v] \in {"part", "stream", "rename"}
      PROVE  /\ pc[v] \in {"part", "stream"} /\ ino'[v] = ino[v]
             /\ put'[v] = put[v] /\ Cur(v)' = Cur(v)
  BY <1>0, <1>5 DEF Refuse, Accept, CreateFails, PartMisplaced, PartUnavailable,
    OpenPart, WriteFails, EndPart, CheckWhole, RenameFails, Goto, Conclude, work,
    Cur, WorkTypeOK
<1>6. OwnTemporary'
  <2> SUFFICES ASSUME NEW w \in Workers, pc'[w] \in {"part", "stream", "rename"}
               PROVE  /\ ino'[w] \in Inodes /\ ino'[w] = dir'[Cur(w)'.tmp]
                      /\ data'[ino'[w]] = put'[w]
    BY DEF OwnTemporary
  <2>1. CASE w = v
    BY <1>0, <1>1, <1>5, <2>1 DEF OwnTemporary, disk
  <2>2. CASE w # v
    BY <1>0, <1>1, <2>2, OthersKeep DEF OwnTemporary, disk, Cur
  <2> QED BY <2>1, <2>2
<1> QED BY <1>0, <1>2, <1>4, <1>6, FinishedKept, ReportedKept DEF Disk

\* The temporary a worker has open is nobody else's and no destination.
LEMMA TempIsOwn ==
  ASSUME Apart, WorkTypeOK, NEW v \in Workers, Working(v)
  PROVE  /\ Cur(v).tmp \in Paths
         /\ \A t \in Tasks : Entry(t).dest # Cur(v).tmp
         /\ \A w \in Workers : w # v /\ Working(w) =>
              /\ Cur(w).tmp \in Paths /\ Cur(w).tmp # Cur(v).tmp
              /\ Cur(w).tmp # Cur(v).dest
<1> DEFINE t == <<v, Len(result[v]) + 1>>
<1>1. t \in Tasks /\ Entry(t) = Cur(v)
  BY CurTypes
<1>2. ASSUME NEW w \in Workers, w # v, Working(w)
      PROVE  /\ Cur(w).tmp \in Paths /\ Cur(w).tmp # Cur(v).tmp
             /\ Cur(w).tmp # Cur(v).dest
  <2> DEFINE u == <<w, Len(result[w]) + 1>>
  <2>1. u \in Tasks /\ Entry(u) = Cur(w) /\ u[1] # t[1]
    BY <1>2, CurTypes
  <2> HIDE DEF t, u
  <2> QED BY <1>1, <2>1, DestTypes DEF Apart
<1> HIDE DEF t
<1> QED BY <1>1, <1>2, DestTypes DEF Apart

\* A step that writes to a worker's own temporary and puts nothing in place.
LEMMA WriteStep ==
  ASSUME IInv, Apart, NEW v \in Workers, CreateTemp(v) \/ PushBlock(v),
         NEW i \in Inodes,
         \A p \in Paths : p # Cur(v).tmp => dir'[p] = dir[p] /\ dir[p] # i,
         dir'[Cur(v).tmp] = i,
         \A j \in Inodes : j # i => data'[j] = data[j],
         ino'[v] = i, data'[i] = put'[v]
  PROVE  Disk' /\ DestsKept
<1>0. /\ WorkTypeOK /\ DiskTypeOK /\ Sane(v) /\ Step(v) /\ Working(v)
      /\ Distinct /\ OwnTemporary /\ FinishedIsWhole /\ ReportedIsThere
      /\ \A w \in Workers : Sane(w)
  BY StepWorking DEF IInv, Local, TypeOK, Disk, Step
<1>1. Cur(v).tmp \in Paths /\ \A t \in Tasks : Entry(t).dest # Cur(v).tmp
  BY <1>0, TempIsOwn
<1>2. Distinct'
  BY <1>0, <1>1 DEF Distinct
<1>3. DestsKept
  <2> SUFFICES ASSUME NEW t \in Tasks
               PROVE  /\ dir'[Entry(t).dest] = dir[Entry(t).dest]
                      /\ dir[Entry(t).dest] # NoFile =>
                           data'[dir[Entry(t).dest]] = data[dir[Entry(t).dest]]
    BY DEF DestsKept
  <2>1. Entry(t).dest \in Paths /\ Entry(t).dest # Cur(v).tmp
    BY <1>1, DestTypes
  <2>2. /\ dir'[Entry(t).dest] = dir[Entry(t).dest] /\ dir[Entry(t).dest] # i
        /\ dir[Entry(t).dest] \in Inodes \union {NoFile}
    BY <1>0, <2>1 DEF DiskTypeOK
  <2> QED BY <2>2
<1>4. UNCHANGED result /\ Cur(v)' = Cur(v)
  BY DEF CreateTemp, PushBlock, Goto, Cur
<1>5. NoNews
  BY <1>4 DEF NoNews
<1>6. OwnTemporary'
  <2> SUFFICES ASSUME NEW w \in Workers, pc'[w] \in {"part", "stream", "rename"}
               PROVE  /\ ino'[w] \in Inodes /\ ino'[w] = dir'[Cur(w)'.tmp]
                      /\ data'[ino'[w]] = put'[w]
    BY DEF OwnTemporary
  <2>1. CASE w = v
    BY <1>4, <2>1
  <2>2. CASE w # v
    <3>1. /\ pc[w] = pc'[w] /\ ino'[w] = ino[w] /\ put'[w] = put[w]
          /\ Cur(w)' = Cur(w)
      BY <1>0, <1>4, <2>2, OthersKeep DEF Cur
    <3>2. /\ ino[w] \in Inodes /\ ino[w] = dir[Cur(w).tmp] /\ data[ino[w]] = put[w]
      BY <1>0, <3>1 DEF OwnTemporary
    <3>3. Cur(w).tmp \in Paths /\ Cur(w).tmp # Cur(v).tmp
      BY <1>0, <2>2, <3>1, TempIsOwn DEF Sane
    <3> QED BY <3>1, <3>2, <3>3
  <2> QED BY <2>1, <2>2
<1> QED BY <1>0, <1>2, <1>3, <1>5, <1>6, FinishedKept, ReportedKept DEF Disk

LEMMA CreateStep ==
  ASSUME IInv, Apart, NEW v \in Workers, CreateTemp(v)
  PROVE  Disk' /\ DestsKept
<1>0. /\ WorkTypeOK /\ DiskTypeOK /\ Sane(v) /\ Working(v) /\ Distinct
      /\ pc[v] = "create" /\ UNCHANGED put
  BY DEF IInv, Local, TypeOK, Disk, Sane, CreateTemp
<1>1. PICK i \in Inodes :
        /\ i = dir[Cur(v).tmp] \/ (dir[Cur(v).tmp] = NoFile /\ Free(i))
        /\ dir' = [dir EXCEPT ![Cur(v).tmp] = i]
        /\ data' = [data EXCEPT ![i] = <<>>]
        /\ ino' = [ino EXCEPT ![v] = i]
  BY DEF CreateTemp
<1>2. Cur(v).tmp \in Paths /\ i # NoFile
  BY <1>0, TempIsOwn, RestoreAssumption
<1>3. \A p \in Paths : p # Cur(v).tmp => dir[p] # i
  BY <1>0, <1>1, <1>2 DEF Distinct, Free
<1>4. \A p \in Paths : p # Cur(v).tmp => dir'[p] = dir[p]
  BY <1>0, <1>1 DEF DiskTypeOK
<1>5. dir'[Cur(v).tmp] = i /\ ino'[v] = i /\ data'[i] = <<>>
      /\ \A j \in Inodes : j # i => data'[j] = data[j]
  BY <1>0, <1>1, <1>2 DEF DiskTypeOK, WorkTypeOK
<1>6. put'[v] = <<>>
  BY <1>0 DEF Sane
<1> QED BY <1>3, <1>4, <1>5, <1>6, WriteStep

LEMMA PushStep ==
  ASSUME IInv, Apart, NEW v \in Workers, PushBlock(v)
  PROVE  Disk' /\ DestsKept
<1> DEFINE b == <<srv[v].hdr, got[v] + 1>>
<1>0. /\ WorkTypeOK /\ DiskTypeOK /\ Sane(v) /\ Working(v) /\ Distinct
      /\ pc[v] = "stream" /\ UNCHANGED <<dir, ino>>
  BY DEF IInv, Local, TypeOK, Disk, Sane, PushBlock
<1>1. ino[v] \in Inodes /\ ino[v] = dir[Cur(v).tmp] /\ data[ino[v]] = put[v]
  BY <1>0 DEF IInv, Disk, OwnTemporary
<1>2. Cur(v).tmp \in Paths /\ ino[v] # NoFile
  BY <1>0, <1>1, TempIsOwn, RestoreAssumption
<1>3. \A p \in Paths : p # Cur(v).tmp => dir'[p] = dir[p] /\ dir[p] # ino[v]
  BY <1>0, <1>1, <1>2 DEF Distinct
<1>4. b \in AllHeaders \X Nat
  BY <1>0, StreamTypes DEF Sane, WorkTypeOK
<1>5. put[v] \in Seq(AllHeaders \X Nat)
  BY <1>0 DEF WorkTypeOK
<1>6. put[v] \in Seq(Contents) /\ b \in Contents /\ Hole \in Contents
  BY <1>4, <1>5 DEF Contents
<1>7. WriteAt(put[v], Len(put[v]), b) = Append(put[v], b)
  BY <1>6, WriteAtEnd
<1> HIDE DEF b
<1>8. \/ UNCHANGED <<put, data>>
      \/ /\ put' = [put EXCEPT ![v] = Append(@, b)]
         /\ data' = [data EXCEPT ![ino[v]] = WriteAt(@, Len(put[v]), b)]
  BY DEF PushBlock, b
<1>9. /\ data'[ino[v]] = put'[v]
      /\ \A j \in Inodes : j # ino[v] => data'[j] = data[j]
  <2>1. CASE UNCHANGED <<put, data>>
    BY <1>1, <2>1
  <2>2. CASE /\ put' = [put EXCEPT ![v] = Append(@, b)]
             /\ data' = [data EXCEPT ![ino[v]] = WriteAt(@, Len(put[v]), b)]
    <3>1. put'[v] = Append(put[v], b)
      BY <1>0, <2>2 DEF WorkTypeOK
    <3>2. /\ data'[ino[v]] = WriteAt(data[ino[v]], Len(put[v]), b)
          /\ \A j \in Inodes : j # ino[v] => data'[j] = data[j]
      BY <1>0, <1>1, <2>2 DEF DiskTypeOK
    <3> QED BY <1>1, <1>7, <3>1, <3>2
  <2> QED BY <1>8, <2>1, <2>2
<1> QED BY <1>0, <1>1, <1>3, <1>9, WriteStep

\* The step that puts a file in place.
LEMMA RenameStep ==
  ASSUME IInv, Apart, NEW v \in Workers, Rename(v)
  PROVE  Disk'
<1> DEFINE mine == <<v, Len(result[v]) + 1>>
<1>0. /\ WorkTypeOK /\ DiskTypeOK /\ Sane(v) /\ Working(v) /\ Step(v)
      /\ Distinct /\ OwnTemporary /\ FinishedIsWhole /\ ReportedIsThere
      /\ pc[v] = "rename" /\ Whole(put[v], Cur(v)) /\ UNCHANGED data
      /\ Conclude(v, "restored")
  BY DEF IInv, Local, TypeOK, Disk, Sane, Written, Rename, Step
<1>1. ino[v] \in Inodes /\ ino[v] = dir[Cur(v).tmp] /\ data[ino[v]] = put[v]
  BY <1>0 DEF OwnTemporary
<1>2. /\ mine \in Tasks /\ Entry(mine) = Cur(v)
      /\ Cur(v).tmp \in Paths /\ Cur(v).dest \in Paths /\ Cur(v).dest # Cur(v).tmp
  BY <1>0, CurTypes, DestTypes, TempIsOwn
<1> HIDE DEF mine
<1>3. /\ dir'[Cur(v).dest] = ino[v] /\ dir'[Cur(v).tmp] = NoFile
      /\ \A p \in Paths : p \notin {Cur(v).dest, Cur(v).tmp} => dir'[p] = dir[p]
  BY <1>0, <1>1, <1>2 DEF Rename, DiskTypeOK
<1>4. ino[v] # NoFile
  BY <1>1, RestoreAssumption
<1>5. Distinct'
  BY <1>0, <1>1, <1>2, <1>3, <1>4 DEF Distinct
<1>6. ASSUME NEW t \in Tasks, t # mine
      PROVE  Entry(t).dest \in Paths /\ dir'[Entry(t).dest] = dir[Entry(t).dest]
  BY <1>0, <1>2, <1>3, <1>6, DestTypes, TempIsOwn DEF Apart
<1>7. FinishedIsWhole'
  BY <1>0, <1>1, <1>2, <1>3, <1>6 DEF FinishedIsWhole
<1>8. ReportedIsThere'
  <2> SUFFICES ASSUME NEW w \in Workers, NEW k \in DOMAIN result'[w],
                      result'[w][k] = "restored"
               PROVE  /\ dir'[Queue[w][k].dest] # NoFile
                      /\ Whole(data'[dir'[Queue[w][k].dest]], Queue[w][k])
    BY DEF ReportedIsThere
  <2>1. WorkTypeOK'
    BY <1>0, ConcludeLocal
  <2>2. k \in DOMAIN Queue[w]
    BY <2>1, RestoreAssumption DEF WorkTypeOK
  <2>3. <<w, k>> \in Tasks /\ Entry(<<w, k>>) = Queue[w][k]
    BY <2>2, EntryTypes
  <2>4. CASE <<w, k>> = mine
    BY <1>0, <1>1, <1>2, <1>3, <1>4, <2>3, <2>4
  <2>5. CASE <<w, k>> # mine
    <3>1. k \in DOMAIN result[w] /\ result[w][k] = "restored"
      BY <1>0, <2>5 DEF mine, Conclude, WorkTypeOK
    <3> QED BY <1>0, <1>6, <2>3, <2>5, <3>1 DEF ReportedIsThere
  <2> QED BY <2>4, <2>5
<1>9. OwnTemporary'
  <2> SUFFICES ASSUME NEW w \in Workers, pc'[w] \in {"part", "stream", "rename"}
               PROVE  /\ ino'[w] \in Inodes /\ ino'[w] = dir'[Cur(w)'.tmp]
                      /\ data'[ino'[w]] = put'[w]
    BY DEF OwnTemporary
  <2>1. w # v
    BY <1>0 DEF Conclude, WorkTypeOK
  <2>2. /\ pc[w] = pc'[w] /\ ino'[w] = ino[w] /\ put'[w] = put[w]
        /\ Cur(w)' = Cur(w)
    BY <1>0, <2>1, OthersKeep DEF Cur
  <2>3. /\ ino[w] \in Inodes /\ ino[w] = dir[Cur(w).tmp] /\ data[ino[w]] = put[w]
    BY <1>0, <2>2 DEF OwnTemporary
  <2>4. Working(w)
    BY <2>2 DEF IInv, Local, Sane
  <2>5. /\ Cur(w).tmp \in Paths /\ Cur(w).tmp # Cur(v).tmp
        /\ Cur(w).tmp # Cur(v).dest
    BY <1>0, <2>1, <2>4, TempIsOwn
  <2> QED BY <1>0, <1>3, <2>2, <2>3, <2>5
<1> QED BY <1>5, <1>7, <1>8, <1>9 DEF Disk

LEMMA RemoveStep ==
  ASSUME IInv, Apart, NEW v \in Workers, RemoveTemp(v)
  PROVE  Disk' /\ DestsKept
<1>0. /\ WorkTypeOK /\ DiskTypeOK /\ Sane(v) /\ Working(v) /\ Step(v)
      /\ Distinct /\ OwnTemporary /\ FinishedIsWhole /\ ReportedIsThere
      /\ UNCHANGED data /\ Conclude(v, "failed")
  BY DEF IInv, Local, TypeOK, Disk, Sane, RemoveTemp, Step
<1>1. Cur(v).tmp \in Paths /\ \A t \in Tasks : Entry(t).dest # Cur(v).tmp
  BY <1>0, TempIsOwn
<1>2. /\ \A p \in Paths : p # Cur(v).tmp => dir'[p] = dir[p]
      /\ dir'[Cur(v).tmp] \in {NoFile, dir[Cur(v).tmp]}
  BY <1>0, <1>1 DEF RemoveTemp, DiskTypeOK
<1>3. Distinct'
  BY <1>0, <1>1, <1>2 DEF Distinct
<1>4. DestsKept
  BY <1>0, <1>1, <1>2, DestTypes DEF DestsKept
<1>5. NoNews
  <2>1. result[v] \in Seq({"restored", "failed"}) /\ result'[v] = Append(result[v], "failed")
        /\ \A w \in Workers : w # v => result'[w] = result[w]
    BY <1>0 DEF WorkTypeOK, Conclude
  <2>2. \A k \in DOMAIN result'[v] : k \in DOMAIN result[v] \/ result'[v][k] = "failed"
    BY <2>1
  <2>3. \A k \in DOMAIN result[v] : result'[v][k] = result[v][k]
    BY <2>1
  <2> QED BY <2>1, <2>2, <2>3 DEF NoNews
<1>6. OwnTemporary'
  <2> SUFFICES ASSUME NEW w \in Workers, pc'[w] \in {"part", "stream", "rename"}
               PROVE  /\ ino'[w] \in Inodes /\ ino'[w] = dir'[Cur(w)'.tmp]
                      /\ data'[ino'[w]] = put'[w]
    BY DEF OwnTemporary
  <2>1. w # v
    BY <1>0 DEF Conclude, WorkTypeOK
  <2>2. /\ pc[w] = pc'[w] /\ ino'[w] = ino[w] /\ put'[w] = put[w]
        /\ Cur(w)' = Cur(w)
    BY <1>0, <2>1, OthersKeep DEF Cur
  <2>3. /\ ino[w] \in Inodes /\ ino[w] = dir[Cur(w).tmp] /\ data[ino[w]] = put[w]
    BY <1>0, <2>2 DEF OwnTemporary
  <2>4. Working(w)
    BY <2>2 DEF IInv, Local, Sane
  <2>5. Cur(w).tmp \in Paths /\ Cur(w).tmp # Cur(v).tmp
    BY <1>0, <2>1, <2>4, TempIsOwn
  <2> QED BY <1>0, <1>2, <2>2, <2>3, <2>5
<1> QED BY <1>0, <1>3, <1>4, <1>5, <1>6, FinishedKept, ReportedKept DEF Disk

LEMMA CrashStep ==
  ASSUME IInv, Crash
  PROVE  Disk' /\ DestsKept
<1>1. UNCHANGED disk /\ result' = [w \in Workers |-> <<>>]
      /\ pc' = [w \in Workers |-> "begin"]
  BY DEF Crash
<1>2. Distinct' /\ DestsKept
  BY <1>1 DEF IInv, Disk, Distinct, DestsKept, disk
<1>3. OwnTemporary' /\ ReportedIsThere'
  BY <1>1 DEF OwnTemporary, ReportedIsThere
<1> QED BY <1>2, <1>3, FinishedKept DEF IInv, Disk

\* A file of another program appears where nothing was.
LEMMA IntrudeStep ==
  ASSUME IInv, Apart, Intrude
  PROVE  Disk'
<1>0. /\ WorkTypeOK /\ DiskTypeOK /\ Distinct /\ OwnTemporary
      /\ FinishedIsWhole /\ ReportedIsThere
      /\ UNCHANGED <<pc, result, put, ino>>
  BY DEF IInv, Local, TypeOK, Disk, Intrude, work
<1>1. PICK t \in Tasks, i \in Inodes :
        /\ dir[Entry(t).dest] = NoFile /\ Free(i)
        /\ dir' = [dir EXCEPT ![Entry(t).dest] = i]
        /\ data' = [data EXCEPT ![i] = <<Old>>]
  BY DEF Intrude
<1>2. Entry(t).dest \in Paths /\ i # NoFile
  BY DestTypes, RestoreAssumption
<1>3. /\ \A p \in Paths : dir[p] # i
      /\ \A w \in Workers : ino[w] # i
  BY <1>1 DEF Free
<1>4. /\ dir'[Entry(t).dest] = i /\ data'[i] = <<Old>>
      /\ \A p \in Paths : p # Entry(t).dest => dir'[p] = dir[p]
      /\ \A j \in Inodes : j # i => data'[j] = data[j]
  BY <1>0, <1>1, <1>2 DEF DiskTypeOK
<1>5. Distinct'
  BY <1>0, <1>2, <1>3, <1>4 DEF Distinct
<1>6. ASSUME NEW p \in Paths, dir[p] # NoFile
      PROVE  dir'[p] = dir[p] /\ data'[dir'[p]] = data[dir[p]]
  <2>1. p # Entry(t).dest /\ dir[p] # i /\ dir[p] \in Inodes
    BY <1>0, <1>1, <1>3, <1>6 DEF DiskTypeOK
  <2> QED BY <1>4, <2>1
<1>7. ASSUME NEW u \in Tasks, dir'[Entry(u).dest] # NoFile
      PROVE  \/ data'[dir'[Entry(u).dest]] = <<Old>>
             \/ Whole(data'[dir'[Entry(u).dest]], Entry(u))
  <2>1. CASE Entry(u).dest = Entry(t).dest
    BY <1>4, <2>1
  <2>2. CASE Entry(u).dest # Entry(t).dest
    <3>1. Entry(u).dest \in Paths /\ dir[Entry(u).dest] # NoFile
      BY <1>4, <1>7, <2>2, DestTypes
    <3> QED BY <1>0, <1>6, <3>1 DEF FinishedIsWhole
  <2> QED BY <2>1, <2>2
<1>8. FinishedIsWhole'
  BY <1>7 DEF FinishedIsWhole
<1>9. ReportedIsThere'
  <2> SUFFICES ASSUME NEW w \in Workers, NEW k \in DOMAIN result[w],
                      result[w][k] = "restored"
               PROVE  /\ dir'[Queue[w][k].dest] # NoFile
                      /\ Whole(data'[dir'[Queue[w][k].dest]], Queue[w][k])
    BY <1>0 DEF ReportedIsThere
  <2>1. /\ dir[Queue[w][k].dest] # NoFile
        /\ Whole(data[dir[Queue[w][k].dest]], Queue[w][k])
    BY <1>0 DEF ReportedIsThere
  <2>2. k \in DOMAIN Queue[w]
    BY <1>0, RestoreAssumption DEF WorkTypeOK
  <2>3. Queue[w][k].dest \in Paths
    BY <2>2, EntryTypes DEF Entries
  <2> QED BY <1>6, <2>1, <2>3
<1>10. OwnTemporary'
  <2> SUFFICES ASSUME NEW w \in Workers, pc[w] \in {"part", "stream", "rename"}
               PROVE  /\ ino[w] \in Inodes /\ ino[w] = dir'[Cur(w).tmp]
                      /\ data'[ino[w]] = put[w]
    BY <1>0 DEF OwnTemporary, Cur
  <2>1. /\ ino[w] \in Inodes /\ ino[w] = dir[Cur(w).tmp] /\ data[ino[w]] = put[w]
    BY <1>0 DEF OwnTemporary
  <2>2. Cur(w).tmp \in Paths /\ Cur(w).tmp # Entry(t).dest
    BY <1>0, TempIsOwn DEF IInv, Local, Sane
  <2> QED BY <1>3, <1>4, <2>1, <2>2
<1> QED BY <1>5, <1>8, <1>9, <1>10 DEF Disk

LEMMA DiskInit == ASSUME Apart PROVE Init => Disk
<1> SUFFICES ASSUME Init PROVE Disk
  OBVIOUS
<1>1. Distinct
  BY DEF Init, Apart, Distinct
<1>2. OwnTemporary /\ ReportedIsThere
  BY DEF Init, OwnTemporary, ReportedIsThere
<1>3. FinishedIsWhole
  BY DestTypes, RestoreAssumption DEF Init, FinishedIsWhole
<1> QED BY <1>1, <1>2, <1>3 DEF Disk

LEMMA IInvStep == ASSUME Apart PROVE IInv /\ [Next]_vars => IInv'
<1> SUFFICES ASSUME IInv, [Next]_vars PROVE IInv'
  OBVIOUS
<1>1. Local'
  BY LocalStep DEF IInv
<1>2. ASSUME NEW v \in Workers, Step(v) PROVE Disk'
  BY <1>2, QuietStep, CreateStep, PushStep, RenameStep, RemoveStep DEF Step
<1>3. ASSUME Crash PROVE Disk'
  BY <1>3, CrashStep
<1>4. ASSUME Intrude PROVE Disk'
  BY <1>4, IntrudeStep
<1>5. ASSUME UNCHANGED vars PROVE Disk'
  BY <1>5 DEF vars, work, disk, IInv, Disk, Distinct, OwnTemporary,
    FinishedIsWhole, ReportedIsThere, Cur
<1>6. Disk'
  BY <1>2, <1>3, <1>4, <1>5 DEF Next
<1> QED BY <1>1, <1>6 DEF IInv

\* "Nothing half-written is left looking finished", for any list, any number
\* of restores at once, any answers, disk faults, crashes and other programs,
\* as long as the files are kept apart.
THEOREM NothingHalfWritten == ASSUME Apart PROVE Spec => []FinishedIsWhole
<1>1. Init => IInv
  BY LocalInit, DiskInit DEF IInv
<1>2. IInv => FinishedIsWhole
  BY DEF IInv, Disk
<1> QED BY <1>1, <1>2, IInvStep, PTL DEF Spec

\* A file that was reported as restored is there and whole, to the end of the
\* run, under the same conditions.
THEOREM RestoredStays == ASSUME Apart PROVE Spec => []ReportedIsThere
<1>1. Init => IInv
  BY LocalInit, DiskInit DEF IInv
<1>2. IInv => ReportedIsThere
  BY DEF IInv, Disk
<1> QED BY <1>1, <1>2, IInvStep, PTL DEF Spec

-----------------------------------------------------------------------------
(* What a step does to the outcomes and to the destinations *)

\* The task a worker is busy with.
Mine(w) == <<w, Len(result[w]) + 1>>

\* A worker's end of a file is the outcome of that file, and of no other.
LEMMA OneOutcome ==
  ASSUME WorkTypeOK, NEW v \in Workers, Working(v),
         NEW what \in {"restored", "failed"}, Conclude(v, what)
  PROVE  /\ \A w \in Workers : w # v => result'[w] = result[w]
         /\ Len(result'[v]) = Len(result[v]) + 1
         /\ \A k \in 1 .. Len(result[v]) : result'[v][k] = result[v][k]
         /\ result'[v][Len(result[v]) + 1] = what
         /\ DOMAIN result[v] = 1 .. Len(result[v])
         /\ DOMAIN result'[v] = 1 .. Len(result[v]) + 1
         /\ Len(result[v]) \in Nat
<1>1. result[v] \in Seq({"restored", "failed"})
  BY DEF WorkTypeOK
<1>2. /\ result'[v] = Append(result[v], what)
      /\ \A w \in Workers : w # v => result'[w] = result[w]
  BY DEF Conclude, WorkTypeOK
<1> QED BY <1>1, <1>2

\* Only the ends of files are reported.
LEMMA NoOutcome ==
  ASSUME NEW v \in Workers, Step(v)
  PROVE  \/ UNCHANGED result
         \/ Conclude(v, "restored") /\ Rename(v)
         \/ /\ Conclude(v, "failed")
            /\ Refuse(v) \/ RenameFails(v) \/ RemoveTemp(v)
BY DEF Step, Refuse, Accept, CreateTemp, CreateFails, PartMisplaced,
  PartUnavailable, OpenPart, PushBlock, WriteFails, EndPart, CheckWhole,
  Rename, RenameFails, RemoveTemp, Goto

\* A step that puts no file in place leaves every destination as it was.
LEMMA DestsStay ==
  ASSUME IInv, Apart, NEW v \in Workers, Step(v), ~Rename(v)
  PROVE  DestsKept
BY QuietStep, CreateStep, PushStep, RemoveStep DEF Step

\* The one that does puts the whole of its own there, and keeps the others.
LEMMA RenameDests ==
  ASSUME IInv, Apart, NEW v \in Workers, Rename(v)
  PROVE  /\ Mine(v) \in Tasks /\ Entry(Mine(v)) = Cur(v)
         /\ dir'[Cur(v).dest] = ino[v] /\ ino[v] # NoFile
         /\ data'[ino[v]] = put[v] /\ Whole(put[v], Cur(v))
         /\ put[v] \in Seq(AllHeaders \X Nat)
         /\ \A t \in Tasks : t # Mine(v) =>
              /\ dir'[Entry(t).dest] = dir[Entry(t).dest]
              /\ data' = data
<1>0. /\ WorkTypeOK /\ DiskTypeOK /\ Sane(v) /\ Working(v) /\ OwnTemporary
      /\ pc[v] = "rename" /\ Whole(put[v], Cur(v)) /\ UNCHANGED data
  BY DEF IInv, Local, TypeOK, Disk, Sane, Written, Rename
<1>1. ino[v] \in Inodes /\ ino[v] = dir[Cur(v).tmp] /\ data[ino[v]] = put[v]
  BY <1>0 DEF OwnTemporary
<1>2. /\ Mine(v) \in Tasks /\ Entry(Mine(v)) = Cur(v)
      /\ Cur(v).tmp \in Paths /\ Cur(v).dest \in Paths /\ Cur(v).dest # Cur(v).tmp
  BY <1>0, CurTypes, DestTypes, TempIsOwn DEF Mine
<1>3. /\ dir'[Cur(v).dest] = ino[v]
      /\ \A p \in Paths : p \notin {Cur(v).dest, Cur(v).tmp} => dir'[p] = dir[p]
  BY <1>0, <1>1, <1>2 DEF Rename, DiskTypeOK
<1>4. ASSUME NEW t \in Tasks, t # Mine(v)
      PROVE  dir'[Entry(t).dest] = dir[Entry(t).dest]
  <2>1. Entry(t).dest \in Paths /\ Entry(t).dest # Cur(v).tmp
    BY <1>0, DestTypes, TempIsOwn
  <2>2. Entry(t).dest # Cur(v).dest
    BY <1>2, <1>4 DEF Apart
  <2> QED BY <1>3, <2>1, <2>2
<1>5. ino[v] # NoFile /\ put[v] \in Seq(AllHeaders \X Nat)
  BY <1>0, <1>1, RestoreAssumption DEF WorkTypeOK
<1> QED BY <1>0, <1>1, <1>2, <1>3, <1>4, <1>5

-----------------------------------------------------------------------------
(* Files that can come back *)

\* A worker at a healthy file is on its way: nothing made it give the file up,
\* and what it reads is all of the part, and no more.
Well(w) ==
  Working(w) /\ Cur(w).dest \in Healthy =>
    /\ pc[w] # "remove"
    /\ pc[w] = "stream" => srv[w].good = Part(w).len /\ srv[w].end = "eof"

\* Where a file may not be written over, nothing but the file is there.
Vacant ==
  ~Overwrite => \A t \in Tasks : Entry(t).dest \in Healthy =>
    \/ dir[Entry(t).dest] = NoFile
    \/ Whole(data[dir[Entry(t).dest]], Entry(t))

ComesBack == (\A w \in Workers : Well(w)) /\ Vacant /\ FailureCostsOneFile

\* What has been written of a file is the one thing the recorded hash is of.
LEMMA HashMatches ==
  ASSUME NEW e \in Entries, Sound(e), e.hash # NoHash,
         NEW d \in Seq(AllHeaders \X Nat), Len(d) = e.size,
         \A q \in 0 .. Len(e.parts) - 1 : Holds(d, e, q, e.parts[q + 1].keep)
  PROVE  e.hash = d
<1>1. e.hash \in Seq(AllHeaders \X Nat) /\ Len(e.hash) = Len(d)
  BY DEF Entries, Sound
<1>2. ASSUME NEW j \in 1 .. Len(d) PROVE e.hash[j] = d[j]
  <2>1. j \in DOMAIN e.hash
    BY <1>1
  <2>2. PICK q \in 0 .. Len(e.parts) - 1 : \E k \in 1 .. e.parts[q + 1].keep :
          j = e.parts[q + 1].start + k /\ e.hash[j] = Block(e, q, k)
    BY <2>1 DEF Sound
  <2>3. PICK k \in 1 .. e.parts[q + 1].keep :
          j = e.parts[q + 1].start + k /\ e.hash[j] = Block(e, q, k)
    BY <2>2
  <2>4. Holds(d, e, q, e.parts[q + 1].keep)
    BY <2>2
  <2>5. d[e.parts[q + 1].start + k] = Block(e, q, k)
    BY <2>3, <2>4 DEF Holds
  <2> QED BY <2>3, <2>5
<1> QED BY <1>1, <1>2, SeqEqual

LEMMA SoundPart ==
  ASSUME NEW w \in Workers, WorkTypeOK, Working(w), Sound(Cur(w)),
         pos[w] < Len(Cur(w).parts)
  PROVE  /\ Part(w).index \in {NoIndex, pos[w]} /\ Part(w).keep <= Part(w).len
         /\ Part(w).keep \in Nat /\ Part(w).len \in Nat
<1>1. Part(w) \in Parts /\ Part(w) = Cur(w).parts[pos[w] + 1]
  BY CurParts
<1>2. pos[w] \in Nat /\ Cur(w).parts \in Seq(Parts)
  BY CurTypes DEF WorkTypeOK, Entries
<1>3. pos[w] + 1 \in DOMAIN Cur(w).parts /\ (pos[w] + 1) - 1 = pos[w]
  BY <1>2
<1>4. /\ Cur(w).parts[pos[w] + 1].index \in {NoIndex, (pos[w] + 1) - 1}
      /\ Cur(w).parts[pos[w] + 1].keep <= Cur(w).parts[pos[w] + 1].len
  BY <1>3 DEF Sound
<1> QED BY <1>1, <1>3, <1>4 DEF Parts

\* Past its last part a sound file passes both checks.
LEMMA SoundPasses ==
  ASSUME NEW w \in Workers, Local, Working(w), Sound(Cur(w)), pc[w] = "part",
         pos[w] = Len(Cur(w).parts)
  PROVE  Len(put[w]) = Cur(w).size /\ Cur(w).hash \in {NoHash, put[w]}
<1>0. WorkTypeOK /\ Written(w) /\ Cur(w) \in Entries
  BY CurTypes DEF Local, TypeOK
<1>1. Cur(w).parts \in Seq(Parts) /\ Cur(w).parts # <<>>
  BY <1>0 DEF Entries, Sound
<1>2. pos[w] # 0 /\ pos[w] \in Nat
  BY <1>1
<1>3. Len(put[w]) = Cur(w).parts[pos[w]].start + Cur(w).parts[pos[w]].keep
  BY <1>0, <1>2 DEF Written
<1>4. Len(put[w]) = Cur(w).size
  BY <1>3 DEF Sound
<1>5. \A q \in 0 .. Len(Cur(w).parts) - 1 :
        Holds(put[w], Cur(w), q, Cur(w).parts[q + 1].keep)
  BY <1>0 DEF Written
<1>6. put[w] \in Seq(AllHeaders \X Nat)
  BY <1>0 DEF WorkTypeOK
<1> QED BY <1>0, <1>4, <1>5, <1>6, HashMatches

\* No step makes a worker give up a healthy file.
LEMMA WellStep ==
  ASSUME IInv, IInv', Restorable, NEW v \in Workers, Well(v), Step(v)
  PROVE  Well(v)'
<1>0. /\ Local /\ WorkTypeOK /\ WorkTypeOK' /\ Sane(v) /\ Working(v) /\ OwnTemporary
      /\ Cur(v) \in Entries
  BY StepWorking, CurTypes DEF IInv, Local, TypeOK, Disk
<1>1. CASE Conclude(v, "failed") \/ Conclude(v, "restored")
  <2>1. pc'[v] = "begin"
    BY <1>0, <1>1 DEF Conclude, WorkTypeOK
  <2> QED BY <2>1 DEF Well
<1>2. CASE Cur(v).dest \notin Healthy /\ UNCHANGED result
  BY <1>2 DEF Well, Cur
<1>3. CASE Cur(v).dest \in Healthy /\ UNCHANGED result
  <2>1. Sound(Cur(v))
    <3>1. PICK t \in Tasks : Entry(t) = Cur(v)
      BY <1>0, CurTypes
    <3> QED BY <1>3, <3>1 DEF Restorable
  <2>2. Cur(v)' = Cur(v) /\ \A op : ~MayFail(v, op)
    BY <1>3 DEF Cur, MayFail
  <2>3. CASE Accept(v) \/ CreateTemp(v)
    <3>1. pc'[v] \in {"create", "part"}
      BY <1>0, <2>3 DEF Accept, CreateTemp, Goto, WorkTypeOK
    <3> QED BY <3>1 DEF Well
  <2>4. CASE OpenPart(v)
    <3>1. PICK s \in Streams :
            /\ s = [hdr |-> Expected(v), good |-> Part(v).len, end |-> "eof"]
            /\ IF HeaderOK(v, s.hdr)
               THEN Goto(v, "stream") /\ srv' = [srv EXCEPT ![v] = s]
               ELSE Goto(v, "remove")
      BY <1>3, <2>4 DEF OpenPart
    <3>2. HeaderOK(v, s.hdr)
      <4>1. s.hdr = Expected(v) /\ s.hdr \in AllHeaders
        BY <3>1, StreamTypes
      <4>2. Len(Cur(v).parts) # 0 /\ Expected(v).total # NoHeader.total
        <5>1. Cur(v).parts \in Seq(Parts) /\ Cur(v).parts # <<>>
          BY <1>0, <2>1 DEF Entries, Sound
        <5> QED BY <5>1 DEF Expected, NoHeader
      <4>3. Expected(v) # NoHeader
        BY <4>2
      <4> QED BY <4>1, <4>3 DEF HeaderOK, Expected
    <3>3. pc'[v] = "stream" /\ srv'[v] = s /\ UNCHANGED pos
      BY <1>0, <2>4, <3>1, <3>2 DEF Goto, WorkTypeOK, OpenPart
    <3>4. Part(v)' = Part(v)
      BY <2>2, <3>3 DEF Part
    <3> QED BY <3>1, <3>3, <3>4 DEF Well
  <2>5. CASE PushBlock(v)
    <3>1. pc[v] = "stream" /\ UNCHANGED <<pos, srv>> /\ pc'[v] = "stream"
      BY <1>0, <2>5 DEF PushBlock, Goto, WorkTypeOK
    <3>2. Part(v)' = Part(v)
      BY <2>2, <3>1 DEF Part
    <3> QED BY <1>0, <1>3, <3>1, <3>2 DEF Well
  <2>6. CASE EndPart(v)
    <3>1. pos[v] < Len(Cur(v).parts) /\ srv[v].hdr = Expected(v)
      BY <1>0, <2>6 DEF Sane, EndPart
    <3>2. /\ got[v] = srv[v].good /\ srv[v].good = Part(v).len /\ srv[v].end = "eof"
      BY <1>0, <1>3, <2>6 DEF Well, EndPart
    <3>3. got[v] = srv[v].hdr.len /\ got[v] >= Part(v).keep
      BY <1>0, <2>1, <3>1, <3>2, SoundPart DEF Expected
    <3>4. pc'[v] = "part"
      BY <1>0, <2>6, <3>2, <3>3 DEF EndPart, Goto, WorkTypeOK
    <3> QED BY <3>4 DEF Well
  <2>7. CASE CheckWhole(v)
    <3>1. Len(put[v]) = Cur(v).size /\ Cur(v).hash \in {NoHash, put[v]}
      BY <1>0, <2>1, <2>7, SoundPasses DEF CheckWhole
    <3>2. pc'[v] = "rename"
      BY <1>0, <2>7, <3>1 DEF CheckWhole, Goto, WorkTypeOK
    <3> QED BY <3>2 DEF Well
  <2>8. ~CreateFails(v) /\ ~PartUnavailable(v) /\ ~WriteFails(v)
    BY <1>3, <2>2 DEF CreateFails, PartUnavailable, WriteFails
  <2>9. ~PartMisplaced(v)
    BY <1>0, <2>1, SoundPart DEF PartMisplaced
  <2>10. CASE Refuse(v) \/ Rename(v) \/ RenameFails(v) \/ RemoveTemp(v)
    BY <1>1, <2>10 DEF Refuse, Rename, RenameFails, RemoveTemp
  <2> QED BY <2>3, <2>4, <2>5, <2>6, <2>7, <2>8, <2>9, <2>10 DEF Step
<1> QED BY <1>1, <1>2, <1>3, NoOutcome

\* A destination that is whole stays so when the destinations are kept.
LEMMA VacantKept ==
  ASSUME Vacant, DestsKept
  PROVE  Vacant'
BY DEF Vacant, DestsKept

\* The files a worker is past are files of its own.
LEMMA DoneArePlanned ==
  ASSUME WorkTypeOK', NEW w \in Workers, NEW k \in DOMAIN result'[w]
  PROVE  k \in DOMAIN Queue[w]
<1>1. /\ result'[w] \in Seq({"restored", "failed"}) /\ Queue[w] \in Seq(Entries)
      /\ Len(result'[w]) <= Len(Queue[w])
  BY RestoreAssumption DEF WorkTypeOK
<1>2. DOMAIN result'[w] = 1 .. Len(result'[w]) /\ DOMAIN Queue[w] = 1 .. Len(Queue[w])
  BY <1>1
<1> QED BY <1>1, <1>2

LEMMA FailureKept ==
  ASSUME WorkTypeOK, FailureCostsOneFile, DestsKept,
         NEW w \in Workers, NEW k \in DOMAIN result[w], Queue[w][k].dest \in Healthy
  PROVE  /\ dir'[Queue[w][k].dest] # NoFile
         /\ Whole(data'[dir'[Queue[w][k].dest]], Queue[w][k])
<1>1. /\ dir[Queue[w][k].dest] # NoFile
      /\ Whole(data[dir[Queue[w][k].dest]], Queue[w][k])
  BY DEF FailureCostsOneFile
<1>2. k \in DOMAIN Queue[w]
  BY RestoreAssumption DEF WorkTypeOK
<1>3. <<w, k>> \in Tasks /\ Entry(<<w, k>>) = Queue[w][k]
  BY <1>2, EntryTypes
<1> QED BY <1>1, <1>3 DEF DestsKept

\* A healthy file is given up only where it is already there.
LEMMA GivenUpIsThere ==
  ASSUME IInv, Restorable, Vacant, NEW v \in Workers, Well(v),
         Refuse(v) \/ RenameFails(v) \/ RemoveTemp(v), Cur(v).dest \in Healthy
  PROVE  dir[Cur(v).dest] # NoFile /\ Whole(data[dir[Cur(v).dest]], Cur(v))
<1>0. /\ WorkTypeOK /\ Working(v) /\ OwnTemporary
  BY DEF IInv, Local, TypeOK, Disk, Sane, Refuse, RenameFails, RemoveTemp
<1>1. PICK t \in Tasks : Entry(t) = Cur(v)
  BY <1>0, CurTypes
<1>2. Sound(Cur(v)) /\ \A op : ~MayFail(v, op)
  BY <1>1 DEF Restorable, MayFail
<1>3. ~RemoveTemp(v)
  BY <1>0 DEF RemoveTemp, Well
<1>4. ~RenameFails(v)
  BY <1>0, <1>2, RestoreAssumption DEF RenameFails, OwnTemporary
<1>5. ~Overwrite /\ dir[Cur(v).dest] # NoFile
  BY <1>2, <1>3, <1>4 DEF Refuse, Sound
<1> QED BY <1>1, <1>5 DEF Vacant

LEMMA ComesBackStep ==
  ASSUME IInv, IInv', Apart, Restorable, ComesBack, [Next]_vars
  PROVE  ComesBack'
<1>0. /\ WorkTypeOK /\ WorkTypeOK' /\ DiskTypeOK /\ Vacant /\ FailureCostsOneFile
      /\ \A w \in Workers : Well(w) /\ Sane(w)
  BY DEF IInv, Local, TypeOK, ComesBack
<1>1. ASSUME NEW v \in Workers, Step(v) PROVE ComesBack'
  <2>0. Working(v)
    BY <1>0, <1>1, StepWorking
  <2>1. \A w \in Workers : Well(w)'
    <3>1. ASSUME NEW w \in Workers, w # v PROVE Well(w)'
      BY <1>0, <1>1, <3>1, OthersKeep DEF Well, Working, Cur, Part
    <3> QED BY <1>0, <1>1, <3>1, WellStep
  <2>2. CASE ~Rename(v)
    <3>1. DestsKept
      BY <1>1, <2>2, DestsStay
    <3>2. ASSUME NEW w \in Workers, NEW k \in DOMAIN result'[w],
                 Queue[w][k].dest \in Healthy
          PROVE  /\ dir'[Queue[w][k].dest] # NoFile
                 /\ Whole(data'[dir'[Queue[w][k].dest]], Queue[w][k])
      <4>1. CASE k \in DOMAIN result[w]
        BY <1>0, <3>1, <3>2, <4>1, FailureKept
      <4>2. CASE k \notin DOMAIN result[w]
        <5>1. /\ Conclude(v, "failed")
              /\ Refuse(v) \/ RenameFails(v) \/ RemoveTemp(v)
          BY <1>1, <2>2, <4>2, NoOutcome
        <5>2. w = v /\ k = Len(result[v]) + 1
          BY <1>0, <2>0, <4>2, <5>1, OneOutcome
        <5>3. Queue[w][k] = Cur(v)
          BY <5>2 DEF Cur
        <5>4. dir[Cur(v).dest] # NoFile /\ Whole(data[dir[Cur(v).dest]], Cur(v))
          BY <1>0, <3>2, <5>1, <5>3, GivenUpIsThere
        <5>5. PICK t \in Tasks : Entry(t) = Cur(v)
          BY <1>0, <2>0, CurTypes
        <5> QED BY <3>1, <5>3, <5>4, <5>5 DEF DestsKept
      <4> QED BY <4>1, <4>2
    <3>3. FailureCostsOneFile'
      BY <3>2 DEF FailureCostsOneFile
    <3> QED BY <1>0, <2>1, <3>1, <3>3, VacantKept DEF ComesBack
  <2>3. CASE Rename(v)
    <3>1. /\ Mine(v) \in Tasks /\ Entry(Mine(v)) = Cur(v)
          /\ dir'[Cur(v).dest] = ino[v] /\ ino[v] # NoFile
          /\ data'[ino[v]] = put[v] /\ Whole(put[v], Cur(v))
          /\ \A t \in Tasks : t # Mine(v) =>
               /\ dir'[Entry(t).dest] = dir[Entry(t).dest]
               /\ data' = data
      BY <2>3, RenameDests
    <3>2. Vacant'
      BY <1>0, <3>1 DEF Vacant
    <3>3. ASSUME NEW w \in Workers, NEW k \in DOMAIN result'[w],
                 Queue[w][k].dest \in Healthy
          PROVE  /\ dir'[Queue[w][k].dest] # NoFile
                 /\ Whole(data'[dir'[Queue[w][k].dest]], Queue[w][k])
      <4>1. k \in DOMAIN Queue[w]
        BY <1>0, <3>3, DoneArePlanned
      <4>2. <<w, k>> \in Tasks /\ Entry(<<w, k>>) = Queue[w][k]
        BY <4>1, EntryTypes
      <4>3. CASE <<w, k>> = Mine(v)
        BY <3>1, <4>2, <4>3
      <4>4. CASE <<w, k>> # Mine(v)
        <5>1. Conclude(v, "restored")
          BY <2>3 DEF Rename
        <5>2. k \in DOMAIN result[w]
          BY <1>0, <2>0, <4>4, <5>1, OneOutcome DEF Mine
        <5>3. /\ dir[Queue[w][k].dest] # NoFile
              /\ Whole(data[dir[Queue[w][k].dest]], Queue[w][k])
          BY <1>0, <3>3, <5>2 DEF FailureCostsOneFile
        <5> QED BY <3>1, <4>2, <4>4, <5>3
      <4> QED BY <4>3, <4>4
    <3>4. FailureCostsOneFile'
      BY <3>3 DEF FailureCostsOneFile
    <3> QED BY <2>1, <3>2, <3>4 DEF ComesBack
  <2> QED BY <2>2, <2>3
<1>2. CASE Crash
  <2>1. /\ UNCHANGED disk /\ result' = [w \in Workers |-> <<>>]
        /\ pc' = [w \in Workers |-> "begin"]
    BY <1>2 DEF Crash
  <2>2. \A w \in Workers : Well(w)'
    BY <2>1 DEF Well
  <2>3. Vacant' /\ FailureCostsOneFile'
    BY <1>0, <2>1 DEF Vacant, FailureCostsOneFile, disk
  <2> QED BY <2>2, <2>3 DEF ComesBack
<1>3. CASE Intrude
  <2>1. UNCHANGED <<pc, result, work>> /\ MaxIntrusions # 0 /\ intrusions < MaxIntrusions
    BY <1>3, RestoreAssumption DEF Intrude, IInv, Local, TypeOK
  <2>2. \A w \in Workers : Well(w)'
    BY <1>0, <2>1 DEF Well, Working, Cur, Part, work
  <2>3. Overwrite
    BY <2>1 DEF Restorable
  <2>4. Vacant'
    BY <2>3 DEF Vacant
  <2>5. PICK t \in Tasks, i \in Inodes :
          /\ dir[Entry(t).dest] = NoFile /\ Free(i)
          /\ dir' = [dir EXCEPT ![Entry(t).dest] = i]
          /\ data' = [data EXCEPT ![i] = <<Old>>]
    BY <1>3 DEF Intrude
  <2>6. ASSUME NEW p \in Paths, dir[p] # NoFile
        PROVE  dir'[p] = dir[p] /\ data'[dir'[p]] = data[dir[p]]
    <3>1. p # Entry(t).dest /\ dir[p] # i /\ dir[p] \in Inodes
      BY <1>0, <2>5, <2>6 DEF DiskTypeOK, Free
    <3> QED BY <1>0, <2>5, <3>1 DEF DiskTypeOK
  <2>7. ASSUME NEW w \in Workers, NEW k \in DOMAIN result[w],
               Queue[w][k].dest \in Healthy
        PROVE  /\ dir'[Queue[w][k].dest] # NoFile
               /\ Whole(data'[dir'[Queue[w][k].dest]], Queue[w][k])
    <3>1. k \in DOMAIN Queue[w]
      BY <1>0, RestoreAssumption DEF WorkTypeOK
    <3>2. Queue[w][k].dest \in Paths
      BY <3>1, EntryTypes DEF Entries
    <3>3. /\ dir[Queue[w][k].dest] # NoFile
          /\ Whole(data[dir[Queue[w][k].dest]], Queue[w][k])
      BY <1>0, <2>7 DEF FailureCostsOneFile
    <3> QED BY <2>6, <3>2, <3>3
  <2>8. FailureCostsOneFile'
    BY <2>1, <2>7 DEF FailureCostsOneFile
  <2> QED BY <2>2, <2>4, <2>8 DEF ComesBack
<1>4. CASE UNCHANGED vars
  <2>1. \A w \in Workers : Well(w)'
    BY <1>0, <1>4 DEF vars, work, Well, Working, Cur, Part
  <2>2. Vacant' /\ FailureCostsOneFile'
    BY <1>0, <1>4 DEF vars, disk, Vacant, FailureCostsOneFile
  <2> QED BY <2>1, <2>2 DEF ComesBack
<1> QED BY <1>1, <1>2, <1>3, <1>4 DEF Next

LEMMA ComesBackInit == ASSUME Restorable PROVE Init => ComesBack
<1> SUFFICES ASSUME Init PROVE ComesBack
  OBVIOUS
<1>1. \A w \in Workers : Well(w)
  BY DEF Init, Well
<1>2. Vacant
  BY DEF Init, Vacant, Restorable
<1>3. FailureCostsOneFile
  BY DEF Init, FailureCostsOneFile
<1> QED BY <1>1, <1>2, <1>3 DEF ComesBack

\* "A failure costs one file, not the recovery": for any list, any answers for
\* the other files, any disk faults on them and any crashes, a file whose parts
\* are served and whose disk works is there, whole, once the run is past it.
THEOREM OthersComeBack ==
  ASSUME Apart, Restorable PROVE Spec => []FailureCostsOneFile
<1>1. Init => IInv /\ ComesBack
  BY LocalInit, DiskInit, ComesBackInit DEF IInv
<1>2. IInv /\ ComesBack /\ [Next]_vars => (IInv /\ ComesBack)'
  BY IInvStep, ComesBackStep
<1>3. ComesBack => FailureCostsOneFile
  BY DEF ComesBack
<1> QED BY <1>1, <1>2, <1>3, PTL DEF Spec

-----------------------------------------------------------------------------
(* The promise, kept step by step, where no other program interferes *)

FileBar == [t \in Tasks |-> FileState(t)]

VerdictBar == [t \in Tasks |-> Verdict(t)]

\* Where a file may not be written over, a worker that is past looking whether
\* something is there is right that nothing is.
NothingThere ==
  ~Overwrite => \A w \in Workers :
    Working(w) /\ pc[w] # "begin" => dir[Cur(w).dest] = NoFile

LEMMA FilesKept ==
  ASSUME DestsKept
  PROVE  UNCHANGED FileBar
<1>1. ASSUME NEW t \in Tasks PROVE FileState(t)' = FileState(t)
  BY DEF DestsKept, FileState
<1> QED BY <1>1 DEF FileBar

LEMMA MineIsPending ==
  ASSUME WorkTypeOK, NEW v \in Workers, Working(v)
  PROVE  Mine(v) \in Tasks /\ VerdictBar[Mine(v)] = "pending"
<1>1. Mine(v) \in Tasks
  BY CurTypes DEF Mine
<1>2. result[v] \in Seq({"restored", "failed"})
  BY DEF WorkTypeOK
<1>3. ~(Len(result[v]) + 1 <= Len(result[v]))
  BY <1>2
<1>4. Verdict(Mine(v)) = "pending"
  BY <1>3 DEF Verdict, Mine
<1> QED BY <1>1, <1>4 DEF VerdictBar

\* The end of a file settles its verdict.
LEMMA VerdictsTold ==
  ASSUME WorkTypeOK, NEW v \in Workers, Working(v),
         NEW what \in {"restored", "failed"}, Conclude(v, what)
  PROVE  VerdictBar' = [VerdictBar EXCEPT ![Mine(v)] = what]
<1>1. /\ \A w \in Workers : w # v => result'[w] = result[w]
      /\ Len(result'[v]) = Len(result[v]) + 1
      /\ \A k \in 1 .. Len(result[v]) : result'[v][k] = result[v][k]
      /\ result'[v][Len(result[v]) + 1] = what
      /\ Len(result[v]) \in Nat
  BY OneOutcome
<1>2. ASSUME NEW t \in Tasks
      PROVE  Verdict(t)' = IF t = Mine(v) THEN what ELSE Verdict(t)
  <2>0. t[1] \in Workers /\ t[2] \in Nat \ {0} /\ t = <<t[1], t[2]>>
    <3>1. t[1] \in Workers /\ t[2] \in DOMAIN Queue[t[1]] /\ t = <<t[1], t[2]>>
      BY DestTypes
    <3> QED BY <3>1, RestoreAssumption
  <2>1. CASE t[1] # v
    BY <1>1, <2>0, <2>1 DEF Verdict, Mine
  <2>2. CASE t[1] = v /\ t[2] = Len(result[v]) + 1
    <3>1. t = Mine(v)
      BY <2>0, <2>2 DEF Mine
    <3> QED BY <1>1, <2>2, <3>1 DEF Verdict
  <2>3. CASE t[1] = v /\ t[2] # Len(result[v]) + 1
    <3>1. t # Mine(v)
      BY <2>3 DEF Mine
    <3>2. t[2] <= Len(result'[v]) <=> t[2] <= Len(result[v])
      BY <1>1, <2>0, <2>3
    <3>3. t[2] <= Len(result[v]) => result'[v][t[2]] = result[v][t[2]]
      BY <1>1, <2>0
    <3> QED BY <2>3, <3>1, <3>2, <3>3 DEF Verdict
  <2> QED BY <2>1, <2>2, <2>3
<1> QED BY <1>2 DEF VerdictBar

LEMMA NothingThereStep ==
  ASSUME IInv, Apart, MaxIntrusions = 0, NothingThere, [Next]_vars
  PROVE  NothingThere'
<1> SUFFICES ASSUME ~Overwrite, NEW w \in Workers, Working(w)', pc'[w] # "begin"
             PROVE  dir'[Cur(w)'.dest] = NoFile
  BY DEF NothingThere
<1>0. /\ WorkTypeOK /\ DiskTypeOK /\ \A v \in Workers : Sane(v)
  BY DEF IInv, Local, TypeOK
<1>1. ASSUME NEW v \in Workers, Step(v) PROVE dir'[Cur(w)'.dest] = NoFile
  <2>0. Working(v)
    BY <1>0, <1>1, StepWorking
  <2>1. CASE w = v
    <3>1. UNCHANGED result
      <4>1. CASE Conclude(v, "restored") \/ Conclude(v, "failed")
        BY <1>0, <2>1, <4>1 DEF Conclude, WorkTypeOK
      <4> QED BY <1>1, <4>1, NoOutcome
    <3>2. Cur(w)' = Cur(w) /\ Working(w)
      BY <3>1 DEF Cur, Working
    <3>3. PICK t \in Tasks : Entry(t) = Cur(w)
      BY <1>0, <3>2, CurTypes
    <3>4. ~Rename(v)
      BY <1>0, <2>1 DEF Rename, Conclude, WorkTypeOK
    <3>5. dir'[Cur(w).dest] = dir[Cur(w).dest]
      BY <1>1, <3>3, <3>4, DestsStay DEF DestsKept
    <3>6. dir[Cur(w).dest] = NoFile
      <4>1. CASE pc[w] # "begin"
        BY <3>2, <4>1 DEF NothingThere
      <4>2. CASE pc[w] = "begin"
        <5>1. Accept(v) \/ Refuse(v)
          BY <1>1, <2>1, <4>2 DEF Step, CreateTemp, CreateFails, PartMisplaced,
            PartUnavailable, OpenPart, PushBlock, WriteFails, EndPart, CheckWhole,
            Rename, RenameFails, RemoveTemp
        <5>2. ~Refuse(v)
          BY <1>0, <2>1 DEF Refuse, Conclude, WorkTypeOK
        <5> QED BY <2>1, <5>1, <5>2 DEF Accept
      <4> QED BY <4>1, <4>2
    <3> QED BY <3>2, <3>5, <3>6
  <2>2. CASE w # v
    <3>1. Cur(w)' = Cur(w) /\ Working(w) /\ pc[w] # "begin"
      BY <1>0, <1>1, <2>2, OthersKeep DEF Cur, Working
    <3>2. dir[Cur(w).dest] = NoFile
      BY <3>1 DEF NothingThere
    <3>3. Mine(w) \in Tasks /\ Entry(Mine(w)) = Cur(w) /\ Mine(w) # Mine(v)
      BY <1>0, <2>2, <3>1, CurTypes DEF Mine
    <3>4. dir'[Cur(w).dest] = dir[Cur(w).dest]
      <4>1. CASE Rename(v)
        BY <3>3, <4>1, RenameDests
      <4>2. CASE ~Rename(v)
        BY <1>1, <3>3, <4>2, DestsStay DEF DestsKept
      <4> QED BY <4>1, <4>2
    <3> QED BY <3>1, <3>2, <3>4
  <2> QED BY <2>1, <2>2
<1>2. ~Crash
  BY DEF Crash
<1>3. ~Intrude
  BY RestoreAssumption DEF Intrude, IInv, Local, TypeOK
<1>4. CASE UNCHANGED vars
  BY <1>4 DEF vars, disk, NothingThere, Working, Cur
<1> QED BY <1>1, <1>2, <1>3, <1>4 DEF Next

LEMMA PromiseInit == ASSUME Apart PROVE Init => Promise!Init
<1> SUFFICES ASSUME Init PROVE Promise!Init
  OBVIOUS
<1>1. ASSUME NEW t \in Tasks
      PROVE  FileState(t) \in {"absent", "old"} /\ Verdict(t) = "pending"
  <2>1. /\ Entry(t).dest \in Paths /\ t[1] \in Workers
        /\ t[2] \in DOMAIN Queue[t[1]]
    BY DestTypes
  <2>2. dir[Entry(t).dest] \in Inodes \union {NoFile}
    BY <2>1, RestoreAssumption DEF Init
  <2>3. FileState(t) \in {"absent", "old"}
    BY <2>2 DEF Init, FileState
  <2>4. t[2] \in Nat \ {0} /\ Len(result[t[1]]) = 0
    BY <2>1, RestoreAssumption DEF Init
  <2>5. Verdict(t) = "pending"
    BY <2>4 DEF Verdict
  <2> QED BY <2>3, <2>5
<1> QED BY <1>1 DEF Promise!Init

LEMMA PromiseStep ==
  ASSUME IInv, Apart, MaxIntrusions = 0, NothingThere, [Next]_vars
  PROVE  Promise!Next \/ UNCHANGED <<FileBar, VerdictBar>>
<1>0. /\ WorkTypeOK /\ DiskTypeOK /\ \A v \in Workers : Sane(v)
  BY DEF IInv, Local, TypeOK
<1>1. ASSUME NEW v \in Workers, Step(v), ~Rename(v)
      PROVE  Promise!Next \/ UNCHANGED <<FileBar, VerdictBar>>
  <2>0. Working(v) /\ UNCHANGED FileBar
    BY <1>0, <1>1, StepWorking, DestsStay, FilesKept
  <2>1. CASE UNCHANGED result
    BY <2>0, <2>1 DEF VerdictBar, Verdict
  <2>2. CASE Conclude(v, "failed")
    <3>1. /\ Mine(v) \in Tasks /\ VerdictBar[Mine(v)] = "pending"
          /\ VerdictBar' = [VerdictBar EXCEPT ![Mine(v)] = "failed"]
      BY <1>0, <2>0, <2>2, MineIsPending, VerdictsTold
    <3>2. Promise!GiveUp(Mine(v))
      BY <2>0, <3>1 DEF Promise!GiveUp, FileBar, VerdictBar
    <3> QED BY <3>1, <3>2 DEF Promise!Next
  <2> QED BY <1>1, <2>1, <2>2, NoOutcome
<1>2. ASSUME NEW v \in Workers, Rename(v) PROVE Promise!Next
  <2>0. Working(v) /\ Conclude(v, "restored") /\ pc[v] # "begin"
    BY <1>0, <1>2 DEF Sane, Rename
  <2>1. /\ Mine(v) \in Tasks /\ VerdictBar[Mine(v)] = "pending"
        /\ VerdictBar' = [VerdictBar EXCEPT ![Mine(v)] = "restored"]
    BY <1>0, <2>0, MineIsPending, VerdictsTold
  <2>2. /\ Entry(Mine(v)) = Cur(v)
        /\ dir'[Cur(v).dest] = ino[v] /\ ino[v] # NoFile
        /\ data'[ino[v]] = put[v] /\ Whole(put[v], Cur(v))
        /\ put[v] \in Seq(AllHeaders \X Nat)
        /\ \A t \in Tasks : t # Mine(v) =>
             /\ dir'[Entry(t).dest] = dir[Entry(t).dest]
             /\ data' = data
    BY <1>2, RenameDests
  <2>3. put[v] # <<Old>>
    <3>1. ASSUME put[v] = <<Old>> PROVE FALSE
      <4>1. put[v][1] = Old /\ Len(put[v]) = 1
        BY <3>1
      <4>2. put[v][1] \in AllHeaders \X Nat
        BY <2>2, <4>1
      <4> QED BY <4>1, <4>2, RestoreAssumption
    <3> QED BY <3>1
  <2>4. ASSUME NEW t \in Tasks, t = Mine(v) PROVE FileState(t)' = "whole"
    <3>1. Entry(t) = Cur(v) /\ Entry(t)' = Entry(t)
      BY <2>2, <2>4 DEF Entry
    <3> QED BY <2>2, <2>3, <3>1 DEF FileState
  <2>5. ASSUME NEW t \in Tasks, t # Mine(v) PROVE FileState(t)' = FileState(t)
    BY <2>2, <2>5 DEF FileState
  <2>6. FileBar' = [FileBar EXCEPT ![Mine(v)] = "whole"]
    <3>1. \A t \in Tasks :
            FileState(t)' = IF t = Mine(v) THEN "whole" ELSE FileState(t)
      BY <2>4, <2>5
    <3> QED BY <3>1 DEF FileBar
  <2>7. Overwrite \/ FileBar[Mine(v)] = "absent"
    BY <2>0, <2>1, <2>2 DEF NothingThere, FileBar, FileState
  <2>8. Promise!PutInPlace(Mine(v))
    BY <2>1, <2>6, <2>7 DEF Promise!PutInPlace, FileBar, VerdictBar
  <2> QED BY <2>1, <2>8 DEF Promise!Next
<1>3. CASE Crash
  <2>1. UNCHANGED disk /\ result' = [w \in Workers |-> <<>>]
    BY <1>3 DEF Crash
  <2>2. UNCHANGED FileBar
    BY <2>1 DEF disk, FileBar, FileState, Whole, Holds
  <2>3. ASSUME NEW t \in Tasks PROVE Verdict(t)' = "pending"
    <3>1. t[1] \in Workers /\ t[2] \in Nat \ {0}
      BY DestTypes, RestoreAssumption
    <3> QED BY <2>1, <3>1 DEF Verdict
  <2>4. Promise!StartAgain
    BY <2>2, <2>3 DEF Promise!StartAgain, FileBar
  <2> QED BY <2>4 DEF Promise!Next
<1>4. ~Intrude
  BY RestoreAssumption DEF Intrude, IInv, Local, TypeOK
<1>5. CASE UNCHANGED vars
  BY <1>5 DEF vars, disk, FileBar, FileState, VerdictBar, Verdict
<1> QED BY <1>1, <1>2, <1>3, <1>4, <1>5 DEF Next

\* The restore implements the promise, file by file, where no other program
\* puts files of its own in the folder: a file goes from what was there to
\* whole in one step, without the flag only where nothing was, and a file that
\* fails is left as it was, however often the run is killed and started again.
THEOREM PromiseIsKept ==
  ASSUME Apart, MaxIntrusions = 0 PROVE Spec => KeepsPromise
<1>1. Init => IInv /\ NothingThere /\ Promise!Init
  BY LocalInit, DiskInit, PromiseInit DEF IInv, Init, NothingThere
<1>2. IInv /\ NothingThere /\ [Next]_vars => (IInv /\ NothingThere)'
  BY IInvStep, NothingThereStep
<1>3. IInv /\ NothingThere /\ [Next]_vars =>
        [Promise!Next]_<<FileBar, VerdictBar>>
  BY PromiseStep
<1> QED BY <1>1, <1>2, <1>3, PTL
        DEF Spec, KeepsPromise, Promise!Spec, FileBar, VerdictBar
===============================================================================
