------------------------------- MODULE Restore -------------------------------
(***************************************************************************)
(* The restore engine: the planned files of one run (or of several runs in *)
(* the same folder), fetched part by part, decrypted, checked and put in   *)
(* place: restore_item and decrypt_part of recovery/src/restore.rs, under  *)
(* the loop over the plan that do_restore (main.rs) and run_restore        *)
(* (gui/mod.rs) both are.                                                  *)
(*                                                                         *)
(* A file's bytes are abstracted to blocks.  A block is <<header, k>>: the *)
(* k-th block sealed under that header, which no other stream can supply.  *)
(* What the storage serves is any header the account ever sealed, followed *)
(* by any number of its genuine blocks, followed by the end of the answer, *)
(* by bytes that are not the next block, or by a read error.               *)
(*                                                                         *)
(* The disk keeps names and inodes apart, because a temporary file that is *)
(* created again is the same inode, and a renamed file is the inode some   *)
(* handle may still be writing to.                                         *)
(***************************************************************************)
EXTENDS Integers, Sequences

CONSTANTS
  Workers,        \* restore threads (one per run of the program or window)
  Queue,          \* Queue[w]: the planned files of worker w, in plan order
  Headers,        \* every stream header that exists in the storage
  Paths,          \* the names the runs use, destinations and temporaries
  Inodes,
  InitialDirs,    \* the disks a run may start from
  Overwrite,      \* the --overwrite flag
  Healthy,        \* destinations whose parts are served, on a disk that works
  DiskFaults,     \* the disk operations that may fail for the other files
  MaxCrashes,     \* bound: how often the process dies and is started again
  MaxIntrusions,  \* bound: how often another program puts a file in the folder
  NoFile, NoIndex, NoHash, NoStream,
  Old, Hole       \* contents that no list describes

\* A stored part that never parses as a stream: too short, or not a header.
NoHeader == [key |-> "none", index |-> 0, total |-> 0, len |-> 0]

AllHeaders == Headers \union {NoHeader}

\* One answer of the storage: a header, GOOD genuine blocks of it, an ending.
Streams ==
  {s \in [hdr : AllHeaders, good : UNION {0 .. h.len : h \in AllHeaders},
          end : {"eof", "junk", "cut"}] : s.good <= s.hdr.len}

DiskOps == {"mkdir", "create", "write", "rename", "remove"}

\* A part as the list has it: its own number if the list recorded one, the
\* blocks before it in the file, the blocks it contributes, its stored blocks.
Parts == [index : Nat \union {NoIndex}, start : Nat, keep : Nat, len : Nat]

Entries ==
  [tmp : Paths, dest : Paths, key : {h.key : h \in AllHeaders}, size : Nat,
   hash : Seq(AllHeaders \X Nat) \union {NoHash}, problem : BOOLEAN,
   parts : Seq(Parts)]

ASSUME RestoreAssumption ==
  /\ NoFile \notin Inodes /\ Old \notin AllHeaders \X Nat
  /\ \A h \in Headers :
       /\ h = [key |-> h.key, index |-> h.index, total |-> h.total, len |-> h.len]
       /\ h.index \in Nat /\ h.total \in Nat /\ h.len \in Nat
  /\ Queue \in [Workers -> Seq(Entries)]
  /\ InitialDirs \subseteq [Paths -> Inodes \union {NoFile}]
  /\ DiskFaults \subseteq DiskOps
  /\ MaxCrashes \in Nat /\ MaxIntrusions \in Nat

\* The start of a part is what the parts before it contribute.
ASSUME Tiled ==
  \A w \in Workers : \A k \in DOMAIN Queue[w] :
    LET parts == Queue[w][k].parts
    IN  \A q \in DOMAIN parts :
          parts[q].start = IF q = 1 THEN 0 ELSE parts[q - 1].start + parts[q - 1].keep

VARIABLES
  pc,          \* pc[w]: the step of restore_item worker w is at
  result,      \* result[w]: what became of each file so far, in order
  pos,         \* pos[w]: the part being written (the loop counter, from 0)
  srv,         \* srv[w]: the stream being read
  got,         \* got[w]: blocks of it that opened
  put,         \* put[w]: the blocks written and hashed in this attempt
  ino,         \* ino[w]: the inode behind the open temporary file
  dir,         \* dir[p]: the inode a name leads to
  data,        \* data[i]: the contents of an inode
  crashes, intrusions

disk == <<dir, data>>
work == <<pos, srv, got, put, ino>>
vars == <<pc, result, work, disk, crashes, intrusions>>

-----------------------------------------------------------------------------
Tasks == UNION {{w} \X DOMAIN Queue[w] : w \in Workers}

Entry(t) == Queue[t[1]][t[2]]

Working(w) == Len(result[w]) < Len(Queue[w])

Cur(w) == Queue[w][Len(result[w]) + 1]

Part(w) == Cur(w).parts[pos[w] + 1]

MayFail(w, op) == op \in DiskFaults /\ Cur(w).dest \notin Healthy

Free(i) == i \notin {dir[p] : p \in Paths} \union {ino[w] : w \in Workers}

\* The header a reader filling position POS of the current file must be shown.
Expected(w) ==
  [key |-> Cur(w).key, index |-> pos[w], total |-> Len(Cur(w).parts),
   len |-> Part(w).len]

\* Mistake: a part of any position is taken, if it has the right length.
HeaderAnyPosition(w, h) ==
  h # NoHeader /\ h.len = Part(w).len /\ h.key = Cur(w).key

\* decrypt_part before the first block: the header is readable, is for this
\* position of this many parts, is as long as the list says, and its key
\* commitment is that of the key the list carries.
HeaderOK(w, h) ==
  /\ h # NoHeader
  /\ h.index = pos[w] /\ h.total = Len(Cur(w).parts)
  /\ h.len = Part(w).len
  /\ h.key = Cur(w).key

\* Writing block B at offset O of contents D: a gap is filled with holes.
WriteAt(d, o, b) ==
  [k \in 1 .. (IF o < Len(d) THEN Len(d) ELSE o + 1) |->
     IF k = o + 1 THEN b ELSE IF k <= Len(d) THEN d[k] ELSE Hole]

\* Mistake: the part counter outlives the file.
ConcludeKeepingPos(w, what) ==
  /\ result' = [result EXCEPT ![w] = Append(@, what)]
  /\ pc'  = [pc EXCEPT ![w] = "begin"]
  /\ srv' = [srv EXCEPT ![w] = NoStream]
  /\ got' = [got EXCEPT ![w] = 0]
  /\ put' = [put EXCEPT ![w] = <<>>]
  /\ ino' = [ino EXCEPT ![w] = NoFile]
  /\ UNCHANGED pos

\* The end of one file: its outcome is noted and the next one begins.
Conclude(w, what) ==
  /\ result' = [result EXCEPT ![w] = Append(@, what)]
  /\ pc'  = [pc EXCEPT ![w] = "begin"]
  /\ pos' = [pos EXCEPT ![w] = 0]
  /\ srv' = [srv EXCEPT ![w] = NoStream]
  /\ got' = [got EXCEPT ![w] = 0]
  /\ put' = [put EXCEPT ![w] = <<>>]
  /\ ino' = [ino EXCEPT ![w] = NoFile]

Goto(w, step) == pc' = [pc EXCEPT ![w] = step] /\ UNCHANGED result

-----------------------------------------------------------------------------
Init ==
  /\ dir \in InitialDirs
  /\ data = [i \in Inodes |-> <<Old>>]
  /\ pc = [w \in Workers |-> "begin"]
  /\ result = [w \in Workers |-> <<>>]
  /\ pos = [w \in Workers |-> 0]
  /\ srv = [w \in Workers |-> NoStream]
  /\ got = [w \in Workers |-> 0]
  /\ put = [w \in Workers |-> <<>>]
  /\ ino = [w \in Workers |-> NoFile]
  /\ crashes = 0 /\ intrusions = 0

\* The refusals that come before anything is created.
Refuse(w) ==
  /\ pc[w] = "begin" /\ Working(w)
  /\ \/ ~Overwrite /\ dir[Cur(w).dest] # NoFile
     \/ Cur(w).problem
     \/ Cur(w).parts = <<>>
     \/ MayFail(w, "mkdir")
  /\ Conclude(w, "failed")
  /\ UNCHANGED <<disk, crashes, intrusions>>

Accept(w) ==
  /\ pc[w] = "begin" /\ Working(w)
  /\ Overwrite \/ dir[Cur(w).dest] = NoFile
  /\ ~Cur(w).problem /\ Cur(w).parts # <<>>
  /\ Goto(w, "create")
  /\ UNCHANGED <<work, disk, crashes, intrusions>>

\* Mistake: the file is written where it will be, with no temporary.
CreateInPlace(w) ==
  /\ pc[w] = "create"
  /\ \E i \in Inodes :
       /\ Free(i)
       /\ dir' = [dir EXCEPT ![Cur(w).tmp] = i, ![Cur(w).dest] = i]
       /\ data' = [data EXCEPT ![i] = <<>>]
       /\ ino' = [ino EXCEPT ![w] = i]
  /\ Goto(w, "part")
  /\ UNCHANGED <<pos, srv, got, put, crashes, intrusions>>

\* File::create: a temporary that is already there is truncated, not replaced.
CreateTemp(w) ==
  /\ pc[w] = "create"
  /\ \E i \in Inodes :
       /\ i = dir[Cur(w).tmp] \/ (dir[Cur(w).tmp] = NoFile /\ Free(i))
       /\ dir' = [dir EXCEPT ![Cur(w).tmp] = i]
       /\ data' = [data EXCEPT ![i] = <<>>]
       /\ ino' = [ino EXCEPT ![w] = i]
  /\ Goto(w, "part")
  /\ UNCHANGED <<pos, srv, got, put, crashes, intrusions>>

\* The file cannot be created: the error path still removes the name.
CreateFails(w) ==
  /\ pc[w] = "create" /\ MayFail(w, "create")
  /\ Goto(w, "remove")
  /\ UNCHANGED <<work, disk, crashes, intrusions>>

\* The list's own part number, when it has one, against the loop counter: the
\* parse of a list refuses these too, and a restore does not rely on it.
PartMisplaced(w) ==
  /\ pc[w] = "part" /\ pos[w] < Len(Cur(w).parts)
  /\ Part(w).index \notin {NoIndex, pos[w]}
  /\ Goto(w, "remove")
  /\ UNCHANGED <<work, disk, crashes, intrusions>>

PartUnavailable(w) ==
  /\ pc[w] = "part" /\ pos[w] < Len(Cur(w).parts)
  /\ Cur(w).dest \notin Healthy
  /\ Goto(w, "remove")
  /\ UNCHANGED <<work, disk, crashes, intrusions>>

\* A source answers: what it serves is read up to and including its header.
OpenPart(w) ==
  /\ pc[w] = "part" /\ pos[w] < Len(Cur(w).parts)
  /\ Part(w).index \in {NoIndex, pos[w]}
  /\ \E s \in Streams :
       /\ Cur(w).dest \in Healthy =>
            s = [hdr |-> Expected(w), good |-> Part(w).len, end |-> "eof"]
       /\ IF HeaderOK(w, s.hdr)
          THEN /\ Goto(w, "stream")
               /\ srv' = [srv EXCEPT ![w] = s]
               /\ got' = [got EXCEPT ![w] = 0]
          ELSE Goto(w, "remove") /\ UNCHANGED <<srv, got>>
  /\ UNCHANGED <<pos, put, ino, disk, crashes, intrusions>>

\* One block opens; only the blocks the part contributes reach the file.
PushBlock(w) ==
  /\ pc[w] = "stream" /\ got[w] < srv[w].good
  /\ got' = [got EXCEPT ![w] = @ + 1]
  /\ IF got[w] < Part(w).keep
     THEN LET b == <<srv[w].hdr, got[w] + 1>>
          IN  /\ put' = [put EXCEPT ![w] = Append(@, b)]
              /\ data' = [data EXCEPT ![ino[w]] = WriteAt(@, Len(put[w]), b)]
     ELSE UNCHANGED <<put, data>>
  /\ Goto(w, "stream")
  /\ UNCHANGED <<pos, srv, ino, dir, crashes, intrusions>>

WriteFails(w) ==
  /\ pc[w] = "stream" /\ got[w] < srv[w].good /\ got[w] < Part(w).keep
  /\ MayFail(w, "write")
  /\ Goto(w, "remove")
  /\ UNCHANGED <<work, disk, crashes, intrusions>>

\* Mistake: an answer that was cut short is waited for.
EndPartWaits(w) ==
  /\ pc[w] = "stream" /\ got[w] = srv[w].good
  /\ srv[w].end = "eof" /\ got[w] = srv[w].hdr.len /\ got[w] >= Part(w).keep
  /\ Goto(w, "part") /\ pos' = [pos EXCEPT ![w] = @ + 1]
  /\ UNCHANGED <<srv, got, put, ino, disk, crashes, intrusions>>

\* The answer ends.  It counts only if every block came, nothing followed the
\* last one, no read failed, and all the part contributes has been kept.
EndPart(w) ==
  /\ pc[w] = "stream" /\ got[w] = srv[w].good
  /\ IF srv[w].end = "eof" /\ got[w] = srv[w].hdr.len /\ got[w] >= Part(w).keep
     THEN Goto(w, "part") /\ pos' = [pos EXCEPT ![w] = @ + 1]
     ELSE Goto(w, "remove") /\ UNCHANGED pos
  /\ UNCHANGED <<srv, got, put, ino, disk, crashes, intrusions>>

\* Mistake: the recorded hash is not looked at.
CheckSize(w) ==
  /\ pc[w] = "part" /\ pos[w] = Len(Cur(w).parts)
  /\ Goto(w, IF Len(put[w]) = Cur(w).size THEN "rename" ELSE "remove")
  /\ UNCHANGED <<work, disk, crashes, intrusions>>

\* The two checks that span the parts: the size and, when recorded, the hash.
CheckWhole(w) ==
  /\ pc[w] = "part" /\ pos[w] = Len(Cur(w).parts)
  /\ IF Len(put[w]) = Cur(w).size /\ Cur(w).hash \in {NoHash, put[w]}
     THEN Goto(w, "rename")
     ELSE Goto(w, "remove")
  /\ UNCHANGED <<work, disk, crashes, intrusions>>

Rename(w) ==
  /\ pc[w] = "rename" /\ dir[Cur(w).tmp] # NoFile
  /\ dir' = [dir EXCEPT ![Cur(w).dest] = dir[Cur(w).tmp],
                        ![Cur(w).tmp] = NoFile]
  /\ Conclude(w, "restored")
  /\ UNCHANGED <<data, crashes, intrusions>>

\* Mistake: what the rename returns is dropped.
RenameUnchecked(w) ==
  /\ pc[w] = "rename"
  /\ dir[Cur(w).tmp] = NoFile \/ MayFail(w, "rename")
  /\ Conclude(w, "restored")
  /\ UNCHANGED <<disk, crashes, intrusions>>

\* A failed rename is reported and nothing more is done: the temporary stays.
RenameFails(w) ==
  /\ pc[w] = "rename"
  /\ dir[Cur(w).tmp] = NoFile \/ MayFail(w, "rename")
  /\ Conclude(w, "failed")
  /\ UNCHANGED <<disk, crashes, intrusions>>

RemoveTemp(w) ==
  /\ pc[w] = "remove"
  /\ \/ dir' = [dir EXCEPT ![Cur(w).tmp] = NoFile]
     \/ MayFail(w, "remove") /\ UNCHANGED dir
  /\ Conclude(w, "failed")
  /\ UNCHANGED <<data, crashes, intrusions>>

Step(w) ==
  \/ Refuse(w) \/ Accept(w) \/ CreateTemp(w) \/ CreateFails(w)
  \/ PartMisplaced(w) \/ PartUnavailable(w) \/ OpenPart(w)
  \/ PushBlock(w) \/ WriteFails(w) \/ EndPart(w)
  \/ CheckWhole(w) \/ Rename(w) \/ RenameFails(w) \/ RemoveTemp(w)

\* The process is killed at any point and the same restore is run again.  The
\* disk keeps what it held; everything the process knew is gone.
Crash ==
  /\ crashes < MaxCrashes
  /\ crashes' = crashes + 1
  /\ pc' = [w \in Workers |-> "begin"]
  /\ result' = [w \in Workers |-> <<>>]
  /\ pos' = [w \in Workers |-> 0]
  /\ srv' = [w \in Workers |-> NoStream]
  /\ got' = [w \in Workers |-> 0]
  /\ put' = [w \in Workers |-> <<>>]
  /\ ino' = [w \in Workers |-> NoFile]
  /\ UNCHANGED <<disk, intrusions>>

\* Another program puts a file of its own where a restored one will go.
Intrude ==
  /\ intrusions < MaxIntrusions
  /\ intrusions' = intrusions + 1
  /\ \E t \in Tasks, i \in Inodes :
       /\ dir[Entry(t).dest] = NoFile /\ Free(i)
       /\ dir' = [dir EXCEPT ![Entry(t).dest] = i]
       /\ data' = [data EXCEPT ![i] = <<Old>>]
  /\ UNCHANGED <<pc, result, work, crashes>>

Next == (\E w \in Workers : Step(w)) \/ Crash \/ Intrude

Spec == Init /\ [][Next]_vars

\* A thread that can take a step takes one: reads have a timeout, and nothing
\* in the loop waits for anything but the disk and the network.
FairSpec == Spec /\ \A w \in Workers : WF_vars(Step(w))

-----------------------------------------------------------------------------
(* Properties *)

WorkTypeOK ==
  /\ pc \in [Workers -> {"begin", "create", "part", "stream", "rename", "remove"}]
  /\ result \in [Workers -> Seq({"restored", "failed"})]
  /\ \A w \in Workers : Len(result[w]) <= Len(Queue[w])
  /\ pos \in [Workers -> Nat]
  /\ srv \in [Workers -> Streams \union {NoStream}]
  /\ got \in [Workers -> Nat]
  /\ put \in [Workers -> Seq(AllHeaders \X Nat)]
  /\ ino \in [Workers -> Inodes \union {NoFile}]

Contents == (AllHeaders \X Nat) \union {Old, Hole}

DiskTypeOK ==
  /\ dir \in [Paths -> Inodes \union {NoFile}]
  /\ data \in [Inodes -> Seq(Contents)]

TypeOK ==
  /\ WorkTypeOK /\ DiskTypeOK
  /\ crashes \in 0 .. MaxCrashes /\ intrusions \in 0 .. MaxIntrusions

\* The K-th block of part Q of the file E describes.
Block(e, q, k) ==
  <<[key |-> e.key, index |-> q, total |-> Len(e.parts),
     len |-> e.parts[q + 1].len], k>>

\* The first N blocks of part Q are where they belong in contents D.
Holds(d, e, q, n) ==
  \A k \in 1 .. n :
    /\ e.parts[q + 1].start + k \in DOMAIN d
    /\ d[e.parts[q + 1].start + k] = Block(e, q, k)

\* D is the file E describes: every part's blocks where that part begins in
\* the file, of the length and the hash the list recorded.
Whole(d, e) ==
  /\ Len(d) = e.size /\ e.hash \in {NoHash, d}
  /\ \A q \in 0 .. Len(e.parts) - 1 : Holds(d, e, q, e.parts[q + 1].keep)

\* What keeps the files of the runs from each other: no two are written to one
\* place, none is called what a temporary is called, two runs share no
\* temporary, and no two names of the disk they start from are one file.
Apart ==
  /\ \A t, u \in Tasks :
       /\ Entry(t).tmp # Entry(u).dest
       /\ t # u => Entry(t).dest # Entry(u).dest
       /\ t[1] # u[1] => Entry(t).tmp # Entry(u).tmp
  /\ \A d \in InitialDirs : \A p, q \in Paths :
       d[p] # NoFile /\ d[p] = d[q] => p = q

\* What a list says of a file that can come back: its parts are numbered in
\* order, hold what they contribute, and give the size and the hash recorded.
Sound(e) ==
  /\ ~e.problem /\ e.parts # <<>>
  /\ \A q \in DOMAIN e.parts :
       e.parts[q].index \in {NoIndex, q - 1} /\ e.parts[q].keep <= e.parts[q].len
  /\ LET last == e.parts[Len(e.parts)] IN e.size = last.start + last.keep
  /\ e.hash # NoHash =>
       /\ Len(e.hash) = e.size
       /\ \A j \in DOMAIN e.hash :
            \E q \in 0 .. Len(e.parts) - 1 : \E k \in 1 .. e.parts[q + 1].keep :
              j = e.parts[q + 1].start + k /\ e.hash[j] = Block(e, q, k)

\* The healthy files can come back: the list is right about them, and nothing
\* of another program is in their place, or it may be written over.
Restorable ==
  /\ \A t \in Tasks : Entry(t).dest \in Healthy => Sound(Entry(t))
  /\ \/ Overwrite
     \/ /\ MaxIntrusions = 0
        /\ \A d \in InitialDirs, t \in Tasks :
             Entry(t).dest \in Healthy => d[Entry(t).dest] = NoFile

\* Nothing half-written is left looking finished (restore.rs, invariant 4): a
\* destination holds no file, a file that was not ours, or the whole file.
FinishedIsWhole ==
  \A t \in Tasks : dir[Entry(t).dest] # NoFile =>
    \/ data[dir[Entry(t).dest]] = <<Old>>
    \/ Whole(data[dir[Entry(t).dest]], Entry(t))

\* A file the run reported as restored is on the disk, whole, from then on to
\* the end of the run, whatever becomes of the files after it.
ReportedIsThere ==
  \A w \in Workers : \A k \in DOMAIN result[w] : result[w][k] = "restored" =>
    /\ dir[Queue[w][k].dest] # NoFile
    /\ Whole(data[dir[Queue[w][k].dest]], Queue[w][k])

\* A failure costs one file, not the recovery (restore.rs, invariant 5): once a
\* file that is served and writable has been dealt with it is there, whole, no
\* matter what became of the files before it or how often the run was killed.
FailureCostsOneFile ==
  \A w \in Workers : \A k \in DOMAIN result[w] :
    LET e == Queue[w][k]
    IN  e.dest \in Healthy => dir[e.dest] # NoFile /\ Whole(data[dir[e.dest]], e)

\* Every file of every run gets an outcome: no answer of the storage and no
\* failure of the disk leaves the restore waiting.
EveryFileIsSettled == <>[](\A w \in Workers : ~Working(w))

-----------------------------------------------------------------------------
(* What a restore promises, file by file, and how this restore keeps it. *)

FileState(t) ==
  LET i == dir[Entry(t).dest]
  IN  IF i = NoFile THEN "absent"
      ELSE IF data[i] = <<Old>> THEN "old"
      ELSE IF Whole(data[i], Entry(t)) THEN "whole" ELSE "broken"

Verdict(t) ==
  IF t[2] <= Len(result[t[1]]) THEN result[t[1]][t[2]] ELSE "pending"

Promise == INSTANCE RestorePromise WITH
  Files <- Tasks,
  file <- [t \in Tasks |-> FileState(t)],
  verdict <- [t \in Tasks |-> Verdict(t)]

\* The restore implements the promise: each file goes from what was there to
\* whole in one step, and a file that fails is left as it was.
KeepsPromise == Promise!Spec
=============================================================================
