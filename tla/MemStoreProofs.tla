---------------------------- MODULE MemStoreProofs ----------------------------
(***************************************************************************)
(* Safety of the stores in memory and of a reader of them, for any blobs,  *)
(* tasks, tags and requests.  MInv says what the storage of a handle and   *)
(* the tasks that read and write it can rely on, RInv what a reader can    *)
(* rely on of the stream it reads.                                         *)
(***************************************************************************)
EXTENDS BlobReader, TempTagsProofs

\* Leaves are first-order unless they name another prover.
USE Zenon

-----------------------------------------------------------------------------
(* Invariants of the store *)

BaoTask == [kind : {"bao"}, obj : Handle, got : SUBSET Node]
ImportTask == [kind : {"import", "imported"}, scope : Scope, value : Value]
RangesTask ==
  [kind : {"ranges"}, from : Optional(Handle), bits : SUBSET BitfieldType,
   rest : Seq(SUBSET Int), reading : SUBSET Int]
ExportTask ==
  [kind : {"export", "path"}, from : Optional(Handle), started : BOOLEAN, reading : SUBSET Int]
BatchTaskType == [kind : {"batch", "closed"}, scope : Batch]
SendingTask == [kind : {"pending", "sending"}, left : SUBSET Int]
OtherTask ==
  [kind : {"list", "done", "panicked"}] \cup [kind : {"observe"}, obj : Handle]

TaskType ==
  {NoTask} \cup BaoTask \cup ImportTask \cup RangesTask \cup ExportTask
    \cup BatchTaskType \cup SendingTask \cup OtherTask

Storage == [complete : BOOLEAN, bits : BitfieldType, data : SUBSET Leaf, outboard : SUBSET Node]

\* The chunks of the blob that a bitfield claims.
Present(b) == b.ranges \cap 0 .. Chunks(b.size) - 1

\* What the storage s of a blob h claims is in it, and a complete one has
\* everything.  Nothing is written to the empty blob.
Backed(h, s) ==
  /\ s.complete => s = CompleteStorage(h)
  /\ h = EMPTY => s.complete \/ s = NewPartial
  /\ h # EMPTY =>
       /\ s.bits = EmptyBitfield \/ s.bits.size = Size
       /\ \A c \in s.bits.ranges \cap Leaf : c \in s.data /\ PathTo[c] \subseteq s.outboard

\* What a task relies on, of the storages H and the batches B: that the pairs it
\* has written are there; that what it has found present stays.
TaskOK(r, H, B) ==
  /\ r.kind = "bao" => r.obj[1] # EMPTY /\ r.got \subseteq H[r.obj].outboard
  /\ r.kind = "ranges" => \A x \in r.from :
       r.reading \subseteq H[x].data /\ \A b \in r.bits : Present(b) \subseteq H[x].data
  /\ r.kind \in {"import", "imported"} => (r.scope \in Batch => B[r.scope] # "none")

StoreTypes ==
  /\ scenario \in Scenarios
  /\ data \in [Hash -> 0..MaxHandle]
  /\ tasks \in [Task -> TaskType]
  /\ handle \in [Handle -> Storage]

\* The blobs whose entry is there and complete.
whole == {h \in Hash : data[h] # 0 /\ handle[<<h, data[h]>>].complete}

HandlesBacked == \A x \in Handle : Backed(x[1], handle[x])
NoPanic == "panic" \notin scenario => \A t \in Task : tasks[t].kind # "panicked"
TasksOK == \A t \in Task : TaskOK(tasks[t], handle, batch)
ReadonlyWhole == Readonly => \A h \in Hash : data[h] # 0 => h \in whole
HeldWhole ==
  \A slot \in Slot :
    tt[slot] # NoTag /\ tt[slot].imported /\ tt[slot].value[1] \notin deleted =>
      tt[slot].value[1] \in whole

MInv ==
  /\ StoreTypes /\ HandlesBacked /\ TasksOK /\ ReadonlyWhole /\ HeldWhole
  /\ NoPanic /\ WaitersNotForgotten /\ TTInv

-----------------------------------------------------------------------------
(* Chunks and bitfields *)

\* The empty blob has no chunk and any other blob has one, below MaxChunk.
LEMMA LeafFacts ==
  /\ Chunks(0) = 0 /\ 0 \in BlobSize
  /\ Chunks(Size) \in 1..MaxChunk /\ MaxChunk \in Nat
  /\ Leaf \subseteq AllRanges /\ Leaf \subseteq Int /\ From(Chunks(Size)) \subseteq AllRanges
  /\ Leaf \cap From(Chunks(Size)) = {}
  /\ Chunks(Size) - 1 \in Leaf
<1>1. ChunkSize \in Nat /\ ChunkSize >= 1 /\ MaxChunk \in Nat
  BY ChunkAssumption, SMT
<1>2. Size \in Nat /\ Size # 0 /\ Chunks(Size) <= MaxChunk
  BY SizeAssumption DEF BlobSize
<1>3. (0 + ChunkSize - 1) \div ChunkSize = 0
  BY <1>1, SMT
<1>4. Chunks(0) = 0
  BY <1>3 DEF Chunks
<1>5. (Size + ChunkSize - 1) \div ChunkSize \in Nat
  BY <1>1, <1>2, SMT
<1>6. (Size + ChunkSize - 1) \div ChunkSize >= 1
  BY <1>1, <1>2, SMT
<1>7. Chunks(Size) \in 1..MaxChunk
  BY <1>1, <1>2, <1>5, <1>6, SMT DEF Chunks
<1>8. 0 \in BlobSize
  BY <1>1, <1>4, SMT DEF BlobSize
<1>9. PICK n \in 1..MaxChunk : n = Chunks(Size)
  BY <1>7
<1>10. /\ 0 .. n - 1 \subseteq 0..MaxChunk /\ 0 .. n - 1 \subseteq Int
       /\ n..MaxChunk \subseteq 0..MaxChunk /\ (0 .. n - 1) \cap n..MaxChunk = {}
       /\ n - 1 \in 0 .. n - 1
  BY <1>1, <1>9, SMT
<1> QED
  BY <1>1, <1>4, <1>7, <1>8, <1>9, <1>10 DEF Leaf, AllRanges, ChunkNum, From

\* The storages a handle starts with, and the one of a complete blob.
LEMMA StorageFacts ==
  /\ NewPartial \in Storage /\ ~NewPartial.complete
  /\ \A h : CompleteStorage(h) \in Storage /\ CompleteStorage(h).complete
  /\ \A h : Backed(h, NewPartial) /\ Backed(h, CompleteStorage(h))
  /\ \A h : IsComplete(CompleteStorage(h).bits)
<1>1. EmptyBitfield \in BitfieldType
  BY LeafFacts DEF EmptyBitfield, BitfieldType, ChunkRanges
<1>2. NewPartial \in Storage /\ ~NewPartial.complete
  BY <1>1 DEF NewPartial, Storage
<1>3. ASSUME NEW h
      PROVE  /\ CompleteStorage(h) \in Storage /\ CompleteStorage(h).complete
             /\ IsComplete(CompleteStorage(h).bits)
  <2>1. SizeOf(h) \in BlobSize
    BY LeafFacts, SizeAssumption DEF SizeOf
  <2>2. CompleteBitfield(SizeOf(h)) \in BitfieldType
    BY <2>1 DEF CompleteBitfield, BitfieldType, ChunkRanges, AllRanges
  <2>3. CompleteStorage(h) \in Storage /\ CompleteStorage(h).complete
    BY <2>2 DEF CompleteStorage, Storage
  <2>4. IsComplete(CompleteBitfield(SizeOf(h)))
    BY LeafFacts, SizeAssumption DEF SizeOf, IsComplete, CompleteBitfield, Leaf
  <2> QED
    BY <2>3, <2>4 DEF CompleteStorage
<1>4. ASSUME NEW h
      PROVE  Backed(h, NewPartial) /\ Backed(h, CompleteStorage(h))
  <2>1. Backed(h, NewPartial)
    BY DEF Backed, NewPartial, EmptyBitfield
  <2>2. \A c \in Leaf : PathTo[c] \subseteq Node
    BY DEF Node
  <2>3. Backed(h, CompleteStorage(h))
    <3>1. h # EMPTY => /\ CompleteStorage(h).bits.size = Size
                       /\ CompleteStorage(h).data = Leaf /\ CompleteStorage(h).outboard = Node
      BY DEF CompleteStorage, CompleteBitfield, SizeOf
    <3> QED
      BY <1>3, <2>2, <3>1 DEF Backed
  <2> QED
    BY <2>1, <2>3
<1> QED
  BY <1>2, <1>3, <1>4

\* What a bitfield claims of its blob is in the storage, for the empty blob too.
LEMMA PresentInData ==
  ASSUME NEW h, NEW s \in Storage, Backed(h, s)
  PROVE  Present(s.bits) \subseteq s.data
<1>1. 0 .. Chunks(0) - 1 = {}
  BY LeafFacts, SMT
<1>2. CASE h = EMPTY
  <2>1. s = CompleteStorage(h) \/ s = NewPartial
    BY <1>2 DEF Backed
  <2>2. NewPartial.bits.size = 0 /\ CompleteStorage(h).bits.size = 0
    BY <1>2, SMT DEF CompleteStorage, NewPartial, CompleteBitfield, EmptyBitfield, SizeOf
  <2> QED
    BY <1>1, <2>1, <2>2 DEF Present
<1>3. CASE h # EMPTY
  <2>1. CASE s.bits = EmptyBitfield
    BY <2>1, SMT DEF Present, EmptyBitfield
  <2>2. CASE s.bits.size = Size
    BY <1>3, <2>2 DEF Present, Backed, Leaf
  <2> QED
    BY <1>3, <2>1, <2>2 DEF Backed
<1> QED
  BY <1>2, <1>3

\* The bitfield of a partial blob after a leaf: it claims that leaf, and what it
\* claimed before.
LEMMA LeafUpdate ==
  ASSUME NEW b \in BitfieldType, b = EmptyBitfield \/ b.size = Size, NEW c \in Leaf,
         NEW new, new = Update(b, NewBitfield({c}, Size)).value
  PROVE  /\ new \in BitfieldType /\ new.size = Size
         /\ new.ranges \cap Leaf = (b.ranges \cap Leaf) \cup {c}
<1>0. Size \in BlobSize /\ Size # 0
  BY SizeAssumption
<1>1. ASSUME NEW r \in SUBSET AllRanges
      PROVE  /\ NewBitfield(r, Size) \in BitfieldType /\ NewBitfield(r, Size).size = Size
             /\ NewBitfield(r, Size).ranges \cap Leaf = r \cap Leaf
             /\ NewBitfield(r, Size).ranges \subseteq AllRanges
  <2>1. NewBitfield(r, Size) =
          [ranges |-> IF Leaf \subseteq r THEN AllRanges
                      ELSE IF Chunks(Size) - 1 \in r THEN r \cup From(Chunks(Size)) ELSE r,
           size   |-> Size]
    BY <1>0 DEF NewBitfield, Leaf
  <2>2. PICK q : q = IF Leaf \subseteq r THEN AllRanges
                      ELSE IF Chunks(Size) - 1 \in r THEN r \cup From(Chunks(Size)) ELSE r
    OBVIOUS
  <2>3. q \cap Leaf = r \cap Leaf /\ q \subseteq AllRanges
    BY <1>1, <2>2, LeafFacts
  <2> QED
    BY <1>0, <2>1, <2>2, <2>3, SMT DEF BitfieldType, ChunkRanges, AllRanges
<1>2. PICK u : u = NewBitfield({c}, Size)
  OBVIOUS
<1>3. {c} \in SUBSET AllRanges
  BY LeafFacts
<1>4. /\ u \in BitfieldType /\ u.size = Size /\ u.ranges \cap Leaf = {c}
      /\ u.ranges \subseteq AllRanges
  BY <1>1, <1>2, <1>3, ZenonT(60)
<1>5. ChooseSize(b, u) = Size
  <2>1. CASE b = EmptyBitfield
    <3>1. EndsBefore({}, u.ranges)
      BY <1>4 DEF EndsBefore
    <3> QED
      BY <1>4, <2>1, <3>1 DEF ChooseSize, EmptyBitfield
  <2>2. CASE b.size = Size
    BY <1>4, <2>2 DEF ChooseSize, Larger
  <2> QED
    BY <2>1, <2>2
<1>6. new = NewBitfield(b.ranges \cup u.ranges, Size)
  BY <1>2, <1>5 DEF Update, Combine
<1>7. b.ranges \cup u.ranges \in SUBSET AllRanges
  BY <1>4 DEF BitfieldType, ChunkRanges, AllRanges
<1>8. (b.ranges \cup u.ranges) \cap Leaf = (b.ranges \cap Leaf) \cup {c}
  BY <1>4
<1> QED
  BY <1>1, <1>6, <1>7, <1>8

\* A leaf whose pairs are in the outboard keeps a partial storage backed, and
\* completing it finds no gap.
LEMMA WriteLeafBacked ==
  ASSUME NEW h, h # EMPTY, NEW s \in Storage, Backed(h, s), NEW c \in Leaf,
         PathTo[c] \subseteq s.outboard
  PROVE  /\ WriteLeaf(s, c) \in Storage /\ Backed(h, WriteLeaf(s, c))
         /\ s.data \subseteq WriteLeaf(s, c).data
         /\ s.outboard \subseteq WriteLeaf(s, c).outboard
<1>1. PICK new : new = Update(s.bits, NewBitfield({c}, Size)).value
  OBVIOUS
<1>2. s.bits \in BitfieldType /\ (s.bits = EmptyBitfield \/ s.bits.size = Size)
  BY DEF Storage, Backed
<1>3. /\ new \in BitfieldType /\ new.size = Size
      /\ new.ranges \cap Leaf = (s.bits.ranges \cap Leaf) \cup {c}
  BY <1>1, <1>2, LeafUpdate
<1>4. s.data \subseteq Leaf /\ s.outboard \subseteq Node
  BY DEF Storage
<1>5. \A d \in new.ranges \cap Leaf : d \in s.data \cup {c} /\ PathTo[d] \subseteq s.outboard
  BY <1>3 DEF Backed
<1>6. new.ranges = AllRanges => s.data \cup {c} = Leaf /\ s.outboard = Node
  <2> SUFFICES ASSUME new.ranges = AllRanges
               PROVE  s.data \cup {c} = Leaf /\ s.outboard = Node
    OBVIOUS
  <2>1. new.ranges \cap Leaf = Leaf
    BY LeafFacts
  <2>2. Leaf \subseteq s.data \cup {c} /\ \A d \in Leaf : PathTo[d] \subseteq s.outboard
    BY <1>5, <2>1
  <2> QED
    BY <1>4, <2>2 DEF Node
<1>7. PICK v \in BOOLEAN :
        /\ v <=> new.ranges = AllRanges
        /\ WriteLeaf(s, c) = [complete |-> v, bits |-> new, data |-> s.data \cup {c},
                              outboard |-> s.outboard]
  <2>1. CASE new.ranges = AllRanges
    BY <1>1, <1>6, <2>1 DEF WriteLeaf
  <2>2. CASE new.ranges # AllRanges
    BY <1>1, <2>2 DEF WriteLeaf
  <2> QED
    BY <2>1, <2>2
<1>8. PICK w : w = WriteLeaf(s, c)
  OBVIOUS
<1>9. /\ w.complete <=> new.ranges = AllRanges
      /\ w.bits = new
      /\ w.data = s.data \cup {c} /\ w.outboard = s.outboard
  <2>1. w = [complete |-> v, bits |-> new, data |-> s.data \cup {c}, outboard |-> s.outboard]
    BY <1>7, <1>8
  <2>2. /\ w.complete = v /\ w.bits = new
        /\ w.data = s.data \cup {c} /\ w.outboard = s.outboard
    BY <2>1
  <2> QED
    BY <1>7, <2>2
<1>10. w \in Storage
  <2>1. s.data \cup {c} \in SUBSET Leaf /\ s.outboard \in SUBSET Node
    BY <1>4
  <2>2. w = [complete |-> v, bits |-> new, data |-> s.data \cup {c}, outboard |-> s.outboard]
    BY <1>7, <1>8
  <2> QED
    BY <1>3, <2>1, <2>2, SMT DEF Storage
<1>11. w.complete => w = CompleteStorage(h)
  <2>1. new = [ranges |-> new.ranges, size |-> new.size]
    BY <1>3 DEF BitfieldType
  <2> QED
    BY <1>3, <1>6, <1>7, <1>8, <1>9, <2>1 DEF CompleteStorage, CompleteBitfield, SizeOf
<1>12. Backed(h, w)
  BY <1>3, <1>5, <1>9, <1>11 DEF Backed
<1> QED
  BY <1>8, <1>9, <1>10, <1>12

-----------------------------------------------------------------------------
(* Tasks *)

\* The kind of a task says which fields it has.
LEMMA TaskShapes ==
  ASSUME NEW r \in TaskType
  PROVE  /\ r.kind = "none" <=> r = NoTask
         /\ r.kind = "bao" => r \in BaoTask
         /\ r.kind \in {"import", "imported"} => r \in ImportTask
         /\ r.kind = "ranges" => r \in RangesTask
         /\ r.kind \in {"export", "path"} => r \in ExportTask
         /\ r.kind \in {"batch", "closed"} => r \in BatchTaskType
         /\ r.kind = "sending" => r \in SendingTask
<1>1. /\ r \in BaoTask => r.kind = "bao"
      /\ r \in ImportTask => r.kind \in {"import", "imported"}
      /\ r \in RangesTask => r.kind = "ranges"
      /\ r \in ExportTask => r.kind \in {"export", "path"}
      /\ r \in BatchTaskType => r.kind \in {"batch", "closed"}
      /\ r \in SendingTask => r.kind \in {"pending", "sending"}
      /\ r \in OtherTask => r.kind \in {"list", "done", "panicked", "observe"}
      /\ r = NoTask => r.kind = "none"
  BY SMT DEF BaoTask, ImportTask, RangesTask, ExportTask, BatchTaskType, SendingTask,
         OtherTask, NoTask
<1> QED
  BY <1>1, SMT DEF TaskType

\* H[x] has all that G[x] has, for every handle x.
Bigger(H, G) ==
  \A x \in Handle : H[x].data \subseteq G[x].data /\ H[x].outboard \subseteq G[x].outboard

\* No batch of B is gone from C.
Passed(B, C) == \A b \in Batch : B[b] # "none" => C[b] # "none"

\* What a task relies on stays when storages grow.
LEMMA TaskKept ==
  ASSUME NEW r \in TaskType, NEW H, NEW G, NEW B, NEW C,
         TaskOK(r, H, B), Bigger(H, G), Passed(B, C)
  PROVE  TaskOK(r, G, C)
<1>1. r.kind = "bao" => r.obj[1] # EMPTY /\ r.got \subseteq G[r.obj].outboard
  <2>1. r.kind = "bao" => r.obj \in Handle
    BY TaskShapes DEF BaoTask
  <2> QED
    BY <2>1 DEF TaskOK, Bigger
<1>2. r.kind = "ranges" => \A x \in r.from :
        r.reading \subseteq G[x].data /\ \A b \in r.bits : Present(b) \subseteq G[x].data
  <2>1. r.kind = "ranges" => \A x \in r.from : x \in Handle
    BY TaskShapes DEF RangesTask, Optional
  <2> QED
    BY <2>1 DEF TaskOK, Bigger
<1>3. r.kind \in {"import", "imported"} => (r.scope \in Batch => C[r.scope] # "none")
  BY DEF TaskOK, Passed
<1> QED
  BY <1>1, <1>2, <1>3 DEF TaskOK

\* One task changes while storages grow.
LEMMA TaskChanges ==
  ASSUME StoreTypes, TasksOK, NEW t \in Task, NEW r \in TaskType,
         tasks' = [tasks EXCEPT ![t] = r], TaskOK(r, handle', batch'),
         Bigger(handle, handle'), Passed(batch, batch')
  PROVE  TasksOK' /\ tasks' \in [Task -> TaskType]
<1>1. tasks \in [Task -> TaskType]
  BY DEF StoreTypes
<1>2. \A u \in Task : tasks'[u] = IF u = t THEN r ELSE tasks[u]
  BY <1>1
<1>3. \A u \in Task : TaskOK(tasks[u], handle', batch')
  BY <1>1, TaskKept DEF TasksOK
<1> QED
  BY <1>1, <1>2, <1>3 DEF TasksOK

\* No task changes while storages grow.
LEMMA TasksStay ==
  ASSUME StoreTypes, TasksOK, tasks' = tasks,
         Bigger(handle, handle'), Passed(batch, batch')
  PROVE  TasksOK' /\ tasks' \in [Task -> TaskType]
BY TaskKept DEF StoreTypes, TasksOK

\* A task that starts or goes on is one the waiting clients will be told by.
LEMMA TaskCounts ==
  ASSUME StoreTypes, NoPanic, NEW t \in Task, NEW r \in TaskType,
         r.kind # "none", r.kind = "panicked" => "panic" \in scenario,
         tasks' = [tasks EXCEPT ![t] = r], scenario' = scenario
  PROVE  NoPanic' /\ WaitersNotForgotten'
<1>1. \A u \in Task : tasks'[u] = IF u = t THEN r ELSE tasks[u]
  BY DEF StoreTypes
<1>2. NoPanic'
  BY <1>1 DEF NoPanic
<1>3. r # NoTask
  BY TaskShapes
<1>4. tasks'[t] # NoTask
  BY <1>1, <1>3
<1> QED
  BY <1>2, <1>4, SMT DEF WaitersNotForgotten, NoTasks

\* Nothing gets bigger or passes by staying as it is.
LEMMA Same ==
  /\ \A H : Bigger(H, H)
  /\ \A B : Passed(B, B)
BY DEF Bigger, Passed

\* Temp tags that are left alone keep their invariant.
LEMMA TTSame == TTInv /\ UNCHANGED ttVars => TTInv'
BY TTInvStep, SMT

\* A step of one task that leaves the blobs and the tags alone.
LEMMA QuietStep ==
  ASSUME MInv, NEW t \in Task, NEW r \in TaskType,
         r.kind # "none", r.kind = "panicked" => "panic" \in scenario,
         TaskOK(r, handle, batch),
         tasks' = [tasks EXCEPT ![t] = r],
         UNCHANGED <<scenario, blobVars, ttVars>>
  PROVE  MInv'
<1>1. /\ UNCHANGED <<scenario, data, handle, deleted>>
      /\ UNCHANGED ttVars /\ batch' = batch /\ tt' = tt
  BY DEF blobVars, ttVars
<1>2. StoreTypes /\ TasksOK /\ NoPanic /\ TTInv
  BY DEF MInv
<1>3. TaskOK(r, handle', batch') /\ Bigger(handle, handle') /\ Passed(batch, batch')
  BY <1>1, Same
<1>4. TasksOK' /\ tasks' \in [Task -> TaskType]
  BY <1>2, <1>3, TaskChanges
<1>5. StoreTypes'
  BY <1>1, <1>2, <1>4 DEF StoreTypes
<1>6. HandlesBacked' /\ ReadonlyWhole' /\ HeldWhole'
  BY <1>1 DEF MInv, HandlesBacked, ReadonlyWhole, HeldWhole, Readonly, whole
<1>7. NoPanic' /\ WaitersNotForgotten'
  BY <1>1, <1>2, TaskCounts
<1>8. TTInv'
  BY <1>1, <1>2, TTSame
<1> QED
  BY <1>4, <1>5, <1>6, <1>7, <1>8 DEF MInv

-----------------------------------------------------------------------------
(* Steps of tasks that only read *)

\* What a step of a task leaves alone, in the form of QuietStep.
LEMMA InTaskQuiet == InTask /\ UNCHANGED handle => UNCHANGED blobVars
BY DEF InTask, blobVars

\* A task may end at any time.
LEMMA FinishKeeps ==
  ASSUME MInv, NEW t \in Task, Finishes(t), UNCHANGED <<scenario, blobVars, ttVars>>
  PROVE  MInv'
<1>1. PICK r : r = [kind |-> "done"]
  OBVIOUS
<1>2. r.kind = "done" /\ r \in TaskType
  BY <1>1 DEF TaskType, OtherTask
<1>3. TaskOK(r, handle, batch)
  BY <1>2, SMT DEF TaskOK
<1>4. tasks' = [tasks EXCEPT ![t] = r]
  BY <1>1 DEF Finishes, Becomes
<1>5. r.kind # "none" /\ r.kind # "panicked"
  BY <1>2, SMT
<1> QED
  BY <1>2, <1>3, <1>4, <1>5, QuietStep

\* A handle's bitfield claims what is in its storage.
LEMMA HandlePresent ==
  ASSUME MInv, NEW x \in Handle
  PROVE  /\ handle[x] \in Storage /\ Backed(x[1], handle[x])
         /\ handle[x].bits \in BitfieldType /\ handle[x].data \subseteq Leaf
         /\ Present(handle[x].bits) \subseteq handle[x].data
<1>1. handle[x] \in Storage /\ Backed(x[1], handle[x])
  BY DEF MInv, StoreTypes, HandlesBacked
<1>2. handle[x].bits \in BitfieldType /\ handle[x].data \subseteq Leaf
  BY <1>1 DEF Storage
<1> QED
  BY <1>1, <1>2, PresentInData

\* An export of ranges goes on with a record r that says less than it may.
LEMMA RangesGoOn ==
  ASSUME MInv, NEW t \in Task, NEW r \in RangesTask,
         \A x \in r.from :
            r.reading \subseteq handle[x].data /\ \A b \in r.bits : Present(b) \subseteq handle[x].data,
         tasks' = [tasks EXCEPT ![t] = r],
         UNCHANGED <<scenario, blobVars, ttVars>>
  PROVE  MInv'
<1>1. r \in TaskType /\ r.kind = "ranges"
  BY DEF TaskType, RangesTask
<1>2. TaskOK(r, handle, batch)
  BY <1>1, SMT DEF TaskOK
<1>3. r.kind # "none" /\ r.kind # "panicked"
  BY <1>1, SMT
<1> QED
  BY <1>1, <1>2, <1>3, QuietStep

\* What is known of the task of an export of ranges.
LEMMA RangesFacts ==
  ASSUME MInv, NEW t \in Task, Kind(t, "ranges")
  PROVE  /\ tasks[t] \in RangesTask
         /\ tasks[t].from \in Optional(Handle)
         /\ tasks[t].bits \subseteq BitfieldType
         /\ tasks[t].rest \in Seq(SUBSET Int) /\ tasks[t].reading \subseteq Int
         /\ \A x \in tasks[t].from :
              /\ x \in Handle /\ tasks[t].reading \subseteq handle[x].data
              /\ \A b \in tasks[t].bits : Present(b) \subseteq handle[x].data
<1>1. tasks[t] \in RangesTask /\ TaskOK(tasks[t], handle, batch) /\ tasks[t].kind = "ranges"
  BY TaskShapes DEF MInv, StoreTypes, TasksOK, Kind
<1>2. \A x \in tasks[t].from : x \in Handle
  BY <1>1 DEF RangesTask, Optional
<1> QED
  BY <1>1, <1>2 DEF TaskOK, RangesTask

\* export_ranges reads the bitfield of its handle.
LEMMA StartRangesKeeps ==
  ASSUME MInv, NEW t \in Task, StartRanges(t), UNCHANGED scenario
  PROVE  MInv'
<1>1. UNCHANGED <<scenario, blobVars, ttVars>>
  BY InTaskQuiet DEF StartRanges
<1>2. CASE tasks[t].from = {}
  BY <1>1, <1>2, FinishKeeps DEF StartRanges
<1>3. CASE tasks[t].from # {}
  <2>1. PICK obj \in tasks[t].from :
           tasks' = [tasks EXCEPT ![t] = [tasks[t] EXCEPT !.bits = {handle[obj].bits}]]
    BY <1>3 DEF StartRanges, Becomes
  <2>2. tasks[t] \in RangesTask /\ tasks[t].from = {obj} /\ obj \in Handle
    BY RangesFacts DEF StartRanges, Optional
  <2>3. PICK r : r = [tasks[t] EXCEPT !.bits = {handle[obj].bits}]
    OBVIOUS
  <2>4. handle[obj].bits \in BitfieldType /\ Present(handle[obj].bits) \subseteq handle[obj].data
    BY <2>2, HandlePresent
  <2>5. /\ r \in RangesTask /\ r.from = {obj} /\ r.bits = {handle[obj].bits}
        /\ r.reading = tasks[t].reading
    BY <2>2, <2>3, <2>4, SMT DEF RangesTask
  <2>6. tasks[t].reading \subseteq handle[obj].data
    BY RangesFacts DEF StartRanges
  <2> QED
    BY <1>1, <2>1, <2>3, <2>4, <2>5, <2>6, RangesGoOn
<1> QED
  BY <1>2, <1>3

\* export_ranges begins a range that the bitfield has.
LEMMA NextRangeKeeps ==
  ASSUME MInv, NEW t \in Task, NextRange(t), UNCHANGED scenario
  PROVE  MInv'
<1>1. UNCHANGED <<scenario, blobVars, ttVars>>
  BY InTaskQuiet DEF NextRange
<1>2. PICK b \in tasks[t].bits :
        \/ Finishes(t)
        \/ \E range : /\ range = Head(tasks[t].rest) \cap 0 .. Chunks(b.size) - 1
                      /\ range \subseteq b.ranges /\ tasks[t].rest # <<>>
                      /\ Becomes(t, [tasks[t] EXCEPT !.reading = range, !.rest = Tail(@)])
  BY DEF NextRange
<1>3. CASE Finishes(t)
  BY <1>1, <1>3, FinishKeeps
<1>4. ASSUME NEW range, range = Head(tasks[t].rest) \cap 0 .. Chunks(b.size) - 1,
             range \subseteq b.ranges, tasks[t].rest # <<>>,
             Becomes(t, [tasks[t] EXCEPT !.reading = range, !.rest = Tail(@)])
      PROVE  MInv'
  <2>1. PICK r : r = [tasks[t] EXCEPT !.reading = range, !.rest = Tail(@)]
    OBVIOUS
  <2>2. tasks[t] \in RangesTask /\ tasks[t].rest \in Seq(SUBSET Int)
    BY RangesFacts DEF NextRange
  <2>3. Tail(tasks[t].rest) \in Seq(SUBSET Int) /\ range \in SUBSET Int
    BY <1>4, <2>2, SMT
  <2>4. range \subseteq Present(b)
    BY <1>4 DEF Present
  <2>5. /\ r \in RangesTask /\ r.from = tasks[t].from /\ r.bits = tasks[t].bits
        /\ r.reading = range
    BY <2>1, <2>2, <2>3, ZenonT(60) DEF RangesTask
  <2>6. \A x \in tasks[t].from :
           range \subseteq handle[x].data /\ \A c \in tasks[t].bits : Present(c) \subseteq handle[x].data
    BY <2>4, RangesFacts DEF NextRange
  <2> QED
    BY <1>1, <1>4, <2>1, <2>5, <2>6, RangesGoOn DEF Becomes
<1> QED
  BY <1>2, <1>3, <1>4

\* export_ranges reads a chunk.
LEMMA ReadRangeKeeps ==
  ASSUME MInv, NEW t \in Task, ReadRange(t), UNCHANGED scenario
  PROVE  MInv'
<1>1. UNCHANGED <<scenario, blobVars, ttVars>>
  BY InTaskQuiet DEF ReadRange
<1>2. PICK left : left = tasks[t].reading \ {First(tasks[t].reading)}
  OBVIOUS
<1>3. PICK r : r = [tasks[t] EXCEPT !.reading = left]
  OBVIOUS
<1>4. tasks' = [tasks EXCEPT ![t] = r]
  BY <1>2, <1>3 DEF ReadRange, Becomes
<1>5. tasks[t] \in RangesTask /\ left \subseteq tasks[t].reading /\ left \in SUBSET Int
  BY <1>2, RangesFacts DEF ReadRange
<1>6. /\ r \in RangesTask /\ r.from = tasks[t].from /\ r.bits = tasks[t].bits
      /\ r.reading = left
  BY <1>3, <1>5, SMT DEF RangesTask
<1>7. \A x \in tasks[t].from :
         left \subseteq handle[x].data /\ \A c \in tasks[t].bits : Present(c) \subseteq handle[x].data
  BY <1>5, RangesFacts DEF ReadRange
<1> QED
  BY <1>1, <1>4, <1>6, <1>7, RangesGoOn

\* A task that relies on nothing.
LEMMA PlainGoesOn ==
  ASSUME MInv, NEW t \in Task, NEW r \in TaskType,
         r.kind \in {"export", "path", "sending", "pending", "list", "batch", "closed"},
         tasks' = [tasks EXCEPT ![t] = r],
         UNCHANGED <<scenario, blobVars, ttVars>>
  PROVE  MInv'
<1>1. TaskOK(r, handle, batch)
  BY SMT DEF TaskOK
<1>2. r.kind # "none" /\ r.kind # "panicked"
  BY SMT
<1> QED
  BY <1>1, <1>2, QuietStep

\* The record of an export is one, also with another set to read.
LEMMA ExportFacts ==
  ASSUME MInv, NEW t \in Task, Kind(t, "export") \/ Kind(t, "path")
  PROVE  /\ tasks[t] \in ExportTask /\ tasks[t].reading \subseteq Int
         /\ \A x \in tasks[t].from : x \in Handle
         /\ \A R \in SUBSET Int, s \in BOOLEAN :
              LET r == [tasks[t] EXCEPT !.started = s, !.reading = R]
              IN  r \in TaskType /\ r.kind \in {"export", "path"}
<1>1. tasks[t] \in ExportTask
  BY TaskShapes, SMT DEF MInv, StoreTypes, Kind
<1>2. tasks[t].reading \subseteq Int /\ \A x \in tasks[t].from : x \in Handle
  BY <1>1 DEF ExportTask, Optional
<1>3. ASSUME NEW R \in SUBSET Int, NEW s \in BOOLEAN, NEW r,
             r = [tasks[t] EXCEPT !.started = s, !.reading = R]
      PROVE  r \in TaskType /\ r.kind \in {"export", "path"}
  <2>1. r \in ExportTask
    BY <1>1, <1>3 DEF ExportTask
  <2> QED
    BY <2>1 DEF TaskType, ExportTask
<1> QED
  BY <1>1, <1>2, <1>3

\* export_bao and export_path read the size.
LEMMA StartExportKeeps ==
  ASSUME MInv, NEW t \in Task, StartExport(t), UNCHANGED scenario
  PROVE  MInv'
<1>1. UNCHANGED <<scenario, blobVars, ttVars>>
  BY InTaskQuiet DEF StartExport
<1>2. CASE tasks[t].from = {}
  BY <1>1, <1>2, FinishKeeps DEF StartExport
<1>3. CASE tasks[t].from # {}
  <2>1. PICK obj \in tasks[t].from :
          Becomes(t, [tasks[t] EXCEPT !.started = TRUE,
                                      !.reading = 0 .. Chunks(handle[obj].bits.size) - 1])
    BY <1>3 DEF StartExport
  <2>2. PICK R : R = 0 .. Chunks(handle[obj].bits.size) - 1
    OBVIOUS
  <2>3. R \in SUBSET Int
    BY <2>2, SMT
  <2>4. PICK r : r = [tasks[t] EXCEPT !.started = TRUE, !.reading = R]
    OBVIOUS
  <2>5. r \in TaskType /\ r.kind \in {"export", "path"}
    BY <2>3, <2>4, ExportFacts DEF StartExport
  <2>6. tasks' = [tasks EXCEPT ![t] = r]
    BY <2>1, <2>2, <2>4 DEF Becomes
  <2> QED
    BY <1>1, <2>5, <2>6, PlainGoesOn, ZenonT(60)
<1> QED
  BY <1>2, <1>3

\* export_bao and export_path read a chunk, or end.
LEMMA ReadExportKeeps ==
  ASSUME MInv, NEW t \in Task, ReadExport(t), UNCHANGED scenario
  PROVE  MInv'
<1>1. UNCHANGED <<scenario, blobVars, ttVars>>
  BY InTaskQuiet DEF ReadExport
<1>2. PICK R : R = tasks[t].reading \ {First(tasks[t].reading)}
  OBVIOUS
<1>3. \/ Finishes(t)
      \/ Becomes(t, [tasks[t] EXCEPT !.reading = R])
  BY <1>2 DEF ReadExport
<1>4. CASE Finishes(t)
  BY <1>1, <1>4, FinishKeeps
<1>5. CASE Becomes(t, [tasks[t] EXCEPT !.reading = R])
  <2>1. tasks[t] \in ExportTask /\ R \in SUBSET Int
    BY <1>2, ExportFacts DEF ReadExport
  <2>2. PICK r : r = [tasks[t] EXCEPT !.reading = R]
    OBVIOUS
  <2>3. r \in ExportTask
    BY <2>1, <2>2 DEF ExportTask
  <2>4. r \in TaskType /\ r.kind \in {"export", "path"}
    BY <2>3 DEF TaskType, ExportTask
  <2>5. tasks' = [tasks EXCEPT ![t] = r]
    BY <1>5, <2>2 DEF Becomes
  <2> QED
    BY <1>1, <2>4, <2>5, PlainGoesOn, ZenonT(60)
<1> QED
  BY <1>3, <1>4, <1>5

\* What is known of the task of an import.
LEMMA ImportFacts ==
  ASSUME MInv, NEW t \in Task, Kind(t, "import") \/ Kind(t, "imported")
  PROVE  /\ tasks[t] \in ImportTask /\ tasks[t].scope \in Scope /\ tasks[t].value \in Value
         /\ tasks[t].scope \in Batch => batch[tasks[t].scope] # "none"
<1>1. tasks[t] \in ImportTask /\ TaskOK(tasks[t], handle, batch)
      /\ tasks[t].kind \in {"import", "imported"}
  BY TaskShapes DEF MInv, StoreTypes, TasksOK, Kind
<1> QED
  BY <1>1 DEF ImportTask, TaskOK

\* The content of an import has been read, or could not be.
LEMMA ImportReadsKeeps ==
  ASSUME MInv, NEW t \in Task, NEW ok \in BOOLEAN, ImportReads(t, ok), UNCHANGED scenario
  PROVE  MInv'
<1>1. UNCHANGED <<scenario, blobVars, ttVars>>
  BY InTaskQuiet DEF ImportReads
<1>2. CASE ~ok
  BY <1>1, <1>2, FinishKeeps DEF ImportReads, Finishes
<1>3. CASE ok
  <2>1. PICK r : r = [tasks[t] EXCEPT !.kind = "imported"]
    OBVIOUS
  <2>2. tasks' = [tasks EXCEPT ![t] = r]
    BY <1>3, <2>1 DEF ImportReads, Becomes
  <2>3. /\ tasks[t] \in ImportTask
        /\ tasks[t].scope \in Batch => batch[tasks[t].scope] # "none"
    BY ImportFacts DEF ImportReads
  <2>4. r \in ImportTask /\ r.kind = "imported" /\ r.scope = tasks[t].scope
    BY <2>1, <2>3 DEF ImportTask
  <2>5. r \in TaskType
    BY <2>4 DEF TaskType
  <2>6. TaskOK(r, handle, batch)
    BY <2>3, <2>4, SMT DEF TaskOK
  <2>7. r.kind # "none" /\ r.kind # "panicked"
    BY <2>4, SMT
  <2> QED
    BY <1>1, <2>2, <2>5, <2>6, <2>7, QuietStep
<1> QED
  BY <1>2, <1>3

\* A task panics.
LEMMA TaskPanicsKeeps ==
  ASSUME MInv, NEW t \in Task, TaskPanics(t), UNCHANGED scenario
  PROVE  MInv'
<1>1. UNCHANGED <<scenario, blobVars, ttVars>> /\ "panic" \in scenario
  BY InTaskQuiet DEF TaskPanics
<1>2. PICK r : r = [kind |-> "panicked"]
  OBVIOUS
<1>3. r.kind = "panicked" /\ r \in TaskType
  BY <1>2 DEF TaskType, OtherTask
<1>4. TaskOK(r, handle, batch) /\ r.kind # "none"
  BY <1>3, SMT DEF TaskOK
<1>5. tasks' = [tasks EXCEPT ![t] = r]
  BY <1>2 DEF TaskPanics, Becomes
<1> QED
  BY <1>1, <1>3, <1>4, <1>5, QuietStep

\* The read-only store sends what it has.
LEMMA ReadonlySendsKeeps ==
  ASSUME MInv, NEW t \in Task, ReadonlySends(t), UNCHANGED scenario
  PROVE  MInv'
<1>1. UNCHANGED <<scenario, blobVars, ttVars>>
  BY InTaskQuiet DEF ReadonlySends
<1>2. PICK R : R = tasks[t].left \ {First(tasks[t].left)}
  OBVIOUS
<1>3. Finishes(t) \/ Becomes(t, [tasks[t] EXCEPT !.left = R])
  BY <1>2 DEF ReadonlySends
<1>4. CASE Finishes(t)
  BY <1>1, <1>4, FinishKeeps
<1>5. CASE Becomes(t, [tasks[t] EXCEPT !.left = R])
  <2>1. tasks[t] \in SendingTask /\ tasks[t].kind = "sending"
    BY TaskShapes, ZenonT(60) DEF MInv, StoreTypes, ReadonlySends, Kind
  <2>2. R \in SUBSET Int
    BY <1>2, <2>1 DEF SendingTask
  <2>3. PICK r : r = [tasks[t] EXCEPT !.left = R]
    OBVIOUS
  <2>4. r \in SendingTask /\ r.kind = "sending"
    BY <2>1, <2>2, <2>3 DEF SendingTask
  <2>5. r \in TaskType
    BY <2>4 DEF TaskType
  <2>6. tasks' = [tasks EXCEPT ![t] = r]
    BY <1>5, <2>3 DEF Becomes
  <2> QED
    BY <1>1, <2>4, <2>5, <2>6, PlainGoesOn, ZenonT(60)
<1> QED
  BY <1>3, <1>4, <1>5

-----------------------------------------------------------------------------
(* Commands that start a task and leave the blobs alone *)

\* Get returns the current handle of a blob, if it has one.
LEMMA GetFacts ==
  ASSUME MInv, NEW h \in Hash
  PROVE  /\ Get(h) \in Optional(Handle)
         /\ \A x \in Get(h) : x \in Handle /\ x[1] = h /\ data[h] # 0 /\ x = <<h, data[h]>>
<1>1. data[h] \in 0..MaxHandle
  BY DEF MInv, StoreTypes
<1>2. data[h] # 0 => data[h] \in 1..MaxHandle
  BY <1>1, RequestAssumption, SMT
<1>3. data[h] # 0 => <<h, data[h]>> \in Handle
  BY <1>2 DEF Handle
<1>4. <<h, data[h]>>[1] = h
  OBVIOUS
<1>5. CASE data[h] = 0
  BY <1>5 DEF Get, Optional
<1>6. CASE data[h] # 0
  BY <1>3, <1>4, <1>6 DEF Get, Optional
<1> QED
  BY <1>5, <1>6

\* ExportRanges: a new task has read nothing.
LEMMA SpawnRangesKeeps ==
  ASSUME MInv, NEW t \in Task, NEW h \in Hash, NEW ranges \in Seq(SUBSET Int),
         SpawnRanges(t, h, ranges), UNCHANGED scenario
  PROVE  MInv'
<1>1. PICK r : r = [kind |-> "ranges", from |-> Get(h), bits |-> {}, rest |-> ranges,
                    reading |-> {}]
  OBVIOUS
<1>2. r \in RangesTask /\ r.reading = {} /\ r.bits = {}
  BY <1>1, GetFacts DEF RangesTask
<1>3. tasks' = [tasks EXCEPT ![t] = r]
  BY <1>1 DEF SpawnRanges, Spawn
<1>4. UNCHANGED <<scenario, blobVars, ttVars>>
  BY DEF SpawnRanges
<1> QED
  BY <1>2, <1>3, <1>4, RangesGoOn

\* ExportRanges of the read-only store: its blobs are complete.
LEMMA ReadonlyRangesKeeps ==
  ASSUME MInv, Readonly, NEW t \in Task, NEW h \in Hash, NEW ranges \in Seq(SUBSET Int),
         Spawn(t, ReadonlyRanges(h, ranges)), UNCHANGED <<scenario, blobVars, ttVars>>
  PROVE  MInv'
<1>1. PICK r : r = ReadonlyRanges(h, ranges)
  OBVIOUS
<1>2. PICK B : B = {CompleteBitfield(SizeOf(x[1])) : x \in Get(h)}
  OBVIOUS
<1>3. \A x \in Get(h) : /\ CompleteBitfield(SizeOf(x[1])) = handle[x].bits
                        /\ x \in Handle
  <2>1. TAKE x \in Get(h)
  <2>2. x \in Handle /\ x[1] = h /\ handle[x].complete
    BY GetFacts DEF MInv, ReadonlyWhole, whole
  <2>3. handle[x] = CompleteStorage(h)
    BY <2>2, HandlePresent DEF Backed
  <2> QED
    BY <2>2, <2>3, SMT DEF CompleteStorage
<1>4. Get(h) \in Optional(Handle)
  BY GetFacts
<1>5. B \in SUBSET BitfieldType
  BY <1>2, <1>3, HandlePresent
<1>6. \A x \in Get(h), b \in B : Present(b) \subseteq handle[x].data
  BY <1>2, <1>3, <1>4, HandlePresent DEF Optional
<1>7. r = [kind |-> "ranges", from |-> Get(h), rest |-> ranges, reading |-> {}, bits |-> B]
  BY <1>1, <1>2 DEF ReadonlyRanges
<1>8. r \in RangesTask /\ r.from = Get(h) /\ r.reading = {} /\ r.bits = B
  BY <1>4, <1>5, <1>7 DEF RangesTask
<1>9. tasks' = [tasks EXCEPT ![t] = r]
  BY <1>1 DEF Spawn
<1> QED
  BY <1>6, <1>8, <1>9, RangesGoOn

\* Commands whose task relies on nothing.
LEMMA PlainCommands ==
  ASSUME MInv, NEW t \in Task, UNCHANGED scenario,
         \/ \E h \in Hash, kind \in {"export", "path"} : Export(t, kind, h)
         \/ ListBlobs(t)
         \/ \E h \in Hash : ReadonlyObserve(t, h)
         \/ \E h \in Hash, name \in {"bao", "path"} : ReadonlyExport(t, name, h)
  PROVE  MInv'
<1>1. ASSUME NEW h \in Hash, NEW kind \in {"export", "path"}, Export(t, kind, h) PROVE MInv'
  <2>1. PICK r : r = [kind |-> kind, from |-> Get(h), started |-> FALSE, reading |-> {}]
    OBVIOUS
  <2>2. r \in ExportTask /\ r.kind = kind
    BY <2>1, GetFacts DEF ExportTask
  <2>3. r \in TaskType
    BY <2>2 DEF TaskType
  <2>4. tasks' = [tasks EXCEPT ![t] = r] /\ UNCHANGED <<scenario, blobVars, ttVars>>
    BY <1>1, <2>1 DEF Export, Spawn
  <2> QED
    BY <2>2, <2>3, <2>4, PlainGoesOn, ZenonT(60)
<1>2. CASE ListBlobs(t)
  <2>1. PICK r : r = [kind |-> "list"]
    OBVIOUS
  <2>2. r \in TaskType /\ r.kind = "list"
    BY <2>1 DEF TaskType, OtherTask
  <2>3. tasks' = [tasks EXCEPT ![t] = r] /\ UNCHANGED <<scenario, blobVars, ttVars>>
    BY <1>2, <2>1 DEF ListBlobs, Spawn
  <2> QED
    BY <2>2, <2>3, PlainGoesOn, ZenonT(60)
<1>3. ASSUME NEW kind \in {"pending", "sending"}, NEW left \in SUBSET Int, NEW name,
             ReadonlySpawn(name, t, [kind |-> kind, left |-> left])
      PROVE  MInv'
  <2>1. PICK r : r = [kind |-> kind, left |-> left]
    OBVIOUS
  <2>2. r \in SendingTask /\ r.kind = kind
    BY <2>1 DEF SendingTask
  <2>3. r \in TaskType
    BY <2>2 DEF TaskType
  <2>4. tasks' = [tasks EXCEPT ![t] = r] /\ UNCHANGED <<scenario, blobVars, ttVars>>
    BY <1>3, <2>1 DEF ReadonlySpawn, Spawn
  <2> QED
    BY <2>2, <2>3, <2>4, PlainGoesOn, ZenonT(60)
<1>4. ASSUME NEW h \in Hash, ReadonlyObserve(t, h) PROVE MInv'
  <2>1. PICK kind \in {"pending", "sending"} :
          ReadonlySpawn("observe", t, [kind |-> kind, left |-> {}])
    BY <1>4 DEF ReadonlyObserve
  <2> QED
    BY <1>3, <2>1
<1>5. ASSUME NEW h \in Hash, NEW name \in {"bao", "path"}, ReadonlyExport(t, name, h)
      PROVE  MInv'
  <2>1. PICK R : R = UNION {handle[x].data : x \in Get(h)}
    BY ZenonT(60)
  <2>2. \A x \in Get(h) : handle[x].data \subseteq Int
    BY GetFacts, HandlePresent, LeafFacts
  <2>3. R \in SUBSET Int
    BY <2>1, <2>2
  <2> QED
    BY <1>3, <1>5, <2>1, <2>3 DEF ReadonlyExport
<1> QED
  BY <1>1, <1>2, <1>4, <1>5

\* ImportBytes, ImportByteStream, ImportPath: the scope of an import exists.
LEMMA ImportKeeps ==
  ASSUME MInv, NEW t \in Task, NEW s \in Scope, NEW v \in Value, Import(t, s, v),
         UNCHANGED scenario
  PROVE  MInv'
<1>1. PICK r : r = [kind |-> "import", scope |-> s, value |-> v]
  OBVIOUS
<1>2. r \in ImportTask /\ r.kind = "import" /\ r.scope = s
  BY <1>1 DEF ImportTask
<1>3. r \in TaskType
  BY <1>2 DEF TaskType
<1>4. TaskOK(r, handle, batch) /\ r.kind # "none" /\ r.kind # "panicked"
  BY <1>2, SMT DEF TaskOK, Import
<1>5. tasks' = [tasks EXCEPT ![t] = r] /\ UNCHANGED <<scenario, blobVars, ttVars>>
  BY <1>1 DEF Import, Spawn
<1> QED
  BY <1>3, <1>4, <1>5, QuietStep

-----------------------------------------------------------------------------
(* Commands that change the map, the tags or who waits *)

\* Entries that are complete stay so, and imports that a client holds with them.
LEMMA HeldKept ==
  ASSUME HeldWhole, TTInv',
         \A slot \in Slot : tt'[slot] # NoTag /\ tt'[slot].imported =>
           tt'[slot] = tt[slot] \/ tt'[slot].value[1] \in whole',
         \A h \in Hash : h \notin deleted' =>
           (h \notin deleted /\ (h \in whole => h \in whole')) \/ h \in whole'
  PROVE  HeldWhole'
<1> SUFFICES ASSUME NEW slot \in Slot, tt'[slot] # NoTag, tt'[slot].imported,
                    tt'[slot].value[1] \notin deleted'
             PROVE  tt'[slot].value[1] \in whole'
  BY DEF HeldWhole
<1>1. tt'[slot] \in Tag
  BY DEF TTInv, TTTypes
<1>2. PICK h \in Hash : h = tt'[slot].value[1]
  BY <1>1 DEF Tag, HashAndFormat
<1>3. CASE tt'[slot] = tt[slot]
  <2>1. h \notin deleted => h \in whole
    BY <1>2, <1>3 DEF HeldWhole
  <2> QED
    BY <1>2, <2>1
<1> QED
  BY <1>2, <1>3

\* The blobs are left alone, and no import gets a new tag.
LEMMA TagsFrame ==
  ASSUME MInv, TTInv', UNCHANGED <<scenario, blobVars>>,
         \A slot \in Slot : tt'[slot] # NoTag /\ tt'[slot].imported => tt'[slot] = tt[slot]
  PROVE  HandlesBacked' /\ ReadonlyWhole' /\ HeldWhole'
<1>1. UNCHANGED <<scenario, data, handle, deleted>>
  BY DEF blobVars
<1>2. HandlesBacked' /\ ReadonlyWhole'
  BY <1>1 DEF MInv, HandlesBacked, ReadonlyWhole, Readonly, whole
<1>3. \A h \in Hash : h \in whole => h \in whole'
  BY <1>1 DEF whole
<1>4. HeldWhole
  BY DEF MInv
<1>5. HeldWhole'
  BY <1>1, <1>3, <1>4, HeldKept
<1> QED
  BY <1>2, <1>5

\* A step that concerns the temp tags and at most starts or moves one task.
LEMMA TagStep ==
  ASSUME MInv, TTInv', UNCHANGED <<scenario, blobVars>>, Passed(batch, batch'),
         \A slot \in Slot : tt'[slot] # NoTag /\ tt'[slot].imported => tt'[slot] = tt[slot],
         \/ tasks' = tasks /\ waiting' = waiting
         \/ \E t \in Task, r \in TaskType :
              /\ tasks' = [tasks EXCEPT ![t] = r]
              /\ r.kind \in {"batch", "closed"}
  PROVE  MInv'
<1>1. /\ scenario' = scenario /\ data' = data /\ handle' = handle
      /\ StoreTypes /\ TasksOK /\ NoPanic /\ WaitersNotForgotten
  BY DEF blobVars, MInv
<1>2. HandlesBacked' /\ ReadonlyWhole' /\ HeldWhole'
  BY TagsFrame
<1>3. Bigger(handle, handle')
  BY <1>1, Same
<1>4. CASE tasks' = tasks /\ waiting' = waiting
  <2>1. TasksOK' /\ tasks' \in [Task -> TaskType]
    BY <1>1, <1>3, <1>4, TasksStay
  <2>2. NoPanic' /\ WaitersNotForgotten'
    BY <1>1, <1>4, SMT DEF NoPanic, WaitersNotForgotten, NoTasks
  <2>3. StoreTypes'
    BY <1>1, <2>1 DEF StoreTypes
  <2> QED
    BY <1>2, <2>1, <2>2, <2>3 DEF MInv
<1>5. ASSUME NEW t \in Task, NEW r \in TaskType,
             tasks' = [tasks EXCEPT ![t] = r], r.kind \in {"batch", "closed"}
      PROVE  MInv'
  <2>1. TaskOK(r, handle', batch')
    BY <1>5, SMT DEF TaskOK
  <2>2. TasksOK' /\ tasks' \in [Task -> TaskType]
    BY <1>1, <1>3, <1>5, <2>1, TaskChanges
  <2>3. r.kind # "none" /\ r.kind # "panicked"
    BY <1>5, SMT
  <2>4. NoPanic' /\ WaitersNotForgotten'
    BY <1>1, <1>5, <2>3, TaskCounts
  <2>5. StoreTypes'
    BY <1>1, <2>2 DEF StoreTypes
  <2> QED
    BY <1>2, <2>2, <2>4, <2>5 DEF MInv
<1> QED
  BY <1>4, <1>5

\* A step that changes only tags, or nothing.
LEMMA TagsOnly ==
  ASSUME MInv, UNCHANGED <<scenario, blobVars, tasks, waiting, ttVars>>
  PROVE  MInv'
<1>1. TTInv' /\ batch' = batch /\ tt' = tt
  BY TTSame DEF MInv, ttVars
<1> QED
  BY <1>1, TagStep, Same

\* A client drops a tag.
LEMMA ReleaseStep ==
  ASSUME MInv, NEW slot \in Slot, tt[slot] # NoTag, Release(slot),
         UNCHANGED <<scopes, gens, batch>>, UNCHANGED <<scenario, blobVars, tasks, waiting>>
  PROVE  MInv'
<1>1. TTInv
  BY DEF MInv
<1>2. TTInv'
  BY <1>1, ReleaseKeeps
<1>3. \A s \in Slot : tt'[s] = IF s = slot THEN NoTag ELSE tt[s]
  BY <1>1 DEF Release, TTInv, TTTypes
<1>4. \A s \in Slot : tt'[s] # NoTag /\ tt'[s].imported => tt'[s] = tt[s]
  BY <1>3
<1> QED
  BY <1>2, <1>4, TagStep, Same

\* Tags, temp tags and batches.
LEMMA TagCommandKeeps == ASSUME MInv, TagCommand, UNCHANGED scenario PROVE MInv'
<1>0. TTInv
  BY DEF MInv
<1>1. ASSUME NEW from, NEW to, DeleteTags(from, to) \/ RenameTag(from, to) PROVE MInv'
  BY <1>1, TagsOnly DEF DeleteTags, RenameTag
<1>2. ASSUME NEW n, NEW v, SetTag(n, v) \/ CreateTag(n, v) PROVE MInv'
  BY <1>2, TagsOnly DEF SetTag, CreateTag
<1>3. ASSUME NEW slot \in Slot, NEW s \in Scope, NEW v \in HashAndFormat, NEW rpc \in BOOLEAN,
             TempTagCommand(slot, s, v, rpc)
      PROVE  MInv'
  <2>1. PICK owner \in Owner : Create(slot, s, v, owner, FALSE)
    BY <1>3, ZenonT(60) DEF TempTagCommand, CreateTempTag, Owner
  <2>2. TTInv'
    BY <1>0, <2>1, CreateKeeps
  <2>3. batch' = batch /\ \A u \in Slot : u # slot => tt'[u] = tt[u]
    BY <1>0, <2>1 DEF Create, TTInv, TTTypes
  <2>4. tt'[slot].imported = FALSE
    <3>1. tt'[slot] = TempTag(s, ObjectOf(s), v, owner, FALSE)
      BY <1>0, <2>1 DEF Create, TTInv, TTTypes
    <3> QED
      BY <3>1, SMT DEF TempTag
  <2>5. UNCHANGED <<scenario, blobVars>> /\ tasks' = tasks /\ waiting' = waiting
    BY <1>3 DEF TempTagCommand
  <2>6. \A u \in Slot : tt'[u] # NoTag /\ tt'[u].imported => tt'[u] = tt[u]
    BY <2>3, <2>4
  <2> QED
    BY <2>2, <2>3, <2>5, <2>6, TagStep, Same
<1>4. ASSUME NEW t \in Task, NEW b \in Batch, BatchCommand(t, b) PROVE MInv'
  <2>1. TTInv'
    BY <1>0, <1>4, CreateScopeKeeps, ZenonT(60) DEF BatchCommand
  <2>2. tt' = tt /\ Passed(batch, batch')
    BY <1>0, <1>4, SMTT(30) DEF BatchCommand, CreateScope, Passed, TTInv, TTTypes
  <2>3. PICK r : r = [kind |-> "batch", scope |-> b]
    OBVIOUS
  <2>4. r \in TaskType /\ r.kind = "batch"
    BY <2>3 DEF TaskType, BatchTaskType
  <2>5. tasks' = [tasks EXCEPT ![t] = r] /\ UNCHANGED <<scenario, blobVars>>
    BY <1>4, <2>3 DEF BatchCommand, Spawn
  <2>6. \A u \in Slot : tt'[u] # NoTag /\ tt'[u].imported => tt'[u] = tt[u]
    BY <2>2
  <2>7. \E u \in Task, q \in TaskType :
          tasks' = [tasks EXCEPT ![u] = q] /\ q.kind \in {"batch", "closed"}
    BY <2>4, <2>5
  <2> QED
    BY <2>1, <2>2, <2>5, <2>6, <2>7, TagStep
<1>5. ASSUME NEW slot \in Slot, UserDropsTag(slot) PROVE MInv'
  BY <1>5, ReleaseStep DEF UserDropsTag, UserDrops
<1> QED
  BY <1>1, <1>2, <1>3, <1>4, <1>5 DEF TagCommand

\* The task of a batch drops tags for its client, and closes it.
LEMMA BatchTaskKeeps ==
  ASSUME MInv, NEW t \in Task, BatchTask(t), UNCHANGED scenario
  PROVE  MInv'
<1>1. UNCHANGED <<scenario, blobVars>> /\ waiting' = waiting
  BY InTaskQuiet DEF BatchTask, InTask
<1>2. tasks[t] \in BatchTaskType /\ tasks[t].kind = "batch"
  BY TaskShapes DEF MInv, StoreTypes, BatchTask, Kind
<1>3. PICK b \in Batch : b = tasks[t].scope
  BY <1>2 DEF BatchTaskType
<1>4. ASSUME NEW slot \in Slot, BatchDrop(b, slot), tasks' = tasks PROVE MInv'
  BY <1>1, <1>4, ReleaseStep DEF BatchDrop
<1>5. ASSUME CloseBatch(b), Becomes(t, [tasks[t] EXCEPT !.kind = "closed"]) PROVE MInv'
  <2>1. TTInv
    BY ZenonT(60) DEF MInv
  <2>2. TTInv'
    BY <1>5, <2>1, TTInvStep DEF TTNext, ScopeStep
  <2>3. tt' = tt /\ Passed(batch, batch')
    BY <1>5, <2>1, SMT DEF CloseBatch, Passed, TTInv, TTTypes
  <2>4. PICK r : r = [tasks[t] EXCEPT !.kind = "closed"]
    OBVIOUS
  <2>5. r \in BatchTaskType /\ r.kind = "closed"
    BY <1>2, <2>4 DEF BatchTaskType
  <2>6. r \in TaskType
    BY <2>5 DEF TaskType
  <2>7. \E u \in Task, q \in TaskType :
          tasks' = [tasks EXCEPT ![u] = q] /\ q.kind \in {"batch", "closed"}
    BY <1>5, <2>4, <2>5, <2>6 DEF Becomes
  <2>8. \A u \in Slot : tt'[u] # NoTag /\ tt'[u].imported => tt'[u] = tt[u]
    BY <2>3, ZenonT(60)
  <2> QED
    BY <1>1, <2>2, <2>3, <2>7, <2>8, TagStep
<1> QED
  BY <1>3, <1>4, <1>5 DEF BatchTask

\* Actor::get_or_create_entry: the blob has an entry, and no other entry changes.
LEMMA EntryFacts ==
  ASSUME StoreTypes, NEW h \in Hash, CreateEntry(h)
  PROVE  /\ data' \in [Hash -> 0..MaxHandle]
         /\ GetOrCreate(h) \in Handle /\ GetOrCreate(h) = <<h, data'[h]>> /\ data'[h] # 0
         /\ \A g \in Hash : g # h \/ data[g] # 0 => data'[g] = data[g]
<1>1. data \in [Hash -> 0..MaxHandle] /\ MaxHandle \in Nat
  BY RequestAssumption, ZenonT(60) DEF StoreTypes
<1>2. PICK n : n = IF data[h] = 0 THEN made[h] + 1 ELSE data[h]
  OBVIOUS
<1>3. GetOrCreate(h) = <<h, n>> /\ GetOrCreate(h)[2] = n
  BY <1>2 DEF GetOrCreate
<1>4. n \in 1..MaxHandle
  BY <1>3 DEF CreateEntry, Handle
<1>5. n \in 0..MaxHandle /\ n # 0
  BY <1>1, <1>4, SMT
<1>6. data' = [data EXCEPT ![h] = n]
  BY <1>3 DEF CreateEntry
<1>7. data'[h] = n /\ \A g \in Hash : g # h => data'[g] = data[g]
  BY <1>1, <1>6
<1>8. data[h] # 0 => data'[h] = data[h]
  BY <1>2, <1>7
<1> QED
  BY <1>1, <1>3, <1>5, <1>6, <1>7, <1>8, ZenonT(60) DEF CreateEntry

\* Complete blobs stay complete when entries are only added and completed.
LEMMA WholeStays ==
  ASSUME StoreTypes, \A g \in Hash : data[g] # 0 => data'[g] = data[g],
         \A x \in Handle : handle[x].complete => handle'[x].complete
  PROVE  whole \subseteq whole'
<1> SUFFICES ASSUME NEW h \in whole PROVE h \in whole'
  OBVIOUS
<1>1. h \in Hash /\ data[h] # 0 /\ handle[<<h, data[h]>>].complete
  BY DEF whole
<1>2. data[h] \in 1..MaxHandle
  BY <1>1, RequestAssumption, SMT DEF StoreTypes
<1>3. <<h, data[h]>> \in Handle
  BY <1>1, <1>2 DEF Handle
<1> QED
  BY <1>1, <1>3 DEF whole

\* ImportBao and Observe make an entry, in a store that is not read-only.
LEMMA SpawnOnEntry ==
  ASSUME MInv, ~Readonly, NEW t \in Task, NEW h \in Hash, CreateEntry(h),
         NEW r \in TaskType, r.kind \in {"bao", "observe"}, TaskOK(r, handle, batch),
         tasks' = [tasks EXCEPT ![t] = r],
         UNCHANGED <<scenario, handle, deleted, ttVars>>
  PROVE  MInv'
<1>1. /\ StoreTypes /\ TasksOK /\ NoPanic /\ TTInv /\ HeldWhole
      /\ batch' = batch /\ tt' = tt
  BY ZenonT(60) DEF MInv, ttVars
<1>2. Bigger(handle, handle') /\ Passed(batch, batch') /\ TaskOK(r, handle', batch')
  BY <1>1, Same
<1>3. TasksOK' /\ tasks' \in [Task -> TaskType]
  BY <1>1, <1>2, TaskChanges
<1>4. data' \in [Hash -> 0..MaxHandle] /\ \A g \in Hash : data[g] # 0 => data'[g] = data[g]
  BY <1>1, EntryFacts
<1>5. StoreTypes'
  BY <1>1, <1>3, <1>4 DEF StoreTypes
<1>6. r.kind # "none" /\ r.kind # "panicked"
  BY SMT
<1>7. NoPanic' /\ WaitersNotForgotten'
  BY <1>1, <1>6, TaskCounts
<1>8. HandlesBacked' /\ ReadonlyWhole'
  BY ZenonT(60) DEF MInv, HandlesBacked, ReadonlyWhole, Readonly
<1>9. TTInv'
  BY <1>1, TTSame
<1>10. whole \subseteq whole'
  BY <1>1, <1>4, WholeStays
<1>11. HeldWhole'
  BY <1>1, <1>9, <1>10, HeldKept
<1> QED
  BY <1>3, <1>5, <1>7, <1>8, <1>9, <1>11 DEF MInv

\* Command::ImportBao and Command::Observe
LEMMA EntryCommands ==
  ASSUME MInv, NEW t \in Task, NEW h \in Hash, ImportBao(t, h) \/ Observe(t, h),
         UNCHANGED scenario
  PROVE  MInv'
<1>0. StoreTypes /\ CreateEntry(h)
  BY DEF MInv, ImportBao, Observe
<1>1. PICK x \in Handle : x = GetOrCreate(h) /\ x[1] = h
  BY <1>0, EntryFacts, SMT
<1>2. ~Readonly
  BY <1>0, ReadonlyAssumption DEF ImportBao, Observe, Command, StoreTypes, Readonly
<1>3. CASE ImportBao(t, h)
  <2>1. PICK r : r = [kind |-> "bao", obj |-> x, got |-> {}]
    BY ZenonT(60)
  <2>2. r \in BaoTask /\ r.kind = "bao" /\ r.obj = x /\ r.got = {}
    BY <2>1 DEF BaoTask
  <2>3. r \in TaskType
    BY <2>2 DEF TaskType
  <2>4. TaskOK(r, handle, batch)
    BY <1>1, <1>3, <2>2, SMTT(30) DEF TaskOK, ImportBao
  <2>5. /\ tasks' = [tasks EXCEPT ![t] = r]
        /\ UNCHANGED <<scenario, handle, deleted, ttVars>>
    BY <1>1, <1>3, <2>1 DEF ImportBao, Spawn
  <2> QED
    BY <1>0, <1>2, <2>2, <2>3, <2>4, <2>5, SpawnOnEntry
<1>4. CASE Observe(t, h)
  <2>1. PICK r : r = [kind |-> "observe", obj |-> x]
    BY ZenonT(60)
  <2>2. r \in OtherTask /\ r.kind = "observe"
    BY <2>1 DEF OtherTask
  <2>3. r \in TaskType
    BY <2>2 DEF TaskType
  <2>4. TaskOK(r, handle, batch)
    BY <2>2, SMT DEF TaskOK
  <2>5. /\ tasks' = [tasks EXCEPT ![t] = r]
        /\ UNCHANGED <<scenario, handle, deleted, ttVars>>
    BY <1>1, <1>4, <2>1 DEF Observe, Spawn
  <2> QED
    BY <1>0, <1>2, <2>2, <2>3, <2>4, <2>5, SpawnOnEntry
<1> QED
  BY <1>3, <1>4, ZenonT(60)

\* Command::DeleteBlobs: the entries are gone, and the hashes count as deleted.
LEMMA DeleteKeeps ==
  ASSUME MInv, NEW H, DeleteBlobs(H), UNCHANGED scenario
  PROVE  MInv'
<1>1. /\ StoreTypes /\ TasksOK /\ NoPanic /\ TTInv /\ HeldWhole /\ WaitersNotForgotten
      /\ batch' = batch /\ tt' = tt /\ handle' = handle /\ tasks' = tasks /\ waiting' = waiting
      /\ UNCHANGED ttVars
      /\ data' = [h \in Hash |-> IF h \in H \ {EMPTY} THEN 0 ELSE data[h]]
      /\ deleted' = deleted \cup (H \ {EMPTY})
  BY ZenonT(60) DEF MInv, ttVars, DeleteBlobs
<1>2. Bigger(handle, handle') /\ Passed(batch, batch')
  BY <1>1, Same
<1>3. TasksOK' /\ tasks' \in [Task -> TaskType]
  BY <1>1, <1>2, TasksStay
<1>4. data' \in [Hash -> 0..MaxHandle]
  <2>1. 0 \in 0..MaxHandle
    BY RequestAssumption, SMT
  <2> QED
    BY <1>1, <2>1 DEF StoreTypes
<1>5. StoreTypes'
  BY <1>1, <1>3, <1>4 DEF StoreTypes
<1>6. NoPanic' /\ WaitersNotForgotten'
  BY <1>1, SMTT(30) DEF NoPanic, WaitersNotForgotten, NoTasks
<1>7. \A h \in Hash : data'[h] # 0 => data'[h] = data[h]
  BY <1>1
<1>8. HandlesBacked' /\ ReadonlyWhole'
  BY <1>1, <1>7 DEF MInv, HandlesBacked, ReadonlyWhole, Readonly, whole
<1>9. TTInv'
  BY <1>1, TTSame
<1>10. \A h \in Hash : h \notin deleted' => h \notin deleted /\ (h \in whole => h \in whole')
  <2>1. TAKE h \in Hash
  <2>2. h \notin deleted' => h \notin deleted /\ data'[h] = data[h]
    BY <1>1
  <2> QED
    BY <1>1, <2>2 DEF whole
<1>11. HeldWhole'
  BY <1>1, <1>9, <1>10, HeldKept
<1> QED
  BY <1>3, <1>5, <1>6, <1>8, <1>9, <1>11 DEF MInv

\* Command::WaitIdle and Command::Shutdown
LEMMA IdleCommands ==
  ASSUME MInv, (\E c \in Client : WaitIdle(c)) \/ Shutdown, UNCHANGED scenario
  PROVE  MInv'
<1>1. /\ StoreTypes /\ TasksOK /\ NoPanic /\ WaitersNotForgotten /\ TTInv
      /\ UNCHANGED <<scenario, blobVars>> /\ UNCHANGED ttVars /\ data' = data /\ handle' = handle
      /\ batch' = batch /\ tt' = tt
  BY DEF MInv, WaitIdle, Shutdown, blobVars, ttVars
<1>2. TTInv'
  BY <1>1, TTSame
<1>3. HandlesBacked' /\ ReadonlyWhole' /\ HeldWhole'
  BY <1>1, <1>2, TagsFrame
<1>4. ASSUME NEW c \in Client, WaitIdle(c) PROVE MInv'
  <2>1. Bigger(handle, handle') /\ Passed(batch, batch') /\ tasks' = tasks
    BY <1>1, <1>4, Same, ZenonT(60) DEF WaitIdle
  <2>2. TasksOK' /\ tasks' \in [Task -> TaskType]
    BY <1>1, <2>1, TasksStay
  <2>3. NoPanic'
    BY <1>1, <2>1 DEF NoPanic
  <2>4. WaitersNotForgotten'
    BY <1>1, <1>4, <2>1, SMT DEF WaitersNotForgotten, NoTasks, WaitIdle
  <2>5. StoreTypes'
    BY <1>1, <2>2 DEF StoreTypes
  <2> QED
    BY <1>2, <1>3, <2>2, <2>3, <2>4, <2>5 DEF MInv
<1>5. CASE Shutdown
  <2>1. NoTask \in TaskType /\ NoTask.kind = "none"
    BY ZenonT(60) DEF TaskType, NoTask
  <2>2. TaskOK(NoTask, handle', batch') /\ NoTask.kind # "panicked"
    BY <2>1, SMT DEF TaskOK
  <2>3. tasks' \in [Task -> TaskType] /\ \A t \in Task : tasks'[t] = NoTask
    BY <1>5, <2>1 DEF Shutdown
  <2>4. TasksOK' /\ NoPanic'
    BY <2>2, <2>3 DEF TasksOK, NoPanic
  <2>5. WaitersNotForgotten'
    BY <1>5 DEF WaitersNotForgotten, Shutdown
  <2>6. StoreTypes'
    BY <1>1, <2>3 DEF StoreTypes
  <2> QED
    BY <1>2, <1>3, <2>4, <2>5, <2>6 DEF MInv
<1> QED
  BY <1>4, <1>5

\* Every command that is about blobs.
LEMMA BlobCommandKeeps == ASSUME MInv, BlobCommand, UNCHANGED scenario PROVE MInv'
<1>1. ASSUME NEW t \in Task, NEW h \in Hash, NEW r \in Requests, ExportRanges(t, h, r)
      PROVE  MInv'
  BY <1>1, SpawnRangesKeeps, RequestAssumption, ZenonT(60) DEF ExportRanges
<1> QED
  BY <1>1, EntryCommands, ImportKeeps, PlainCommands, DeleteKeeps, IdleCommands
  DEF BlobCommand

-----------------------------------------------------------------------------
(* Writing and completing *)

\* The storage of one handle is replaced by one that has as much.
LEMMA HandleGrows ==
  ASSUME MInv, NEW x \in Handle, NEW s \in Storage, Backed(x[1], s),
         handle[x].data \subseteq s.data, handle[x].outboard \subseteq s.outboard,
         handle[x].complete => s.complete,
         handle' = [handle EXCEPT ![x] = s]
  PROVE  /\ handle' \in [Handle -> Storage] /\ handle'[x] = s
         /\ HandlesBacked' /\ Bigger(handle, handle')
         /\ \A y \in Handle : handle[y].complete => handle'[y].complete
<1>1. handle \in [Handle -> Storage] /\ HandlesBacked
  BY DEF MInv, StoreTypes
<1>2. handle' \in [Handle -> Storage] /\ \A y \in Handle : handle'[y] = IF y = x THEN s ELSE handle[y]
  BY <1>1
<1>3. HandlesBacked'
  BY <1>1, <1>2 DEF HandlesBacked
<1>4. Bigger(handle, handle')
  BY <1>2 DEF Bigger
<1> QED
  BY <1>2, <1>3, <1>4

\* import_bao writes to its handle, and to nothing else.
LEMMA WriteStep ==
  ASSUME MInv, NEW t \in Task, NEW r \in BaoTask, r.obj[1] # EMPTY,
         NEW s \in Storage, Backed(r.obj[1], s),
         handle[r.obj].data \subseteq s.data, handle[r.obj].outboard \subseteq s.outboard,
         handle[r.obj].complete => s.complete,
         r.got \subseteq s.outboard,
         handle' = [handle EXCEPT ![r.obj] = s],
         tasks' = [tasks EXCEPT ![t] = r],
         InTask, UNCHANGED <<scenario, ttVars>>
  PROVE  MInv'
<1>1. /\ StoreTypes /\ TasksOK /\ NoPanic /\ TTInv /\ HeldWhole /\ ReadonlyWhole
      /\ data' = data /\ deleted' = deleted /\ batch' = batch /\ tt' = tt
  BY ZenonT(60) DEF MInv, InTask, ttVars
<1>2. PICK x \in Handle : x = r.obj
  BY DEF BaoTask
<1>3. /\ handle' \in [Handle -> Storage] /\ handle'[x] = s
      /\ HandlesBacked' /\ Bigger(handle, handle')
      /\ \A y \in Handle : handle[y].complete => handle'[y].complete
  BY <1>2, HandleGrows
<1>4. r \in TaskType /\ r.kind = "bao"
  BY DEF TaskType, BaoTask
<1>5. TaskOK(r, handle', batch')
  BY <1>2, <1>3, <1>4, SMT DEF TaskOK
<1>6. Passed(batch, batch')
  BY <1>1, Same
<1>7. TasksOK' /\ tasks' \in [Task -> TaskType]
  BY <1>1, <1>3, <1>4, <1>5, <1>6, TaskChanges
<1>8. StoreTypes'
  BY <1>1, <1>3, <1>7, ZenonT(60) DEF StoreTypes
<1>9. r.kind # "none" /\ r.kind # "panicked"
  BY <1>4, SMTT(30)
<1>10. NoPanic' /\ WaitersNotForgotten'
  BY <1>1, <1>4, <1>9, TaskCounts
<1>11. TTInv'
  BY <1>1, TTSame
<1>12. whole \subseteq whole'
  BY <1>1, <1>3, WholeStays
<1>13. HeldWhole'
  BY <1>1, <1>11, <1>12, HeldKept
<1>14. ReadonlyWhole'
  BY <1>1, <1>12, ZenonT(60) DEF ReadonlyWhole, Readonly
<1> QED
  BY <1>3, <1>7, <1>8, <1>10, <1>11, <1>13, <1>14 DEF MInv

\* What is known of the task of import_bao.
LEMMA BaoFacts ==
  ASSUME MInv, NEW t \in Task, Kind(t, "bao")
  PROVE  /\ tasks[t] \in BaoTask /\ tasks[t].obj \in Handle /\ tasks[t].obj[1] # EMPTY
         /\ tasks[t].got \subseteq handle[tasks[t].obj].outboard
         /\ tasks = [tasks EXCEPT ![t] = tasks[t]]
<1>1. tasks[t] \in BaoTask /\ TaskOK(tasks[t], handle, batch) /\ tasks[t].kind = "bao"
  BY TaskShapes DEF MInv, StoreTypes, TasksOK, Kind
<1>2. tasks = [tasks EXCEPT ![t] = tasks[t]]
  BY DEF MInv, StoreTypes
<1> QED
  BY <1>1, <1>2 DEF TaskOK, BaoTask

\* import_bao writes a pair of hashes.  A complete storage has all of them.
LEMMA ImportParentKeeps ==
  ASSUME MInv, NEW t \in Task, NEW n \in Node, ImportParent(t, n), UNCHANGED scenario
  PROVE  MInv'
<1>1. PICK x \in Handle : x = tasks[t].obj
  BY BaoFacts, ZenonT(60) DEF ImportParent
<1>2. /\ tasks[t] \in BaoTask /\ x[1] # EMPTY /\ tasks[t].got \subseteq handle[x].outboard
      /\ handle[x] \in Storage /\ Backed(x[1], handle[x])
  BY <1>1, BaoFacts, HandlePresent DEF ImportParent
<1>3. PICK s : s = [handle[x] EXCEPT !.outboard = @ \cup {n}]
  OBVIOUS
<1>4. /\ s \in Storage /\ s.data = handle[x].data /\ s.bits = handle[x].bits
      /\ s.outboard = handle[x].outboard \cup {n} /\ s.complete = handle[x].complete
  BY <1>2, <1>3 DEF Storage
<1>5. s.complete => s = CompleteStorage(x[1])
  <2> SUFFICES ASSUME s.complete PROVE s = CompleteStorage(x[1])
    OBVIOUS
  <2>1. handle[x] = CompleteStorage(x[1])
    BY <1>2, <1>4 DEF Backed
  <2>2. CompleteStorage(x[1]).outboard = Node
    BY <1>2, SMT DEF CompleteStorage
  <2>3. handle[x].outboard \cup {n} = handle[x].outboard
    BY <2>1, <2>2
  <2>4. s = handle[x]
    BY <1>2, <1>3, <2>3 DEF Storage
  <2> QED
    BY <2>1, <2>4
<1>6. Backed(x[1], s)
  BY <1>2, <1>4, <1>5 DEF Backed
<1>7. PICK r : r = [tasks[t] EXCEPT !.got = @ \cup {n}]
  OBVIOUS
<1>8. r \in BaoTask /\ r.obj = x /\ r.got = tasks[t].got \cup {n}
  BY <1>1, <1>2, <1>7, SMT DEF BaoTask
<1>9. handle' = [handle EXCEPT ![x] = s]
  BY <1>1, <1>3 DEF ImportParent
<1>10. tasks' = [tasks EXCEPT ![t] = r] /\ InTask /\ UNCHANGED <<scenario, ttVars>>
  BY <1>7 DEF ImportParent, Becomes
<1>11. r.obj[1] # EMPTY /\ Backed(r.obj[1], s) /\ handle' = [handle EXCEPT ![r.obj] = s]
  BY <1>2, <1>6, <1>8, <1>9
<1>12. /\ handle[r.obj].data \subseteq s.data /\ handle[r.obj].outboard \subseteq s.outboard
       /\ handle[r.obj].complete => s.complete
       /\ r.got \subseteq s.outboard
  BY <1>2, <1>4, <1>8
<1> QED
  BY <1>4, <1>8, <1>10, <1>11, <1>12, WriteStep

\* import_bao writes a leaf, unless the blob has become complete.
LEMMA ImportLeafKeeps ==
  ASSUME MInv, NEW t \in Task, NEW c \in Leaf, ImportLeaf(t, c), UNCHANGED scenario
  PROVE  MInv'
<1>1. PICK x \in Handle : x = tasks[t].obj
  BY BaoFacts DEF ImportLeaf
<1>2. /\ tasks[t] \in BaoTask /\ x[1] # EMPTY /\ tasks[t].got \subseteq handle[x].outboard
      /\ handle[x] \in Storage /\ Backed(x[1], handle[x])
      /\ tasks' = [tasks EXCEPT ![t] = tasks[t]]
  BY <1>1, BaoFacts, HandlePresent DEF ImportLeaf
<1>3. InTask /\ UNCHANGED <<scenario, ttVars>>
  BY DEF ImportLeaf
<1>4. CASE handle[x].complete
  <2>1. handle' = [handle EXCEPT ![x] = handle[x]]
    BY <1>1, <1>4 DEF ImportLeaf, MInv, StoreTypes
  <2> QED
    BY <1>1, <1>2, <1>3, <2>1, WriteStep
<1>5. CASE ~handle[x].complete
  <2>1. PICK s : s = WriteLeaf(handle[x], c)
    BY ZenonT(60)
  <2>2. PathTo[c] \subseteq handle[x].outboard
    BY <1>2 DEF ImportLeaf
  <2>3. /\ s \in Storage /\ Backed(x[1], s) /\ handle[x].data \subseteq s.data
        /\ handle[x].outboard \subseteq s.outboard
    BY <1>2, <2>1, <2>2, WriteLeafBacked
  <2>4. handle' = [handle EXCEPT ![x] = s]
    BY <1>1, <1>5, <2>1 DEF ImportLeaf
  <2>5. tasks[t].got \subseteq s.outboard
    BY <1>2, <2>3
  <2> QED
    BY <1>1, <1>2, <1>3, <1>5, <2>3, <2>4, <2>5, WriteStep
<1> QED
  BY <1>4, <1>5

-----------------------------------------------------------------------------
(* Joining tasks *)

\* When a task is joined, the last one tells the clients that wait.
LEMMA JoinFacts ==
  ASSUME MInv, NEW t \in Task, UNCHANGED scenario,
         tasks' = [tasks EXCEPT ![t] = NoTask], Passed(batch, batch'), Bigger(handle, handle'),
         \/ waiting' = IF NoTasks(tasks') THEN {} ELSE waiting
         \/ Kind(t, "panicked")
  PROVE  NoPanic' /\ WaitersNotForgotten' /\ TasksOK' /\ tasks' \in [Task -> TaskType]
<1>1. StoreTypes /\ TasksOK /\ NoPanic
  BY DEF MInv
<1>2. NoTask \in TaskType /\ NoTask.kind = "none"
  BY DEF TaskType, NoTask
<1>3. TaskOK(NoTask, handle', batch') /\ NoTask.kind # "panicked"
  BY <1>2, SMT DEF TaskOK
<1>4. TasksOK' /\ tasks' \in [Task -> TaskType]
  BY <1>1, <1>2, <1>3, TaskChanges
<1>5. \A u \in Task : tasks'[u] = IF u = t THEN NoTask ELSE tasks[u]
  BY <1>1 DEF StoreTypes
<1>6. NoPanic'
  BY <1>1, <1>3, <1>5 DEF NoPanic
<1>7. WaitersNotForgotten'
  <2>1. CASE Kind(t, "panicked")
    BY <1>1, <2>1 DEF NoPanic, Kind, WaitersNotForgotten
  <2>2. CASE waiting' = IF NoTasks(tasks') THEN {} ELSE waiting
    BY <2>2, SMT DEF WaitersNotForgotten, NoTasks
  <2> QED
    BY <2>1, <2>2
<1> QED
  BY <1>4, <1>6, <1>7

\* Joining a task that leaves the blobs alone.
LEMMA JoinsKeep ==
  ASSUME MInv, NEW t \in Task, JoinUnit(t) \/ JoinScope(t) \/ JoinPanicked(t),
         UNCHANGED scenario
  PROVE  MInv'
<1>1. /\ StoreTypes /\ TTInv /\ UNCHANGED <<scenario, blobVars>> /\ data' = data
      /\ handle' = handle
      /\ tasks' = [tasks EXCEPT ![t] = NoTask]
      /\ \/ waiting' = IF NoTasks(tasks') THEN {} ELSE waiting
         \/ Kind(t, "panicked")
  BY DEF MInv, JoinUnit, JoinScope, JoinPanicked, Join, Becomes, blobVars
<1>2. TTInv' /\ tt' = tt /\ Passed(batch, batch')
  <2>1. CASE UNCHANGED ttVars
    BY <1>1, <2>1, TTSame, Same DEF ttVars
  <2>2. CASE JoinScope(t)
    <3>1. tasks[t] \in BatchTaskType
      BY <1>1, <2>2, TaskShapes DEF StoreTypes, JoinScope, Kind
    <3>2. PICK b \in Batch : ClearScope(b)
      BY <2>2, <3>1 DEF JoinScope, BatchTaskType
    <3>3. TTInv'
      BY <1>1, <3>2, ClearScopeKeeps
    <3>4. tt' = tt /\ Passed(batch, batch')
      BY <1>1, <3>2, SMTT(30) DEF ClearScope, Passed, TTInv, TTTypes
    <3> QED
      BY <3>3, <3>4, ZenonT(60)
  <2> QED
    BY <2>1, <2>2 DEF JoinUnit, JoinPanicked
<1>3. HandlesBacked' /\ ReadonlyWhole' /\ HeldWhole'
  BY <1>1, <1>2, TagsFrame
<1>4. Bigger(handle, handle')
  BY <1>1, Same
<1>5. NoPanic' /\ WaitersNotForgotten' /\ TasksOK' /\ tasks' \in [Task -> TaskType]
  BY <1>1, <1>2, <1>4, JoinFacts
<1>6. StoreTypes'
  BY <1>1, <1>5, ZenonT(60) DEF StoreTypes
<1> QED
  BY <1>2, <1>3, <1>5, <1>6 DEF MInv

\* A tag that is dropped at once may leave an empty object for its scope.
LEMMA CreateAndDropKeeps ==
  ASSUME TTInv, NEW s \in Scope, s \in Batch => batch[s] # "none", CreateAndDrop(s)
  PROVE  TTInv' /\ tt' = tt /\ batch' = batch
<1>0. TTTypes /\ Counted /\ MaxGen \in Nat
  BY SlotAssumption DEF TTInv
<1>1. ObjectOf(s) \in 1..MaxGen
  BY <1>0, SMT DEF CreateAndDrop, ObjectOf, TTTypes
<1>2. PICK g \in 1..MaxGen : g = ObjectOf(s)
  BY <1>1
<1>3. /\ g >= gens[s] /\ gens[s] \in Nat
      /\ scopes[s] # 0 => g = scopes[s] /\ g = gens[s]
      /\ scopes[s] = 0 => g = gens[s] + 1
  BY <1>0, <1>2, SMT DEF ObjectOf, TTTypes
<1>4. /\ scopes' = [scopes EXCEPT ![s] = g] /\ gens' = [gens EXCEPT ![s] = g]
      /\ counters' = counters /\ batch' = batch /\ tt' = tt
  BY <1>2 DEF CreateAndDrop
<1>5. TTTypes'
  <2>1. scopes' \in [Scope -> 0..MaxGen] /\ gens' \in [Scope -> 0..MaxGen]
    BY <1>0, <1>4, SMTT(30) DEF TTTypes
  <2>2. /\ \A r \in Scope : scopes'[r] \in {0, gens'[r]}
        /\ \A b \in Batch : batch'[b] = "none" => gens'[b] = 0
    BY <1>0, <1>4 DEF TTTypes, Scope
  <2>3. \A r \in Scope : gens'[r] >= gens[r] /\ gens[r] \in Nat /\ gens'[r] \in Nat
    BY <1>0, <1>3, <1>4, SMT DEF TTTypes
  <2>4. \A u \in Slot : tt'[u] # NoTag => tt'[u].gen <= gens'[tt'[u].scope]
    <3> SUFFICES ASSUME NEW u \in Slot, tt[u] # NoTag
                 PROVE  tt[u].gen <= gens'[tt[u].scope]
      BY <1>4
    <3>1. tt[u].gen \in 1..MaxGen /\ tt[u].scope \in Scope /\ tt[u].gen <= gens[tt[u].scope]
      BY <1>0 DEF TTTypes, Tag
    <3> QED
      BY <2>3, <3>1, SMT
  <2>5. \A r \in Scope, k \in 1..MaxGen : k > gens'[r] => counters'[<<r, k>>] = Zero
    <3> SUFFICES ASSUME NEW r \in Scope, NEW k \in 1..MaxGen, k > gens'[r]
                 PROVE  counters[<<r, k>>] = Zero
      BY <1>4
    <3>1. k > gens[r]
      BY <2>3, SMT
    <3> QED
      BY <1>0, <3>1 DEF TTTypes
  <2> QED
    BY <1>0, <1>4, <2>1, <2>2, <2>4, <2>5 DEF TTTypes
<1>6. \A r, k, w : Tagged(r, k, w)' = Tagged(r, k, w)
  BY <1>4 DEF Tagged
<1>7. Counted'
  <2> SUFFICES ASSUME NEW r \in Scope, NEW k \in 1..MaxGen, NEW w \in HashAndFormat,
                      scopes'[r] = k
               PROVE  counters[<<r, k>>][w] = Cardinality(Tagged(r, k, w))
    BY <1>4, <1>6 DEF Counted
  <2>1. CASE scopes[r] = k
    BY <1>0, <2>1 DEF Counted
  <2>2. CASE scopes[r] # k
    <3>1. r = s /\ k = g /\ k > gens[r]
      BY <1>0, <1>3, <1>4, <2>2, SMTT(30) DEF TTTypes
    <3>2. counters[<<r, k>>][w] = 0
      BY <1>0, <3>1, SMTT(30) DEF TTTypes, Zero
    <3>3. Tagged(r, k, w) = {}
      BY <1>0, <3>1, SMT DEF Tagged, TTTypes, Tag
    <3> QED
      BY <3>2, <3>3, FS_EmptySet
  <2> QED
    BY <2>1, <2>2
<1> QED
  BY <1>4, <1>5, <1>7 DEF TTInv

\* A complete storage has what any storage of the blob has.
LEMMA CompleteHasAll ==
  ASSUME NEW h, NEW s \in Storage, Backed(h, s)
  PROVE  /\ s.data \subseteq CompleteStorage(h).data
         /\ s.outboard \subseteq CompleteStorage(h).outboard
<1>1. CASE h = EMPTY
  <2>1. NewPartial.data = {} /\ NewPartial.outboard = {}
    BY SMT DEF NewPartial
  <2> QED
    BY <1>1, <2>1 DEF Backed
<1>2. CASE h # EMPTY
  <2>1. CompleteStorage(h).data = Leaf /\ CompleteStorage(h).outboard = Node
    BY <1>2, SMT DEF CompleteStorage
  <2> QED
    BY <2>1 DEF Storage
<1> QED
  BY <1>1, <1>2

\* finish_import: the entry is complete before the client gets its tag.
LEMMA JoinImportKeeps ==
  ASSUME MInv, NEW t \in Task, JoinImport(t), UNCHANGED scenario
  PROVE  MInv'
<1>1. /\ StoreTypes /\ TTInv /\ HeldWhole /\ ReadonlyWhole
      /\ tasks' = [tasks EXCEPT ![t] = NoTask]
      /\ waiting' = IF NoTasks(tasks') THEN {} ELSE waiting
  BY ZenonT(60) DEF MInv, JoinImport, Join, Becomes
<1>2. PICK h \in Hash, s \in Scope, v \in Value :
        /\ h = v[1] /\ s = tasks[t].scope /\ v = tasks[t].value
        /\ s \in Batch => batch[s] # "none"
  BY ImportFacts DEF JoinImport, Value
<1>3. /\ CreateEntry(h) /\ deleted' = deleted \ {h}
      /\ handle' = [handle EXCEPT ![GetOrCreate(h)] = CompleteStorage(h)]
  BY <1>2 DEF JoinImport, StoreImport
<1>4. PICK x \in Handle : x = GetOrCreate(h) /\ x[1] = h /\ x = <<h, data'[h]>>
  BY <1>1, <1>3, EntryFacts, SMTT(30)
<1>5. /\ data' \in [Hash -> 0..MaxHandle] /\ data'[h] # 0
      /\ \A g \in Hash : g # h \/ data[g] # 0 => data'[g] = data[g]
  BY <1>1, <1>3, EntryFacts
<1>6. /\ CompleteStorage(h) \in Storage /\ CompleteStorage(h).complete
      /\ Backed(x[1], CompleteStorage(h))
      /\ handle[x].data \subseteq CompleteStorage(h).data
      /\ handle[x].outboard \subseteq CompleteStorage(h).outboard
  BY <1>4, StorageFacts, CompleteHasAll, HandlePresent
<1>7. /\ handle' \in [Handle -> Storage] /\ handle'[x] = CompleteStorage(h)
      /\ HandlesBacked' /\ Bigger(handle, handle')
      /\ \A y \in Handle : handle[y].complete => handle'[y].complete
  <2>1. handle' = [handle EXCEPT ![x] = CompleteStorage(h)]
    BY <1>3, <1>4
  <2> QED
    BY <1>6, <2>1, HandleGrows
<1>8. whole \subseteq whole' /\ h \in whole'
  <2>1. whole \subseteq whole'
    BY <1>1, <1>5, <1>7, WholeStays
  <2>2. handle'[<<h, data'[h]>>].complete
    BY <1>4, <1>6, <1>7
  <2> QED
    BY <1>5, <2>1, <2>2 DEF whole
<1>9. /\ TTInv' /\ batch' = batch
      /\ \A slot \in Slot : tt'[slot] # NoTag /\ tt'[slot].imported =>
           tt'[slot] = tt[slot] \/ tt'[slot].value[1] = h
  <2>1. ASSUME NEW slot \in Slot, Create(slot, s, v, "user", TRUE)
        PROVE  /\ TTInv' /\ batch' = batch
               /\ \A u \in Slot : tt'[u] = tt[u] \/ tt'[u].value[1] = h
    <3>1. v \in HashAndFormat /\ "user" \in Owner
      BY ZenonT(60) DEF Value, HashAndFormat, Format, Owner
    <3>2. TTInv'
      BY <1>1, <2>1, <3>1, CreateKeeps
    <3>3. batch' = batch /\ \A u \in Slot : u # slot => tt'[u] = tt[u]
      BY <1>1, <2>1, ZenonT(60) DEF Create, TTInv, TTTypes
    <3>4. tt'[slot] = TempTag(s, ObjectOf(s), v, "user", TRUE)
      BY <1>1, <2>1 DEF Create, TTInv, TTTypes
    <3>5. \A o : TempTag(s, o, v, "user", TRUE).value = v
      BY SMT DEF TempTag
    <3>6. tt'[slot].value = v
      BY <3>4, <3>5
    <3> QED
      BY <1>2, <3>2, <3>3, <3>6
  <2>2. CASE CreateAndDrop(s)
    BY <1>1, <1>2, <2>2, CreateAndDropKeeps
  <2> QED
    BY <1>2, <2>1, <2>2 DEF JoinImport
<1>10. \A slot \in Slot : tt'[slot] # NoTag /\ tt'[slot].imported =>
         tt'[slot] = tt[slot] \/ tt'[slot].value[1] \in whole'
  BY <1>8, <1>9
<1>11. \A g \in Hash : g \notin deleted' =>
         (g \notin deleted /\ (g \in whole => g \in whole')) \/ g \in whole'
  BY <1>3, <1>8
<1>12. HeldWhole'
  BY <1>1, <1>9, <1>10, <1>11, HeldKept
<1>13. ReadonlyWhole'
  BY <1>1, <1>5, <1>8, ZenonT(60) DEF ReadonlyWhole, Readonly
<1>14. Passed(batch, batch')
  BY <1>9, Same
<1>15. NoPanic' /\ WaitersNotForgotten' /\ TasksOK' /\ tasks' \in [Task -> TaskType]
  BY <1>1, <1>7, <1>14, JoinFacts
<1>16. StoreTypes'
  BY <1>1, <1>5, <1>7, <1>15, ZenonT(60) DEF StoreTypes
<1> QED
  BY <1>7, <1>9, <1>12, <1>13, <1>15, <1>16 DEF MInv

-----------------------------------------------------------------------------
(* All steps *)

\* Every step of a task.
LEMMA TaskStepKeeps ==
  ASSUME MInv, NEW t \in Task, TaskStep(t), UNCHANGED scenario
  PROVE  MInv'
<1>1. CASE TaskEnds(t)
  BY <1>1, InTaskQuiet, FinishKeeps DEF TaskEnds
<1>2. CASE \/ \E n \in Node : ImportParent(t, n)
           \/ \E c \in Leaf : ImportLeaf(t, c)
           \/ \E ok \in BOOLEAN : ImportReads(t, ok)
  BY <1>2, ImportParentKeeps, ImportLeafKeeps, ImportReadsKeeps
<1>3. CASE StartRanges(t) \/ NextRange(t) \/ ReadRange(t) \/ StartExport(t) \/ ReadExport(t)
  BY <1>3, StartRangesKeeps, NextRangeKeeps, ReadRangeKeeps, StartExportKeeps,
     ReadExportKeeps, ZenonT(60)
<1>4. CASE \/ TaskPanics(t) \/ BatchTask(t)
           \/ JoinUnit(t) \/ JoinScope(t) \/ JoinPanicked(t) \/ JoinImport(t)
  BY <1>4, TaskPanicsKeeps, BatchTaskKeeps, JoinsKeep, JoinImportKeeps, ZenonT(60)
<1> QED
  BY <1>1, <1>2, <1>3, <1>4 DEF TaskStep

\* Every step of a store, mutable or read-only.
LEMMA StoreKeeps == ASSUME MInv, Next \/ ReadonlyNext PROVE MInv'
<1>1. CASE Next
  BY <1>1, BlobCommandKeeps, TagCommandKeeps, TaskStepKeeps DEF Next
<1>2. CASE ReadonlyNext
  <2>1. PICK t \in Task :
          \/ \E h \in Hash : ReadonlyObserve(t, h)
          \/ \E h \in Hash, name \in {"bao", "path"} : ReadonlyExport(t, name, h)
          \/ \E h \in Hash, ranges \in Requests : ReadonlyExportRanges(t, h, ranges)
          \/ ReadonlySends(t)
    BY <1>2, ZenonT(60) DEF ReadonlyNext
  <2>2. UNCHANGED scenario
    BY <1>2 DEF ReadonlyNext
  <2>3. ASSUME NEW h \in Hash, NEW ranges \in Requests, ReadonlyExportRanges(t, h, ranges)
        PROVE  MInv'
    <3>1. ranges \in Seq(SUBSET Int)
      BY RequestAssumption
    <3>2. /\ Readonly /\ Spawn(t, ReadonlyRanges(h, ranges))
          /\ UNCHANGED <<scenario, blobVars, ttVars>>
      BY <2>2, <2>3 DEF ReadonlyExportRanges, ReadonlySpawn, Serves
    <3> QED
      BY <3>1, <3>2, ReadonlyRangesKeeps
  <2>4. CASE ReadonlySends(t)
    BY <2>2, <2>4, ReadonlySendsKeeps
  <2> QED
    BY <2>1, <2>2, <2>3, <2>4, PlainCommands, ZenonT(60)
<1> QED
  BY <1>1, <1>2, ZenonT(60)

\* A store begins without tasks and tags, with partial storages or complete ones.
LEMMA StoreBegins == ReaderSpecInit => MInv
<1> SUFFICES ASSUME ReaderSpecInit PROVE MInv
  BY ZenonT(60)
<1>1. /\ TTInit /\ scenario \in Scenarios /\ data = made
      /\ tasks = [t \in Task |-> NoTask] /\ waiting = {}
      /\ \/ ~Readonly /\ handle = [x \in Handle |-> NewPartial]
                      /\ made = [h \in Hash |-> IF h = EMPTY THEN 1 ELSE 0]
         \/ /\ made = [h \in Hash |-> IF h \in Items THEN 1 ELSE 0]
            /\ handle = [x \in Handle |-> IF x[1] \in Items THEN CompleteStorage(x[1])
                                          ELSE NewPartial]
  BY DEF ReaderSpecInit, Init, ReadonlyInit
<1>2. 0 \in 0..MaxHandle /\ 1 \in 0..MaxHandle /\ 1 \in 1..MaxHandle
  BY RequestAssumption, SMT
<1>3. data \in [Hash -> 0..MaxHandle]
  BY <1>1, <1>2
<1>4. NoTask \in TaskType /\ NoTask.kind = "none"
  BY DEF TaskType, NoTask
<1>5. tasks \in [Task -> TaskType] /\ \A t \in Task : tasks[t] = NoTask
  BY <1>1, <1>4
<1>6. handle \in [Handle -> Storage] /\ HandlesBacked
  <2>1. handle \in [Handle -> Storage]
    BY <1>1, StorageFacts, ZenonT(60)
  <2>2. \A x \in Handle : handle[x] = NewPartial \/ handle[x] = CompleteStorage(x[1])
    BY <1>1
  <2> QED
    BY <2>1, <2>2, StorageFacts DEF HandlesBacked
<1>7. StoreTypes
  BY <1>1, <1>3, <1>5, <1>6 DEF StoreTypes
<1>8. TaskOK(NoTask, handle, batch) /\ NoTask.kind # "panicked"
  BY <1>4, SMTT(30) DEF TaskOK
<1>9. TasksOK /\ NoPanic
  BY <1>5, <1>8 DEF TasksOK, NoPanic
<1>10. WaitersNotForgotten
  BY <1>1 DEF WaitersNotForgotten
<1>11. HeldWhole
  BY <1>1 DEF HeldWhole, TTInit
<1>12. TTInv
  BY <1>1, TTInvInit
<1>13. ReadonlyWhole
  <2> SUFFICES ASSUME Readonly, NEW h \in Hash, data[h] # 0 PROVE h \in whole
    BY DEF ReadonlyWhole
  <2>1. /\ h \in Items /\ data[h] = 1
        /\ handle = [x \in Handle |-> IF x[1] \in Items THEN CompleteStorage(x[1])
                                      ELSE NewPartial]
    BY <1>1
  <2>2. <<h, 1>> \in Handle /\ <<h, 1>>[1] = h
    BY <1>2 DEF Handle
  <2>3. handle[<<h, 1>>] = CompleteStorage(h)
    BY <2>1, <2>2, SMT
  <2> QED
    BY <2>1, <2>3, StorageFacts DEF whole
<1> QED
  BY <1>6, <1>7, <1>9, <1>10, <1>11, <1>12, <1>13 DEF MInv

\* The steps of a reader that concern the store are steps the store may take.
LEMMA ReaderKeepsStore == MInv /\ [ReaderNext]_readerVars => MInv'
<1> SUFFICES ASSUME MInv, [ReaderNext]_readerVars PROVE MInv'
  BY ZenonT(60)
<1>1. CASE UNCHANGED vars
  BY <1>1, TagsOnly DEF vars
<1>2. CASE StoreStep
  BY <1>2, StoreKeeps DEF StoreStep
<1>3. ASSUME NEW t \in Task, AskExport(t) PROVE MInv'
  <2>1. ReadRanges \in Seq(SUBSET Int) /\ ReadHash \in Hash
    BY ReaderAssumption, SMT DEF ReadRanges
  <2>2. UNCHANGED scenario
    BY <1>3 DEF AskExport
  <2>3. CASE ~running
    BY <1>3, <2>2, <2>3, TagsOnly DEF AskExport
  <2>4. CASE running /\ Readonly
    BY <1>3, <2>1, <2>2, <2>4, ReadonlyRangesKeeps DEF AskExport
  <2>5. CASE running /\ ~Readonly
    BY <1>3, <2>1, <2>2, <2>5, SpawnRangesKeeps, ZenonT(60) DEF AskExport
  <2> QED
    BY <2>3, <2>4, <2>5
<1>4. ASSUME NEW t \in Task, AbandonedEnds(t) PROVE MInv'
  BY <1>4, InTaskQuiet, FinishKeeps, ZenonT(60) DEF AbandonedEnds
<1>5. CASE (\E len \in Lengths : StartRead(len)) \/ ContinueRead \/ StartSeek \/ PollComplete
  <2>1. UNCHANGED vars
    BY <1>5 DEF StartRead, ContinueRead, StartSeek, PollComplete, Call
  <2> QED
    BY <1>1, <2>1
<1>6. CASE UNCHANGED readerVars
  BY <1>1, <1>6 DEF readerVars
<1> QED
  BY <1>2, <1>3, <1>4, <1>5, <1>6 DEF ReaderNext

\* Whatever imports by stream and by bytes, exports, deletes and readers run at
\* the same time on the handles of a store in memory, the storages, the tasks and
\* the temp tags agree.
THEOREM StoreInvariant == ReaderSpec => []MInv
BY StoreBegins, ReaderKeepsStore, PTL DEF ReaderSpec

\* What a bitfield claims can be read, completing a blob never meets a gap, and
\* an export finds all of a range that it has once found present (import_bao,
\* export_ranges).
THEOREM BitfieldsBacked == ReaderSpec => []ReadsBacked
<1>1. MInv => ReadsBacked
  <2> SUFFICES ASSUME MInv PROVE ReadsBacked
    OBVIOUS
  <2>1. ASSUME NEW x \in Handle, x[1] # EMPTY
        PROVE  \A c \in handle[x].bits.ranges \cap Leaf :
                 c \in handle[x].data /\ PathTo[c] \subseteq handle[x].outboard
    BY <2>1, HandlePresent DEF Backed
  <2>2. ASSUME NEW t \in Task, Kind(t, "ranges")
        PROVE  \A x \in tasks[t].from : tasks[t].reading \subseteq handle[x].data
    BY <2>2, RangesFacts
  <2> QED
    BY <2>1, <2>2 DEF ReadsBacked
<1> QED
  BY <1>1, StoreInvariant, PTL

\* A client that holds the temp tag of an import finds the blob complete until a
\* DeleteBlobs names it (finish_import).
THEOREM HeldImports == ReaderSpec => []HeldImportsComplete
<1>1. MInv => HeldImportsComplete
  <2> SUFFICES ASSUME MInv, NEW slot \in Slot, tt[slot] # NoTag, tt[slot].imported,
                      tt[slot].value[1] \notin deleted
               PROVE  \E x \in Get(tt[slot].value[1]) : IsComplete(handle[x].bits)
    BY ZenonT(60) DEF HeldImportsComplete
  <2>1. PICK h \in whole : h = tt[slot].value[1]
    BY DEF MInv, HeldWhole
  <2>2. h \in Hash /\ data[h] # 0 /\ handle[<<h, data[h]>>].complete
    BY DEF whole
  <2>3. PICK x \in Get(h) : x = <<h, data[h]>>
    BY <2>2 DEF Get
  <2>4. x \in Handle /\ x[1] = h
    BY <2>2, GetFacts
  <2>5. handle[x] = CompleteStorage(h)
    BY <2>2, <2>3, <2>4, HandlePresent DEF Backed
  <2> QED
    BY <2>1, <2>3, <2>5, StorageFacts
<1> QED
  BY <1>1, StoreInvariant, PTL

\* Nobody waits for a store that has nothing to do, unless a task has panicked
\* (Actor::run).
THEOREM WaitersTold == ReaderSpec => []WaitersNotForgotten
<1>1. MInv => WaitersNotForgotten
  BY DEF MInv
<1> QED
  BY <1>1, StoreInvariant, PTL

\* The memory store lists exactly the temp tags in use, although it makes and
\* drops the tags of imports in its own way (finish_import).
THEOREM MemTagsListed == ReaderSpec => []ListExact
<1>1. MInv => ListExact
  BY CountedListExact DEF MInv
<1> QED
  BY <1>1, StoreInvariant, PTL


-----------------------------------------------------------------------------
(* The reader *)

Error == [kind |-> "error"]
ItemType == {Error} \cup [kind : {"data"}, offset : Nat, n : {0, 1}]

OpType ==
  [phase : {"none", "asked", "open", "closed"}, task : Task \cup {NoTask}, items : Seq(ItemType)]

ReaderType ==
  [st : {"idle", "reading", "seeking", "poisoned"}, pos : Nat, len : Nat, op : OpType,
   at : Nat, misused : BOOLEAN, eof : BOOLEAN, whole : BOOLEAN]

\* The first k chunks from p on, as they are sent.
Leaves(p, k) == [i \in 1..k |-> DataItem(p + i - 1, 1)]

\* What a task still has to read, and what it has sent, of l chunks from p on in
\* a blob that ends at end.
Progress(p, l, items, reading, end) ==
  \/ /\ p < end
     /\ \E k \in 0..l, e \in {p + l, end} :
          /\ e <= p + l /\ e <= end /\ p + k <= e
          /\ items = Leaves(p, k) /\ reading = p + k .. e - 1
  \/ p >= end /\ reading = {} /\ items \in {<<>>, <<DataItem(end, 0)>>}

\* The task r of a reader at p with a buffer for l chunks has not looked at
\* the range, or is within it.
Serving(p, l, items, r) ==
  /\ r.kind = "ranges"
  /\ \/ /\ r.rest = << p .. p + l - 1 >> /\ r.reading = {} /\ items = <<>>
        /\ r.bits \in Optional(BitfieldType)
     \/ /\ r.rest = <<>>
        /\ \E b \in BitfieldType :
             r.bits = {b} /\ Progress(p, l, items, r.reading, Chunks(b.size))

\* If the blob was whole when the task began, its storage in H stays so, and the
\* task knows the right size.
Knows(w, r, H) ==
  w => /\ \A x \in r.from : x[1] = ReadHash /\ H[x].complete
       /\ \A b \in r.bits : b = CompleteBitfield(SizeOf(ReadHash))

\* A stream that has ended: an error, or chunks in order, of which there is one if the
\* blob is whole and the store runs, or the empty leaf at the end.
Ended(p, l, w, up, items) ==
  \/ items = <<Error>>
  \/ \E k \in 0..l : items = Leaves(p, k) /\ (w /\ up /\ p < EndOf(ReadHash) => k >= 1)
  \/ \E end \in 0..p : (w => end = EndOf(ReadHash)) /\ items = <<DataItem(end, 0)>>

\* The stream of a reader in the state Reading.
Streaming(rd, ts, H, up) ==
  \/ rd.op = [phase |-> "asked", task |-> NoTask, items |-> <<>>]
  \/ /\ rd.op.phase = "open" /\ rd.op.task \in Task
     /\ Serving(rd.pos, rd.len, rd.op.items, ts[rd.op.task])
     /\ Knows(rd.whole, ts[rd.op.task], H)
  \/ rd.op.phase = "closed" /\ Ended(rd.pos, rd.len, rd.whole, up, rd.op.items)

RInv ==
  /\ reader \in ReaderType
  /\ ReaderInStep
  /\ reader.st # "reading" => reader.op = NoOp
  /\ reader.st = "reading" =>
       ~reader.eof /\ reader.len >= 1 /\ Streaming(reader, tasks, handle, running)


\* The chunks that are sent, and one more.
LEMMA LeavesFacts ==
  ASSUME NEW p \in Nat, NEW k \in Nat
  PROVE  /\ Leaves(p, k) \in Seq(ItemType) /\ Len(Leaves(p, k)) = k
         /\ \A i \in 1..k : Leaves(p, k)[i] = DataItem(p + i - 1, 1)
         /\ Leaves(p, k) \o <<DataItem(p + k, 1)>> = Leaves(p, k + 1)
         /\ k = 0 => Leaves(p, k) = <<>>
<1>1. \A i \in 1..k + 1 : DataItem(p + i - 1, 1) \in ItemType
  BY SMT DEF DataItem, ItemType
<1>2. /\ Leaves(p, k) \in Seq(ItemType) /\ Len(Leaves(p, k)) = k
      /\ \A i \in 1..k : Leaves(p, k)[i] = DataItem(p + i - 1, 1)
  <2>1. \A i \in 1..k : DataItem(p + i - 1, 1) \in ItemType
    BY <1>1, SMT
  <2> QED
    BY <2>1, SMT DEF Leaves
<1>3. /\ Leaves(p, k + 1) \in Seq(ItemType) /\ Len(Leaves(p, k + 1)) = k + 1
      /\ \A i \in 1..k + 1 : Leaves(p, k + 1)[i] = DataItem(p + i - 1, 1)
  BY <1>1, SMT DEF Leaves
<1>4. Leaves(p, k) \o <<DataItem(p + k, 1)>> = Leaves(p, k + 1)
  <2>1. PICK d : d = DataItem(p + k, 1)
    OBVIOUS
  <2>2. d \in ItemType /\ p + (k + 1) - 1 = p + k
    BY <2>1, SMT DEF DataItem, ItemType
  <2>3. Leaves(p, k + 1)[k + 1] = d
    BY <1>3, <2>1, <2>2, SMT
  <2>4. \A i \in 1..k : Leaves(p, k + 1)[i] = Leaves(p, k)[i]
    BY <1>2, <1>3, SMT
  <2> HIDE DEF Leaves
  <2>5. Leaves(p, k) \o <<d>> = Leaves(p, k + 1)
    BY <1>2, <1>3, <2>2, <2>3, <2>4, SMT
  <2> QED
    BY <2>1, <2>5
<1>5. k = 0 => Leaves(p, k) = <<>>
  BY <1>2, SMT
<1> QED
  BY <1>2, <1>4, <1>5

\* Before the first chunk, there is nothing.
LEMMA NoLeaves == ASSUME NEW p \in Nat PROVE Leaves(p, 0) = <<>>
<1>1. 0 \in Nat
  BY SMT
<1> QED
  BY <1>1, LeavesFacts

\* Streams of one item, and of none.
LEMMA ItemFacts ==
  /\ <<>> \in Seq(ItemType) /\ Len(<<>>) = 0
  /\ Error \in ItemType /\ <<Error>> \in Seq(ItemType) /\ Error.kind = "error"
  /\ \A o \in Nat, n \in {0, 1} :
       /\ DataItem(o, n) \in ItemType /\ <<DataItem(o, n)>> \in Seq(ItemType)
       /\ DataItem(o, n).kind = "data" /\ DataItem(o, n).offset = o /\ DataItem(o, n).n = n
<1>1. Error \in ItemType /\ Error.kind = "error"
  BY SMT DEF ItemType, Error
<1>2. ASSUME NEW o \in Nat, NEW n \in {0, 1}
      PROVE  /\ DataItem(o, n) \in ItemType
             /\ DataItem(o, n).kind = "data" /\ DataItem(o, n).offset = o /\ DataItem(o, n).n = n
  BY <1>2, SMT DEF ItemType, DataItem
<1>3. \A d \in ItemType : <<d>> \in Seq(ItemType)
  BY SMT
<1> QED
  BY <1>1, <1>2, <1>3, SMT

\* What a reader at p makes of chunks in order: all of them are read.
LEMMA LeavesRead ==
  ASSUME NEW p \in Nat, NEW k \in Nat, reader.pos = p
  PROVE  /\ DataOf(Leaves(p, k)) = Leaves(p, k)
         /\ ReadOf(Leaves(p, k), k) = k
         /\ InOrder(Leaves(p, k))
<1>1. PICK s \in Seq(ItemType) :
        /\ s = Leaves(p, k) /\ Len(s) = k
        /\ \A i \in 1..k : s[i] = DataItem(p + i - 1, 1)
  BY LeavesFacts, ZenonT(60)
<1>2. \A i \in 1..k : s[i].kind = "data" /\ s[i].offset = p + i - 1 /\ s[i].n = 1
  <2> SUFFICES ASSUME NEW i \in 1..k
               PROVE  s[i].kind = "data" /\ s[i].offset = p + i - 1 /\ s[i].n = 1
    OBVIOUS
  <2>1. PICK o \in Nat : o = p + i - 1
    BY SMT
  <2>2. s[i] = DataItem(o, 1) /\ 1 \in {0, 1}
    BY <1>1, <2>1
  <2> QED
    BY <2>1, <2>2, SMT DEF DataItem
<1>3. DataOf(s) = s
  <2>1. s # <<>> => s[Len(s)].kind = "data"
    BY <1>1, <1>2, SMT
  <2>2. s # <<>> => s[Len(s)].kind # "error"
    BY <2>1, SMT
  <2> QED
    BY <2>2 DEF DataOf
<1>4. \A i \in 0..k : ReadOf(s, i) = i
  <2> SUFFICES ASSUME NEW i \in 0..k PROVE ReadOf(s, i) = i
    OBVIOUS
  <2>1. {j \in 1..i : s[j].n = 1} = 1..i
    BY <1>2, SMT
  <2>2. Cardinality(1..i) = i
    BY FS_Interval, SMT
  <2> QED
    BY <2>1, <2>2 DEF ReadOf
<1>5. InOrder(s)
  <2> SUFFICES ASSUME NEW i \in 1..Len(s) PROVE s[i].offset = reader.pos + ReadOf(s, i - 1)
    BY DEF InOrder
  <2>1. i \in 1..k /\ i - 1 \in 0..k
    BY <1>1, SMT
  <2>2. ReadOf(s, i - 1) = i - 1 /\ s[i].offset = p + i - 1
    BY <1>2, <1>4, <2>1
  <2> QED
    BY <2>1, <2>2, SMT
<1>6. k \in 0..k
  BY SMT
<1> QED
  BY <1>1, <1>3, <1>4, <1>5, <1>6

\* The empty leaf at end and an error: nothing is read.
LEMMA NothingRead ==
  ASSUME NEW end \in Nat
  PROVE  /\ DataOf(<<DataItem(end, 0)>>) = <<DataItem(end, 0)>>
         /\ ReadOf(<<DataItem(end, 0)>>, 1) = 0
         /\ reader.pos = end => InOrder(<<DataItem(end, 0)>>)
         /\ DataOf(<<Error>>) = <<>> /\ InOrder(<<>>)
<1>1. PICK d \in ItemType : d = DataItem(end, 0) /\ d.kind = "data" /\ d.offset = end /\ d.n = 0
  BY ItemFacts, ZenonT(60)
<1>2. PICK s : s = <<d>>
  OBVIOUS
<1>3. s \in Seq(ItemType) /\ Len(s) = 1 /\ s[1] = d
  BY <1>2, SMT
<1>4. DataOf(s) = s
  BY <1>1, <1>3, SMT DEF DataOf
<1>5. ReadOf(s, 1) = 0 /\ ReadOf(s, 0) = 0
  <2>1. {j \in 1..1 : s[j].n = 1} = {} /\ {j \in 1..0 : s[j].n = 1} = {}
    BY <1>1, <1>3, SMT
  <2> QED
    BY <2>1, FS_EmptySet DEF ReadOf
<1>6. reader.pos = end => InOrder(s)
  BY <1>1, <1>3, <1>5, SMT DEF InOrder
<1>7. DataOf(<<Error>>) = <<>>
  <2>1. PICK e \in ItemType : e = Error /\ e.kind = "error"
    BY ItemFacts
  <2>2. PICK q : q = <<e>>
    OBVIOUS
  <2>3. q # <<>> /\ Len(q) = 1 /\ q[1] = e
    BY <2>2, SMT
  <2>4. SubSeq(q, 1, Len(q) - 1) = <<>>
    BY <2>3, SMT
  <2> QED
    BY <2>1, <2>2, <2>3, <2>4 DEF DataOf
<1>8. InOrder(<<>>)
  BY SMT DEF InOrder
<1> QED
  BY <1>1, <1>2, <1>4, <1>5, <1>6, <1>7, <1>8


\* A store that has been shut down stays so, and a storage that is complete too.
LEMMA StoreFrame ==
  ASSUME MInv, Next \/ ReadonlyNext
  PROVE  /\ running' => running
         /\ \A x \in Handle : handle[x].complete => handle'[x].complete
<1> DEFINE Goal == /\ running' => running
                   /\ \A x \in Handle : handle[x].complete => handle'[x].complete
<1>1. ASSUME handle' = handle, running' = running PROVE Goal
  BY <1>1, SMT
<1>2. CASE BlobCommand
  <2>1. CASE Shutdown
    BY <2>1 DEF Shutdown, blobVars
  <2>2. CASE BlobCommand /\ ~Shutdown
    BY <1>1, <2>2
    DEF BlobCommand, ImportBao, Observe, Import, ExportRanges, SpawnRanges, Export, ListBlobs,
        DeleteBlobs, WaitIdle, blobVars
  <2> QED
    BY <1>2, <2>1, <2>2
<1>3. CASE TagCommand
  BY <1>1, <1>3
  DEF TagCommand, DeleteTags, RenameTag, SetTag, CreateTag, TempTagCommand, BatchCommand,
      UserDropsTag, blobVars
<1>4. ASSUME NEW t \in Task, TaskStep(t) PROVE Goal
  <2>1. ASSUME NEW n \in Node, ImportParent(t, n) PROVE Goal
    <3>1. PICK y \in Handle : y = tasks[t].obj
      BY <2>1, BaoFacts DEF ImportParent
    <3>2. handle' = [handle EXCEPT ![y].outboard = @ \cup {n}] /\ running' = running
      BY <2>1, <3>1 DEF ImportParent, InTask
    <3>3. handle \in [Handle -> Storage]
      BY DEF MInv, StoreTypes
    <3>4. \A x \in Handle : handle'[x].complete = handle[x].complete
      BY <3>2, <3>3, SMT DEF Storage
    <3> QED
      BY <3>2, <3>4
  <2>2. ASSUME NEW c \in Leaf, ImportLeaf(t, c) PROVE Goal
    <3>1. PICK y \in Handle : y = tasks[t].obj
      BY <2>2, BaoFacts DEF ImportLeaf
    <3>2. /\ running' = running
          /\ \/ handle' = handle
             \/ ~handle[y].complete /\ handle' = [handle EXCEPT ![y] = WriteLeaf(handle[y], c)]
      BY <2>2, <3>1 DEF ImportLeaf, InTask
    <3>3. handle \in [Handle -> Storage]
      BY DEF MInv, StoreTypes
    <3> QED
      BY <3>2, <3>3
  <2>3. CASE JoinImport(t)
    <3>1. PICK h \in Hash : h = tasks[t].value[1]
      BY <2>3, ImportFacts DEF JoinImport, Value
    <3>2. /\ CreateEntry(h) /\ handle' = [handle EXCEPT ![GetOrCreate(h)] = CompleteStorage(h)]
          /\ running' = running
      BY <2>3, <3>1 DEF JoinImport, StoreImport, Join
    <3>3. handle \in [Handle -> Storage] /\ GetOrCreate(h) \in Handle
      BY <3>2 DEF MInv, StoreTypes, CreateEntry
    <3> QED
      BY <3>2, <3>3, StorageFacts
  <2>4. CASE \/ StartRanges(t) \/ NextRange(t) \/ ReadRange(t) \/ StartExport(t) \/ ReadExport(t)
             \/ \E ok \in BOOLEAN : ImportReads(t, ok)
             \/ TaskEnds(t) \/ TaskPanics(t) \/ BatchTask(t)
    BY <1>1, <2>4
    DEF StartRanges, NextRange, ReadRange, StartExport, ReadExport, ImportReads, TaskEnds,
        TaskPanics, BatchTask, InTask
  <2>5. CASE JoinUnit(t) \/ JoinScope(t) \/ JoinPanicked(t)
    BY <1>1, <2>5 DEF JoinUnit, JoinScope, JoinPanicked, Join, blobVars
  <2> QED
    BY <1>4, <2>1, <2>2, <2>3, <2>4, <2>5 DEF TaskStep
<1>5. CASE ReadonlyNext
  BY <1>1, <1>5
  DEF ReadonlyNext, ReadonlyObserve, ReadonlyExport, ReadonlyExportRanges, ReadonlySpawn,
      ReadonlySends, InTask, blobVars
<1> QED
  BY <1>2, <1>3, <1>4, <1>5 DEF Next

\* The task of an export of ranges is left alone by all steps but its own, until a
\* shutdown drops it.
LEMMA RangesStep ==
  ASSUME MInv, Next \/ ReadonlyNext, NEW u \in Task, Kind(u, "ranges")
  PROVE  \/ tasks'[u] = tasks[u]
         \/ (StartRanges(u) \/ NextRange(u) \/ ReadRange(u)) /\ running' = running
         \/ tasks'[u] = NoTask /\ ~running'
<1> DEFINE Goal == \/ tasks'[u] = tasks[u]
                   \/ (StartRanges(u) \/ NextRange(u) \/ ReadRange(u)) /\ running' = running
                   \/ tasks'[u] = NoTask /\ ~running'
<1>1. tasks \in [Task -> TaskType] /\ tasks[u].kind = "ranges" /\ NoTask.kind = "none"
  BY DEF MInv, StoreTypes, Kind, NoTask
<1>2. ASSUME NEW t, NEW r, Becomes(t, r), t # u PROVE Goal
  BY <1>1, <1>2 DEF Becomes
<1>3. ASSUME NEW t, NEW k, Kind(t, k), k # "ranges" PROVE t # u
  BY <1>3 DEF Kind
<1>4. ASSUME NEW t, NEW r, Spawn(t, r) PROVE Goal
  <2>1. t # u
    BY <1>1, <1>4 DEF Spawn
  <2> QED
    BY <1>1, <1>4, <2>1 DEF Spawn
<1>5. ASSUME NEW t, Join(t), t # u PROVE Goal
  BY <1>2, <1>5 DEF Join
<1> HIDE DEF Goal
<1>6. tasks' = tasks => Goal
  BY DEF Goal
<1>7. CASE BlobCommand
  <2>1. CASE Shutdown
    BY <2>1, ZenonT(60) DEF Shutdown, Goal
  <2>2. CASE (\E H \in (SUBSET Hash) \ {{}} : DeleteBlobs(H)) \/ (\E c \in Client : WaitIdle(c))
    BY <1>6, <2>2 DEF DeleteBlobs, WaitIdle
  <2>3. ASSUME NEW t, NEW h, ImportBao(t, h) \/ Observe(t, h) PROVE Goal
    BY <1>4, <2>3 DEF ImportBao, Observe
  <2>4. ASSUME NEW t, NEW s, NEW v, Import(t, s, v) PROVE Goal
    BY <1>4, <2>4 DEF Import
  <2>5. ASSUME NEW t, NEW h, NEW r, ExportRanges(t, h, r) PROVE Goal
    BY <1>4, <2>5 DEF ExportRanges, SpawnRanges
  <2>6. ASSUME NEW t, NEW kind, NEW h, Export(t, kind, h) PROVE Goal
    BY <1>4, <2>6 DEF Export
  <2>7. ASSUME NEW t, ListBlobs(t) PROVE Goal
    BY <1>4, <2>7 DEF ListBlobs
  <2> QED
    BY <1>7, <2>1, <2>2, <2>3, <2>4, <2>5, <2>6, <2>7 DEF BlobCommand, Goal
<1>8. CASE TagCommand
  <2>1. ASSUME NEW t, NEW b, BatchCommand(t, b) PROVE Goal
    BY <1>4, <2>1 DEF BatchCommand
  <2>2. CASE \E slot \in Slot : UserDropsTag(slot)
    BY <1>6, <2>2 DEF UserDropsTag
  <2>3. CASE \E slot \in Slot, s \in Scope, v \in HashAndFormat, rpc \in BOOLEAN :
               TempTagCommand(slot, s, v, rpc)
    BY <1>6, <2>3 DEF TempTagCommand
  <2>4. CASE \/ \E from, to \in Optional(Name) : DeleteTags(from, to)
             \/ \E from, to \in Name : RenameTag(from, to)
             \/ \E n \in Name, v \in HashAndFormat : SetTag(n, v) \/ CreateTag(n, v)
    BY <1>6, <2>4 DEF DeleteTags, RenameTag, SetTag, CreateTag
  <2> QED
    BY <1>8, <2>1, <2>2, <2>3, <2>4 DEF TagCommand, Goal
<1>9. ASSUME NEW t \in Task, TaskStep(t) PROVE Goal
  <2>1. CASE StartRanges(t) \/ NextRange(t) \/ ReadRange(t)
    <3>1. CASE t = u
      BY <2>1, <3>1 DEF StartRanges, NextRange, ReadRange, InTask, Goal
    <3>2. CASE t # u
      BY <1>2, <2>1, <3>2 DEF StartRanges, NextRange, ReadRange, Finishes
    <3> QED
      BY <3>1, <3>2
  <2>2. CASE \/ \E n \in Node : ImportParent(t, n)
             \/ \E c \in Leaf : ImportLeaf(t, c)
             \/ \E ok \in BOOLEAN : ImportReads(t, ok)
    BY <1>2, <1>3, <1>6, <2>2, ZenonT(60) DEF ImportParent, ImportLeaf, ImportReads
  <2>3. CASE TaskEnds(t) \/ TaskPanics(t) \/ BatchTask(t)
    BY <1>2, <1>3, <1>6, <2>3 DEF TaskEnds, TaskPanics, BatchTask, Finishes
  <2>4. CASE JoinUnit(t) \/ JoinScope(t) \/ JoinPanicked(t) \/ JoinImport(t)
    BY <1>2, <1>3, <1>5, <2>4 DEF JoinUnit, JoinScope, JoinPanicked, JoinImport
  <2>5. CASE StartExport(t) \/ ReadExport(t)
    BY <1>2, <1>3, <2>5 DEF StartExport, ReadExport, Finishes
  <2> QED
    BY <1>9, <2>1, <2>2, <2>3, <2>4, <2>5 DEF TaskStep
<1>10. CASE ReadonlyNext
  <2>1. ASSUME NEW t \in Task, ReadonlySends(t) PROVE Goal
    BY <1>2, <1>3, <2>1 DEF ReadonlySends, Finishes
  <2>2. ASSUME NEW name, NEW t, NEW r, ReadonlySpawn(name, t, r) PROVE Goal
    BY <1>4, <2>2 DEF ReadonlySpawn
  <2> QED
    BY <1>10, <2>1, <2>2
    DEF ReadonlyNext, ReadonlyObserve, ReadonlyExport, ReadonlyExportRanges, Goal
<1> QED
  BY <1>7, <1>8, <1>9, <1>10 DEF Next, Goal


-----------------------------------------------------------------------------
(* The stream of a read *)

\* Sizes in chunks, and that of the blob a reader reads.
LEMMA EndFacts ==
  /\ \A b \in BitfieldType : Chunks(b.size) \in Nat
  /\ EndOf(ReadHash) \in Nat
  /\ Chunks(CompleteBitfield(SizeOf(ReadHash)).size) = EndOf(ReadHash)
<1>1. ChunkSize \in Nat /\ ChunkSize >= 1
  BY ChunkAssumption, SMT
<1>2. \A n \in Nat : (n + ChunkSize - 1) \div ChunkSize \in Nat
  BY <1>1, SMT
<1>3. \A n \in BlobSize : Chunks(n) \in Nat
  BY <1>2 DEF BlobSize, Chunks
<1>4. SizeOf(ReadHash) \in BlobSize
  BY LeafFacts, SizeAssumption DEF SizeOf
<1>5. CompleteBitfield(SizeOf(ReadHash)).size = SizeOf(ReadHash)
  BY SMT DEF CompleteBitfield
<1> QED
  BY <1>3, <1>4, <1>5 DEF BitfieldType, EndOf

\* What has been sent when a task ends, or is dropped.
LEMMA ProgressEnds ==
  ASSUME NEW p \in Nat, NEW l \in Nat, l >= 1, NEW items, NEW reading, NEW end \in Nat,
         NEW w \in BOOLEAN, NEW up, w => end = EndOf(ReadHash),
         Progress(p, l, items, reading, end), up => reading = {}
  PROVE  Ended(p, l, w, up, items)
<1>1. CASE p < end
  <2>1. PICK k \in 0..l, e \in {p + l, end} :
          /\ e <= p + l /\ e <= end /\ p + k <= e
          /\ items = Leaves(p, k) /\ reading = p + k .. e - 1
    BY <1>1, SMT DEF Progress
  <2>2. reading = {} => k >= 1
    BY <1>1, <2>1, SMT
  <2> QED
    BY <2>1, <2>2 DEF Ended
<1>2. CASE ~(p < end)
  <2>1. p >= end /\ items \in {<<>>, <<DataItem(end, 0)>>} /\ end \in 0..p /\ 0 \in 0..l
    BY <1>2, SMT DEF Progress
  <2>2. CASE items = <<>>
    <3>1. items = Leaves(p, 0)
      BY <2>2, LeavesFacts, ZenonT(60)
    <3> QED
      BY <1>2, <2>1, <3>1 DEF Ended
  <2>3. CASE items = <<DataItem(end, 0)>>
    BY <2>1, <2>3 DEF Ended
  <2> QED
    BY <2>1, <2>2, <2>3
<1> QED
  BY <1>1, <1>2

\* The items of a stream are items.
LEMMA EndedItems ==
  ASSUME NEW p \in Nat, NEW l \in Nat, NEW w, NEW up, NEW items, Ended(p, l, w, up, items)
  PROVE  items \in Seq(ItemType)
<1>1. ASSUME NEW k \in 0..l PROVE Leaves(p, k) \in Seq(ItemType)
  <2>1. k \in Nat
    BY SMT
  <2> QED
    BY <2>1, LeavesFacts
<1>2. ASSUME NEW end \in 0..p PROVE <<DataItem(end, 0)>> \in Seq(ItemType)
  <2>1. end \in Nat
    BY <1>2, SMT
  <2> QED
    BY <2>1, ItemFacts
<1> QED
  BY <1>1, <1>2, ItemFacts, ZenonT(60) DEF Ended

\* The stream of a task that is dropped now.
LEMMA ServingEnds ==
  ASSUME NEW p \in Nat, NEW l \in Nat, l >= 1, NEW w \in BOOLEAN, NEW items, NEW r, NEW H,
         Serving(p, l, items, r), Knows(w, r, H)
  PROVE  Ended(p, l, w, FALSE, items) /\ items \in Seq(ItemType)
<1>1. CASE items = <<>>
  <2>1. 0 \in 0..l
    BY SMT
  <2>2. items = Leaves(p, 0)
    BY <1>1, NoLeaves
  <2>3. Ended(p, l, w, FALSE, items)
    BY <2>1, <2>2 DEF Ended
  <2> QED
    BY <1>1, <2>3, ItemFacts
<1>2. ASSUME NEW b \in BitfieldType, r.bits = {b},
             Progress(p, l, items, r.reading, Chunks(b.size))
      PROVE  Ended(p, l, w, FALSE, items)
  <2>1. Chunks(b.size) \in Nat /\ (w => Chunks(b.size) = EndOf(ReadHash))
    BY <1>2, EndFacts DEF Knows
  <2> QED
    BY <1>2, <2>1, ProgressEnds
<1>3. Ended(p, l, w, FALSE, items)
  BY <1>1, <1>2 DEF Serving
<1> QED
  BY <1>3, EndedItems

\* A stream that has sent nothing goes on when its items are taken.
LEMMA ServingTaken ==
  ASSUME NEW p \in Nat, NEW l \in Nat, l >= 1, NEW items, NEW r,
         Serving(p, l, items, r), reader.pos = p, ReadOf(items, Len(items)) = 0
  PROVE  Serving(p, l, <<>>, r)
<1>1. ASSUME NEW end \in Nat, Progress(p, l, items, r.reading, end)
      PROVE  Progress(p, l, <<>>, r.reading, end)
  <2>1. CASE p >= end
    BY <1>1, <2>1, SMT DEF Progress
  <2>2. CASE p < end
    <3>1. PICK k \in 0..l : items = Leaves(p, k)
      BY <1>1, <2>2, SMT DEF Progress
    <3>2. k \in Nat
      BY <3>1, SMT
    <3>3. Len(items) = k /\ ReadOf(items, k) = k
      BY <3>1, <3>2, LeavesFacts, LeavesRead, ZenonT(60)
    <3>4. k = 0
      BY <3>3
    <3>5. items = <<>>
      BY <3>1, <3>4, NoLeaves
    <3> QED
      BY <1>1, <3>5, SMT
  <2> QED
    BY <2>1, <2>2, SMT
<1> QED
  BY <1>1, EndFacts DEF Serving

\* The fields of a task that serves a reader.
LEMMA ServingFacts ==
  ASSUME MInv, NEW u \in Task, NEW p \in Nat, NEW l \in Nat, l >= 1, NEW items,
         Serving(p, l, items, tasks[u])
  PROVE  /\ Kind(u, "ranges") /\ tasks[u] \in RangesTask
         /\ tasks[u].bits = {} \/ \E b \in BitfieldType : tasks[u].bits = {b}
         /\ \A x \in tasks[u].from : tasks[u].from = {x} /\ x \in Handle
         /\ items \o <<>> = items
<1>1. Kind(u, "ranges")
  BY DEF Serving, Kind
<1>2. tasks[u] \in RangesTask /\ tasks[u].from \in Optional(Handle)
  BY <1>1, RangesFacts
<1>3. tasks[u].bits = {} \/ \E b \in BitfieldType : tasks[u].bits = {b}
  BY DEF Serving, Optional
<1>4. items \in Seq(ItemType)
  BY ServingEnds DEF Knows
<1>5. items \o <<>> = items
  BY <1>4, SMT
<1> QED
  BY <1>1, <1>2, <1>3, <1>5 DEF Optional

\* What a step of the task u does to a stream with these items.
Served(u, p, l, w, items) ==
  LET r == tasks'[u]
      new == items \o Sent(tasks[u])
  IN \/ r.kind = "ranges" /\ Serving(p, l, new, r) /\ Knows(w, r, handle')
     \/ r = [kind |-> "done"] /\ Ended(p, l, w, running', new)

\* export_ranges looks for the blob.
LEMMA StartRangesServes ==
  ASSUME MInv, NEW u \in Task, NEW p \in Nat, NEW l \in Nat, l >= 1, NEW w \in BOOLEAN, NEW items,
         Serving(p, l, items, tasks[u]), Knows(w, tasks[u], handle), StartRanges(u)
  PROVE  Served(u, p, l, w, items)
<1>1. /\ tasks[u].bits = {} /\ items = <<>> /\ tasks[u].reading = {} /\ handle' = handle
      /\ tasks[u].rest = << p .. p + l - 1 >> /\ tasks[u] \in RangesTask
      /\ tasks \in [Task -> TaskType] /\ items \o <<>> = items
  <2>1. tasks[u].bits = {} /\ handle' = handle
    BY DEF StartRanges
  <2>2. tasks[u] \in RangesTask /\ items \o <<>> = items
    BY ServingFacts
  <2>3. /\ tasks[u].rest = << p .. p + l - 1 >> /\ tasks[u].reading = {} /\ items = <<>>
    BY <2>1 DEF Serving
  <2> QED
    BY <2>1, <2>2, <2>3 DEF MInv, StoreTypes
<1>2. CASE tasks[u].from = {}
  <2>1. tasks'[u] = [kind |-> "done"]
    BY <1>1, <1>2 DEF StartRanges, Finishes, Becomes
  <2>2. Sent(tasks[u]) = <<Error>>
    BY <1>1, <1>2 DEF Sent, Error
  <2>3. <<>> \o <<Error>> = <<Error>>
    BY ItemFacts, SMT
  <2>4. items \o Sent(tasks[u]) = <<Error>>
    BY <1>1, <2>2, <2>3
  <2> QED
    BY <2>1, <2>4 DEF Served, Ended
<1>3. CASE tasks[u].from # {}
  <2>1. PICK obj \in tasks[u].from :
          tasks' = [tasks EXCEPT ![u] = [tasks[u] EXCEPT !.bits = {handle[obj].bits}]]
    BY <1>3 DEF StartRanges, Becomes
  <2>2. obj \in Handle /\ tasks[u].from = {obj}
    BY ServingFacts
  <2>3. Sent(tasks[u]) = <<>>
    BY <1>1, <1>3 DEF Sent
  <2>4. PICK r : r = tasks'[u]
    OBVIOUS
  <2>5. /\ r.kind = "ranges" /\ r.from = {obj} /\ r.bits = {handle[obj].bits}
        /\ r.rest = << p .. p + l - 1 >> /\ r.reading = {}
    BY <1>1, <2>1, <2>2, <2>4 DEF RangesTask
  <2>6. r.bits \in Optional(BitfieldType)
    BY <2>2, <2>5, HandlePresent DEF Optional
  <2>7. w => handle[obj].bits = CompleteBitfield(SizeOf(ReadHash))
    <3>1. w => obj[1] = ReadHash /\ handle[obj].complete
      BY DEF Knows
    <3>2. w => handle[obj] = CompleteStorage(ReadHash)
      BY <2>2, <3>1, HandlePresent DEF Backed
    <3> QED
      BY <3>2, SMT DEF CompleteStorage
  <2>8. Knows(w, r, handle')
    BY <1>1, <2>2, <2>5, <2>7 DEF Knows
  <2>9. Serving(p, l, items, r)
    BY <1>1, <2>5, <2>6 DEF Serving
  <2> QED
    BY <1>1, <2>3, <2>4, <2>5, <2>8, <2>9 DEF Served
<1> QED
  BY <1>2, <1>3

\* export_ranges begins the range, refuses it, or has come to its end.
LEMMA NextRangeServes ==
  ASSUME MInv, NEW u \in Task, NEW p \in Nat, NEW l \in Nat, l >= 1, NEW w \in BOOLEAN, NEW items,
         Serving(p, l, items, tasks[u]), Knows(w, tasks[u], handle), NextRange(u),
         reader.pos = p
  PROVE  Served(u, p, l, w, items)
<1>1. /\ tasks[u].reading = {} /\ handle' = handle /\ tasks[u] \in RangesTask
      /\ tasks \in [Task -> TaskType] /\ items \o <<>> = items
  BY ServingFacts DEF NextRange, MInv, StoreTypes
<1>2. PICK b \in BitfieldType : tasks[u].bits = {b}
  BY ServingFacts DEF NextRange
<1>3. PICK end \in Nat : end = Chunks(b.size) /\ (w => end = EndOf(ReadHash))
  BY <1>2, EndFacts DEF Knows
<1>4. (CHOOSE c \in tasks[u].bits : TRUE) = b
  BY <1>2
<1>5. tasks[u].bits # {}
  BY <1>2
<1>6. CASE tasks[u].rest = <<>>
  <2>1. tasks'[u] = [kind |-> "done"]
    BY <1>1, <1>2, <1>6 DEF NextRange, Finishes, Becomes
  <2>2. Sent(tasks[u]) = <<>>
    BY <1>1, <1>5, <1>6 DEF Sent
  <2>3. << p .. p + l - 1 >> # <<>>
    BY SMT
  <2>4. Progress(p, l, items, {}, end)
    BY <1>1, <1>2, <1>3, <1>6, <2>3 DEF Serving
  <2>5. Ended(p, l, w, running', items)
    BY <1>3, <2>4, ProgressEnds
  <2> QED
    BY <1>1, <2>1, <2>2, <2>5 DEF Served
<1>7. CASE tasks[u].rest # <<>>
  <2>1. tasks[u].rest = << p .. p + l - 1 >> /\ items = <<>>
    BY <1>7 DEF Serving
  <2>2. Head(tasks[u].rest) = p .. p + l - 1 /\ Tail(tasks[u].rest) = <<>>
    BY <2>1, SMT
  <2>3. PICK range : range = (p .. p + l - 1) \cap 0 .. end - 1
    OBVIOUS
  <2>4. CASE ~(range \subseteq b.ranges)
    <3>1. tasks'[u] = [kind |-> "done"]
      BY <1>1, <1>2, <1>3, <1>7, <2>2, <2>3, <2>4 DEF NextRange, Finishes, Becomes
    <3>2. Sent(tasks[u]) = <<Error>>
      BY <1>1, <1>3, <1>4, <1>5, <1>7, <2>2, <2>3, <2>4, ZenonT(60) DEF Sent, Error
    <3>3. <<>> \o <<Error>> = <<Error>>
      BY ItemFacts, SMTT(30)
    <3>4. items \o Sent(tasks[u]) = <<Error>>
      BY <2>1, <3>2, <3>3
    <3> QED
      BY <3>1, <3>4 DEF Served, Ended
  <2>5. CASE range \subseteq b.ranges
    <3>1. tasks' = [tasks EXCEPT ![u] = [tasks[u] EXCEPT !.reading = range, !.rest = <<>>]]
      BY <1>1, <1>2, <1>3, <1>7, <2>2, <2>3, <2>5 DEF NextRange, Becomes
    <3>2. PICK r : r = tasks'[u]
      BY ZenonT(60)
    <3>3. /\ r.kind = "ranges" /\ r.from = tasks[u].from /\ r.bits = {b}
          /\ r.rest = <<>> /\ r.reading = range
      BY <1>1, <1>2, <3>1, <3>2 DEF RangesTask
    <3>4. Knows(w, r, handle')
      BY <1>1, <1>2, <3>3 DEF Knows
    <3>5. Sent(tasks[u]) = IF range = {} THEN <<DataItem(IF p < end THEN p ELSE end, 0)>> ELSE <<>>
      BY <1>1, <1>3, <1>4, <1>5, <1>7, <2>2, <2>3, <2>5 DEF Sent
    <3>6. Progress(p, l, items \o Sent(tasks[u]), range, end)
      <4>1. CASE p < end
        <5>1. PICK e \in {p + l, end} : e <= p + l /\ e <= end /\ range = p .. e - 1 /\ p < e
          BY <2>3, <4>1, SMT
        <5>2. range # {}
          BY <5>1, SMT
        <5>3. items \o Sent(tasks[u]) = <<>>
          BY <1>1, <2>1, <3>5, <5>2
        <5>4. <<>> = Leaves(p, 0) /\ p + 0 = p /\ 0 \in 0..l /\ p <= e
          BY <5>1, NoLeaves, SMT
        <5> QED
          BY <4>1, <5>1, <5>3, <5>4 DEF Progress
      <4>2. CASE ~(p < end)
        <5>1. range = {} /\ p >= end
          BY <2>3, <4>2, SMT
        <5>2. Sent(tasks[u]) = <<DataItem(end, 0)>>
          BY <3>5, <4>2, <5>1
        <5>3. <<>> \o <<DataItem(end, 0)>> = <<DataItem(end, 0)>>
          BY SMT
        <5>4. items \o Sent(tasks[u]) = <<DataItem(end, 0)>>
          BY <2>1, <5>2, <5>3
        <5> QED
          BY <5>1, <5>4 DEF Progress
      <4> QED
        BY <4>1, <4>2, ZenonT(60)
    <3>7. Serving(p, l, items \o Sent(tasks[u]), r)
      BY <1>3, <3>3, <3>6 DEF Serving
    <3> QED
      BY <3>2, <3>3, <3>4, <3>7 DEF Served
  <2> QED
    BY <2>4, <2>5
<1> QED
  BY <1>6, <1>7

\* export_ranges sends the next chunk.
LEMMA ReadRangeServes ==
  ASSUME MInv, NEW u \in Task, NEW p \in Nat, NEW l \in Nat, l >= 1, NEW w \in BOOLEAN, NEW items,
         Serving(p, l, items, tasks[u]), Knows(w, tasks[u], handle), ReadRange(u)
  PROVE  Served(u, p, l, w, items)
<1>1. /\ tasks[u].reading # {} /\ handle' = handle /\ tasks[u] \in RangesTask
      /\ tasks \in [Task -> TaskType]
  BY ServingFacts DEF ReadRange, MInv, StoreTypes
<1>2. PICK b \in BitfieldType :
        /\ tasks[u].rest = <<>> /\ tasks[u].bits = {b}
        /\ Progress(p, l, items, tasks[u].reading, Chunks(b.size))
  BY <1>1 DEF Serving
<1>3. PICK end \in Nat : end = Chunks(b.size)
  BY EndFacts
<1>4. PICK k \in 0..l, e \in {p + l, end} :
        /\ p < end /\ e <= p + l /\ e <= end /\ p + k <= e
        /\ items = Leaves(p, k) /\ tasks[u].reading = p + k .. e - 1
  BY <1>1, <1>2, <1>3 DEF Progress
<1>5. p + k < e
  BY <1>1, <1>4, SMT
<1>6. First(tasks[u].reading) = p + k
  <2>1. /\ p + k \in p + k .. e - 1 /\ \A d \in p + k .. e - 1 : p + k <= d
        /\ \A c \in p + k .. e - 1 : c <= p + k => c = p + k
    BY <1>4, <1>5, SMT
  <2>2. (CHOOSE c \in p + k .. e - 1 : \A d \in p + k .. e - 1 : c <= d) = p + k
    BY <2>1
  <2> QED
    BY <1>4, <2>2 DEF First
<1>7. Sent(tasks[u]) = <<DataItem(p + k, 1)>>
  <2>1. tasks[u].bits # {}
    BY <1>2
  <2> QED
    BY <1>1, <1>6, <2>1 DEF Sent
<1>8. items \o Sent(tasks[u]) = Leaves(p, k + 1)
  <2>1. k \in Nat
    BY <1>4, SMT
  <2> QED
    BY <1>4, <1>7, <2>1, LeavesFacts
<1>9. PICK r : r = tasks'[u]
  OBVIOUS
<1>10. tasks' = [tasks EXCEPT ![u] = [tasks[u] EXCEPT !.reading = @ \ {First(@)}]]
  BY DEF ReadRange, Becomes
<1>11. /\ r.kind = "ranges" /\ r.from = tasks[u].from /\ r.bits = {b} /\ r.rest = <<>>
       /\ r.reading = tasks[u].reading \ {p + k}
  BY <1>1, <1>2, <1>6, <1>9, <1>10 DEF RangesTask
<1>12. r.reading = p + (k + 1) .. e - 1 /\ k + 1 \in 0..l /\ p + (k + 1) <= e
  BY <1>4, <1>5, <1>11, SMT
<1>13. Progress(p, l, Leaves(p, k + 1), r.reading, end)
  BY <1>4, <1>12 DEF Progress
<1>14. Serving(p, l, items \o Sent(tasks[u]), r)
  BY <1>3, <1>8, <1>11, <1>13 DEF Serving
<1>15. Knows(w, r, handle')
  BY <1>1, <1>2, <1>11 DEF Knows
<1> QED
  BY <1>9, <1>11, <1>14, <1>15 DEF Served


-----------------------------------------------------------------------------
(* Steps of the reader *)

\* A reader whose stream has changed, or was asked for.
LEMMA StreamChanges ==
  ASSUME RInv, reader.st = "reading", NEW op \in OpType, NEW w \in BOOLEAN,
         reader' = [reader EXCEPT !.op = op, !.whole = w],
         \/ op = [phase |-> "asked", task |-> NoTask, items |-> <<>>]
         \/ /\ op.phase = "open" /\ op.task \in Task
            /\ Serving(reader.pos, reader.len, op.items, tasks'[op.task])
            /\ Knows(w, tasks'[op.task], handle')
         \/ op.phase = "closed" /\ Ended(reader.pos, reader.len, w, running', op.items)
  PROVE  RInv'
<1>1. reader \in ReaderType /\ reader.pos = reader.at /\ ~reader.eof /\ reader.len >= 1
  BY DEF RInv, ReaderInStep
<1>2. /\ reader' \in ReaderType /\ reader'.st = "reading" /\ reader'.pos = reader.pos
      /\ reader'.len = reader.len /\ reader'.op = op /\ reader'.at = reader.at
      /\ reader'.eof = reader.eof /\ reader'.whole = w
  BY <1>1, ZenonT(60) DEF ReaderType
<1>3. ReaderInStep'
  BY <1>1, <1>2, SMT DEF ReaderInStep
<1>4. Streaming(reader', tasks', handle', running')
  BY <1>2 DEF Streaming
<1> QED
  BY <1>1, <1>2, <1>3, <1>4, SMT DEF RInv

\* What is known of a reader that reads.
LEMMA ReadingFacts ==
  ASSUME RInv, reader.st = "reading"
  PROVE  /\ reader \in ReaderType /\ reader.pos \in Nat /\ reader.len \in Nat
         /\ reader.len >= 1 /\ reader.whole \in BOOLEAN /\ reader.op \in OpType
         /\ reader.pos = reader.at /\ ~reader.eof
         /\ \A op : [reader EXCEPT !.op = op] = [reader EXCEPT !.op = op, !.whole = reader.whole]
         /\ Ended(reader.pos, reader.len, reader.whole, FALSE, reader.op.items)
<1>1. /\ reader \in ReaderType /\ reader.len >= 1 /\ reader.pos = reader.at /\ ~reader.eof
      /\ Streaming(reader, tasks, handle, running)
  BY DEF RInv, ReaderInStep
<1>2. /\ reader.pos \in Nat /\ reader.len \in Nat /\ reader.whole \in BOOLEAN
      /\ reader.op \in OpType
      /\ \A op : [reader EXCEPT !.op = op] = [reader EXCEPT !.op = op, !.whole = reader.whole]
  BY <1>1, ZenonT(60) DEF ReaderType
<1>3. CASE reader.op = [phase |-> "asked", task |-> NoTask, items |-> <<>>]
  <2>1. reader.op.items = <<>>
    BY <1>3, SMT
  <2>2. 0 \in 0..reader.len
    <3>1. \A l \in Nat : 0 \in 0..l
      BY SMT
    <3> QED
      BY <1>2, <3>1
  <2>3. <<>> = Leaves(reader.pos, 0)
    BY <1>2, NoLeaves
  <2>4. Ended(reader.pos, reader.len, reader.whole, FALSE, reader.op.items)
    BY <2>1, <2>2, <2>3 DEF Ended
  <2> QED
    BY <1>1, <1>2, <2>4
<1>4. CASE reader.op.phase = "open"
  <2>1. reader.op # [phase |-> "asked", task |-> NoTask, items |-> <<>>]
    BY <1>4, SMT
  <2>2. /\ Serving(reader.pos, reader.len, reader.op.items, tasks[reader.op.task])
        /\ Knows(reader.whole, tasks[reader.op.task], handle)
    BY <1>1, <1>4, <2>1 DEF Streaming
  <2> QED
    BY <1>1, <1>2, <2>2, ServingEnds
<1>5. CASE Ended(reader.pos, reader.len, reader.whole, running, reader.op.items)
  BY <1>1, <1>2, <1>5 DEF Ended
<1> QED
  BY <1>1, <1>2, <1>3, <1>4, <1>5 DEF Streaming

\* A reader that does not read is left alone by the store.
LEMMA IdleReader ==
  ASSUME RInv, reader.st # "reading", reader' = reader, running' => running
  PROVE  RInv'
BY DEF RInv, ReaderInStep

\* The store does not act on the stream.
LEMMA ReaderWaits ==
  ASSUME MInv, RInv, reader' = reader, running' => running,
         \A x \in Handle : handle[x].complete => handle'[x].complete,
         reader.op.phase = "open" /\ reader.op.task \in Task =>
           tasks'[reader.op.task] = tasks[reader.op.task]
  PROVE  RInv'
<1>1. CASE reader.st # "reading"
  BY <1>1, IdleReader
<1>2. CASE reader.st = "reading"
  <2>1. /\ reader \in ReaderType /\ reader.pos \in Nat /\ reader.len \in Nat
        /\ reader.len >= 1 /\ reader.whole \in BOOLEAN /\ reader.op \in OpType
    BY <1>2, ReadingFacts
  <2>2. reader' = [reader EXCEPT !.op = reader.op, !.whole = reader.whole]
    BY <2>1, ZenonT(60) DEF ReaderType
  <2>3. Streaming(reader, tasks, handle, running)
    BY <1>2 DEF RInv
  <2>4. CASE reader.op = [phase |-> "asked", task |-> NoTask, items |-> <<>>]
    BY <1>2, <2>1, <2>2, <2>4, StreamChanges
  <2>5. CASE /\ reader.op.phase = "open" /\ reader.op.task \in Task
             /\ Serving(reader.pos, reader.len, reader.op.items, tasks[reader.op.task])
             /\ Knows(reader.whole, tasks[reader.op.task], handle)
    <3>1. tasks'[reader.op.task] = tasks[reader.op.task]
      BY <2>5
    <3>2. \A x \in tasks[reader.op.task].from : x \in Handle
      BY <2>1, <2>5, ServingFacts
    <3>3. Knows(reader.whole, tasks'[reader.op.task], handle')
      BY <2>5, <3>1, <3>2 DEF Knows
    <3> QED
      BY <1>2, <2>1, <2>2, <2>5, <3>1, <3>3, StreamChanges
  <2>6. CASE /\ reader.op.phase = "closed"
             /\ Ended(reader.pos, reader.len, reader.whole, running, reader.op.items)
    <3>1. Ended(reader.pos, reader.len, reader.whole, running', reader.op.items)
      BY <2>6 DEF Ended
    <3> QED
      BY <1>2, <2>1, <2>2, <2>6, <3>1, StreamChanges
  <2> QED
    BY <2>3, <2>4, <2>5, <2>6 DEF Streaming
<1> QED
  BY <1>1, <1>2

\* A step of the store, which may be one of the task that serves the reader.
LEMMA StoreStepInStep == ASSUME MInv, RInv, StoreStep PROVE RInv'
<1>1. /\ running' => running
      /\ \A x \in Handle : handle[x].complete => handle'[x].complete
  BY StoreFrame DEF StoreStep
<1>2. reader \in ReaderType /\ reader' = [reader EXCEPT !.op = StreamAfter(reader.op)]
  BY SMT DEF StoreStep, RInv
<1>3. CASE \/ reader.op.phase # "open"
           \/ tasks'[reader.op.task] = tasks[reader.op.task]
  <2>1. StreamAfter(reader.op) = reader.op
    BY <1>3 DEF StreamAfter
  <2>2. reader' = reader
    BY <1>2, <2>1, SMT DEF ReaderType
  <2> QED
    BY <1>1, <1>3, <2>2, ReaderWaits
<1>4. CASE reader.op.phase = "open" /\ tasks'[reader.op.task] # tasks[reader.op.task]
  <2>1. reader.st = "reading"
    <3>1. NoOp.phase = "none"
      BY SMT DEF NoOp
    <3> QED
      BY <1>4, <3>1 DEF RInv
  <2>2. PICK p \in Nat, l \in Nat, w \in BOOLEAN, op \in OpType, items \in Seq(ItemType) :
          /\ p = reader.pos /\ l = reader.len /\ l >= 1 /\ w = reader.whole /\ op = reader.op
          /\ items = op.items
    <3>1. reader.op.items \in Seq(ItemType)
      BY <2>1, ReadingFacts, EndedItems
    <3> QED
      BY <2>1, <3>1, ReadingFacts
  <2>3. PICK u \in Task : /\ u = op.task /\ Serving(p, l, items, tasks[u])
                          /\ Knows(w, tasks[u], handle)
    <3>1. op # [phase |-> "asked", task |-> NoTask, items |-> <<>>] /\ op.phase # "closed"
      BY <1>4, <2>2, SMT
    <3>2. Streaming(reader, tasks, handle, running)
      BY <2>1 DEF RInv
    <3> QED
      BY <2>2, <3>1, <3>2 DEF Streaming
  <2>4. op.phase = "open" /\ tasks'[u] # tasks[u] /\ reader' = [reader EXCEPT !.op = StreamAfter(op), !.whole = w]
    BY <1>2, <1>4, <2>1, <2>2, <2>3, ReadingFacts
  <2>5. Kind(u, "ranges")
    BY <2>2, <2>3, ServingFacts
  <2>6. CASE tasks'[u] = NoTask /\ ~running'
    <3>1. StreamAfter(op) = [op EXCEPT !.phase = "closed", !.task = NoTask]
      BY <2>3, <2>4, <2>6 DEF StreamAfter
    <3>2. PICK o : o = StreamAfter(op)
      OBVIOUS
    <3>3. o \in OpType /\ o.phase = "closed" /\ o.items = items
      BY <2>2, <3>1, <3>2, ZenonT(60) DEF OpType
    <3>4. Ended(p, l, w, FALSE, items)
      BY <2>2, <2>3, ServingEnds
    <3>5. Ended(p, l, w, running', items)
      BY <2>6, <3>4 DEF Ended
    <3> QED
      BY <2>1, <2>2, <2>4, <3>2, <3>3, <3>5, StreamChanges
  <2>7. CASE StartRanges(u) \/ NextRange(u) \/ ReadRange(u)
    <3>1. Served(u, p, l, w, items)
      BY <2>2, <2>3, <2>7, StartRangesServes, NextRangeServes, ReadRangeServes, ZenonT(60)
    <3>2. PICK new : new = items \o Sent(tasks[u])
      OBVIOUS
    <3>3. PICK o : o = StreamAfter(op)
      OBVIOUS
    <3>4. NoTask.kind = "none"
      BY DEF NoTask
    <3>5. CASE /\ tasks'[u].kind = "ranges" /\ Serving(p, l, new, tasks'[u])
               /\ Knows(w, tasks'[u], handle')
      <4>1. tasks'[u] # NoTask
        BY <3>4, <3>5
      <4>2. o = [op EXCEPT !.items = new]
        BY <2>2, <2>3, <2>4, <3>2, <3>3, <3>5, <4>1 DEF StreamAfter
      <4>3. new \in Seq(ItemType)
        BY <2>2, <3>5, ServingEnds
      <4>4. o \in OpType /\ o.phase = "open" /\ o.task = u /\ o.items = new
        BY <2>2, <2>3, <2>4, <4>2, <4>3, SMT DEF OpType
      <4> QED
        BY <2>1, <2>2, <2>4, <3>3, <3>5, <4>4, StreamChanges
    <3>6. CASE tasks'[u] = [kind |-> "done"] /\ Ended(p, l, w, running', new)
      <4>1. tasks'[u].kind = "done" /\ tasks'[u] # NoTask
        BY <3>6, SMTT(30) DEF NoTask
      <4>2. tasks'[u].kind # "ranges"
        BY <4>1, SMT
      <4>3. o = [phase |-> "closed", task |-> NoTask, items |-> new]
        BY <2>2, <2>3, <2>4, <3>2, <3>3, <4>1, <4>2 DEF StreamAfter
      <4>4. new \in Seq(ItemType)
        BY <3>6, EndedItems, ZenonT(60)
      <4>5. o \in OpType /\ o.phase = "closed" /\ o.items = new
        BY <4>3, <4>4, SMT DEF OpType
      <4> QED
        BY <2>1, <2>2, <2>4, <3>3, <3>6, <4>5, StreamChanges
    <3> QED
      BY <3>1, <3>2, <3>5, <3>6 DEF Served
  <2> QED
    BY <2>4, <2>5, <2>6, <2>7, RangesStep DEF StoreStep
<1> QED
  BY <1>3, <1>4


\* The store takes the request of the reader, or is gone.
LEMMA AskExportInStep == ASSUME MInv, RInv, NEW t \in Task, AskExport(t) PROVE RInv'
<1>1. reader.st = "reading"
  <2>1. NoOp.phase = "none" /\ reader.op.phase = "asked"
    BY SMT DEF NoOp, AskExport
  <2> QED
    BY <2>1 DEF RInv
<1>2. PICK p \in Nat, l \in Nat : p = reader.pos /\ l = reader.len /\ l >= 1
  BY <1>1, ReadingFacts
<1>3. CASE ~running
  <2>1. PICK o : o = [phase |-> "closed", task |-> NoTask, items |-> <<Error>>]
    OBVIOUS
  <2>2. reader' = [reader EXCEPT !.op = o]
    BY <1>3, <2>1 DEF AskExport, Error
  <2>3. reader' = [reader EXCEPT !.op = o, !.whole = reader.whole]
    BY <1>1, <2>2, ReadingFacts
  <2>4. o \in OpType /\ o.phase = "closed" /\ o.items = <<Error>>
    BY <2>1, ItemFacts, SMT DEF OpType
  <2>5. Ended(p, l, reader.whole, running', o.items) /\ reader.whole \in BOOLEAN
    BY <1>1, <2>4, ReadingFacts DEF Ended
  <2> QED
    BY <1>1, <1>2, <2>3, <2>4, <2>5, StreamChanges
<1>4. CASE running
  <2>1. PICK w \in BOOLEAN : w = \E x \in Get(ReadHash) : handle[x].complete
    OBVIOUS
  <2>2. PICK o : o = [phase |-> "open", task |-> t, items |-> <<>>]
    OBVIOUS
  <2>3. reader' = [reader EXCEPT !.op = o, !.whole = w]
    BY <1>4, <2>1, <2>2 DEF AskExport
  <2>4. o \in OpType /\ o.phase = "open" /\ o.task = t /\ o.items = <<>>
    BY <2>2, ItemFacts, SMT DEF OpType
  <2>5. PICK r : /\ r = tasks'[t] /\ r.kind = "ranges" /\ r.from = Get(ReadHash)
                 /\ r.rest = << p .. p + l - 1 >> /\ r.reading = {}
                 /\ r.bits \in {{}, {CompleteBitfield(SizeOf(x[1])) : x \in Get(ReadHash)}}
                 /\ handle' = handle
    <3>1. tasks \in [Task -> TaskType] /\ ReadRanges = << p .. p + l - 1 >>
      BY <1>2 DEF MInv, StoreTypes, ReadRanges
    <3>2. CASE Readonly
      <4>1. Spawn(t, ReadonlyRanges(ReadHash, ReadRanges)) /\ handle' = handle
        BY <1>4, <3>2 DEF AskExport, blobVars
      <4>2. tasks'[t] = ReadonlyRanges(ReadHash, ReadRanges)
        BY <3>1, <4>1 DEF Spawn
      <4>3. /\ tasks'[t].kind = "ranges" /\ tasks'[t].from = Get(ReadHash)
            /\ tasks'[t].rest = ReadRanges /\ tasks'[t].reading = {}
            /\ tasks'[t].bits = {CompleteBitfield(SizeOf(x[1])) : x \in Get(ReadHash)}
        BY <4>2, SMT DEF ReadonlyRanges
      <4> QED
        BY <3>1, <4>1, <4>3
    <3>3. CASE ~Readonly
      <4>1. SpawnRanges(t, ReadHash, ReadRanges)
        BY <1>4, <3>3 DEF AskExport
      <4>2. /\ tasks'[t] = [kind |-> "ranges", from |-> Get(ReadHash), bits |-> {},
                            rest |-> ReadRanges, reading |-> {}]
            /\ handle' = handle
        BY <3>1, <4>1 DEF SpawnRanges, Spawn, blobVars
      <4>3. /\ tasks'[t].kind = "ranges" /\ tasks'[t].from = Get(ReadHash)
            /\ tasks'[t].rest = ReadRanges /\ tasks'[t].reading = {} /\ tasks'[t].bits = {}
        BY <4>2, SMT
      <4> QED
        BY <3>1, <4>2, <4>3
    <3> QED
      BY <3>2, <3>3
  <2>6. \A x \in Get(ReadHash) : x[1] = ReadHash /\ Get(ReadHash) = {x}
    BY SMT DEF Get
  <2>7. \A b \in r.bits : b = CompleteBitfield(SizeOf(ReadHash))
    BY <2>5, <2>6
  <2>8. r.bits \in Optional(BitfieldType)
    <3>1. CompleteBitfield(SizeOf(ReadHash)) \in BitfieldType
      BY StorageFacts DEF CompleteStorage, Storage
    <3>2. r.bits = {} \/ r.bits = {CompleteBitfield(SizeOf(ReadHash))}
      BY <2>7
    <3> QED
      BY <3>1, <3>2 DEF Optional
  <2>9. Knows(w, r, handle')
    <3>1. w => \E x \in Get(ReadHash) : handle[x].complete
      BY <2>1, ZenonT(60)
    <3>2. w => \A x \in Get(ReadHash) : x[1] = ReadHash /\ handle[x].complete
      BY <2>6, <3>1
    <3> QED
      BY <2>5, <2>7, <3>2 DEF Knows
  <2>10. Serving(p, l, <<>>, r)
    BY <2>5, <2>8 DEF Serving
  <2> QED
    BY <1>1, <1>2, <2>3, <2>4, <2>5, <2>9, <2>10, StreamChanges
<1> QED
  BY <1>3, <1>4

\* The task of a stream that was given up ends.
LEMMA AbandonedInStep == ASSUME MInv, RInv, NEW t \in Task, AbandonedEnds(t) PROVE RInv'
<1>1. /\ tasks' = [tasks EXCEPT ![t] = [kind |-> "done"]] /\ t # reader.op.task
      /\ handle' = handle /\ running' = running /\ reader' = reader
  BY DEF AbandonedEnds, Finishes, Becomes, InTask
<1>2. tasks \in [Task -> TaskType]
  BY DEF MInv, StoreTypes
<1> QED
  BY <1>1, <1>2, ReaderWaits

\* The reader in a state other than Reading.
LEMMA NotReading ==
  ASSUME NEW rd \in ReaderType, reader' = rd, rd.st # "reading", rd.op = NoOp,
         rd.st = "idle" => rd.pos = rd.at,
         rd.st = "poisoned" /\ rd.whole => rd.misused \/ rd.pos > EndOf(ReadHash),
         rd.eof /\ rd.whole /\ running' => rd.at >= EndOf(ReadHash)
  PROVE  RInv'
BY SMT DEF RInv, ReaderInStep

\* The stream of a reader that has none, or has just asked for one.
LEMMA NoOpFacts ==
  /\ NoOp \in OpType
  /\ [NoOp EXCEPT !.phase = "asked"] = [phase |-> "asked", task |-> NoTask, items |-> <<>>]
  /\ [phase |-> "asked", task |-> NoTask, items |-> <<>>] \in OpType
BY ItemFacts, SMT DEF NoOp, OpType

\* A call that is refused leaves the reader Poisoned.
LEMMA RefusedInStep == ASSUME RInv, reader' = Refused PROVE RInv'
<1>1. reader \in ReaderType
  BY DEF RInv
<1>2. PICK rd : rd = Refused
  OBVIOUS
<1>3. /\ rd \in ReaderType /\ rd.st = "poisoned" /\ rd.op = NoOp /\ rd.misused /\ ~rd.eof
  BY <1>1, <1>2, NoOpFacts, ZenonT(60) DEF ReaderType, Refused, Poisoned
<1> QED
  BY <1>2, <1>3, NotReading, SMT

\* poll_read starts an export.
LEMMA StartReadInStep == ASSUME RInv, NEW len \in Lengths, StartRead(len) PROVE RInv'
<1>1. CASE reader.pos + len > MaxPos
  BY <1>1, RefusedInStep DEF StartRead
<1>2. CASE ~(reader.pos + len > MaxPos)
  <2>1. reader \in ReaderType /\ reader.st = "idle" /\ reader.pos = reader.at
    BY DEF RInv, ReaderInStep, StartRead, Call
  <2>2. reader' = [reader EXCEPT !.st = "reading", !.len = len, !.eof = FALSE,
                     !.op = [phase |-> "asked", task |-> NoTask, items |-> <<>>]]
    BY <1>2, NoOpFacts DEF StartRead
  <2>3. len \in Nat /\ len >= 1
    BY ReaderAssumption, SMT
  <2>4. /\ reader' \in ReaderType /\ reader'.st = "reading" /\ ~reader'.eof
        /\ reader'.pos = reader'.at /\ reader'.len >= 1
        /\ reader'.op = [phase |-> "asked", task |-> NoTask, items |-> <<>>]
    BY <2>1, <2>2, <2>3, NoOpFacts, ZenonT(60) DEF ReaderType
  <2>5. Streaming(reader', tasks', handle', running')
    BY <2>4 DEF Streaming
  <2>6. ReaderInStep'
    BY <2>4, SMT DEF ReaderInStep
  <2> QED
    BY <2>4, <2>5, <2>6, SMT DEF RInv
<1> QED
  BY <1>1, <1>2

\* start_seek and poll_complete
LEMMA SeekInStep == ASSUME RInv, StartSeek \/ PollComplete PROVE RInv'
<1>1. CASE reader' = Refused
  BY <1>1, RefusedInStep
<1>2. reader \in ReaderType
  BY DEF RInv
<1>3. ASSUME NEW pos \in 0..MaxPos, reader.st = "idle",
             reader' = [reader EXCEPT !.st = "seeking", !.pos = pos, !.eof = FALSE]
      PROVE  RInv'
  <2>1. pos \in Nat
    BY <1>3, ReaderAssumption, SMT
  <2>2. reader.op = NoOp
    BY <1>3, SMT DEF RInv
  <2>3. PICK rd : rd = [reader EXCEPT !.st = "seeking", !.pos = pos, !.eof = FALSE]
    OBVIOUS
  <2>4. rd \in ReaderType /\ rd.st = "seeking" /\ rd.op = NoOp /\ ~rd.eof
    BY <1>2, <2>1, <2>2, <2>3, ZenonT(60) DEF ReaderType
  <2> QED
    BY <1>3, <2>3, <2>4, NotReading, ZenonT(60)
<1>4. CASE PollComplete
  <2>1. PICK rd : rd = [Idle(reader.pos) EXCEPT !.at = reader.pos]
    OBVIOUS
  <2>2. rd \in ReaderType /\ rd.st = "idle" /\ rd.op = NoOp /\ ~rd.eof /\ rd.pos = rd.at
    BY <1>2, <2>1, NoOpFacts, ZenonT(60) DEF ReaderType, Idle
  <2>3. reader' = rd
    BY <1>4, <2>1 DEF PollComplete
  <2> QED
    BY <2>2, <2>3, NotReading, SMT
<1> QED
  BY <1>1, <1>3, <1>4 DEF StartSeek, Call

\* What poll_read finds in the stream.
LEMMA ReadFacts ==
  ASSUME RInv, reader.st = "reading", NEW items, items = reader.op.items,
         NEW leaves, leaves = DataOf(items)
  PROVE  /\ ReadOf(leaves, Len(leaves)) \in Nat
         /\ reader.whole /\ ~InOrder(leaves) => reader.pos > EndOf(ReadHash)
         /\ ~(Len(leaves) < Len(items)) => leaves = items
         /\ ~(Len(leaves) < Len(items)) /\ ReadOf(leaves, Len(leaves)) = 0 =>
              (reader.op.phase = "closed" /\ reader.whole /\ running =>
                 reader.pos >= EndOf(ReadHash))
<1>1. PICK p \in Nat, l \in Nat, w \in BOOLEAN :
        /\ p = reader.pos /\ l = reader.len /\ w = reader.whole
        /\ Ended(p, l, w, FALSE, items)
        /\ reader.op.phase = "closed" => Ended(p, l, w, running, items)
  <2>1. Streaming(reader, tasks, handle, running)
    BY DEF RInv
  <2>2. reader.op.phase = "closed" =>
          Ended(reader.pos, reader.len, reader.whole, running, items)
    <3>1. reader.op.phase = "closed" =>
            reader.op.phase # "open" /\
            reader.op # [phase |-> "asked", task |-> NoTask, items |-> <<>>]
      BY SMT
    <3> QED
      BY <2>1, <3>1 DEF Streaming
  <2> QED
    BY <2>2, ReadingFacts
<1>2. EndOf(ReadHash) \in Nat
  BY EndFacts
<1>3. CASE items = <<Error>>
  <2>1. leaves = <<>> /\ InOrder(leaves)
    BY <1>3, <1>1, NothingRead
  <2>2. Len(leaves) = 0 /\ Len(items) = 1
    BY <1>3, <2>1, SMT
  <2>3. ReadOf(leaves, 0) = 0
    <3>1. {j \in 1..0 : leaves[j].n = 1} = {}
      BY SMT
    <3> QED
      BY <3>1, FS_EmptySet DEF ReadOf
  <2> QED
    BY <2>1, <2>2, <2>3, SMT
<1>4. ASSUME NEW k \in 0..l, items = Leaves(p, k) PROVE
         /\ leaves = items /\ InOrder(leaves) /\ ReadOf(leaves, Len(leaves)) = k
  <2>1. k \in Nat
    BY <1>4, SMT
  <2>2. Len(items) = k
    <3>1. Len(Leaves(p, k)) = k
      BY <2>1, LeavesFacts, ZenonT(60)
    <3> QED
      BY <1>4, <3>1
  <2>3. DataOf(items) = items /\ InOrder(items) /\ ReadOf(items, k) = k
    <3>1. reader.pos = p
      BY <1>1
    <3> QED
      BY <1>4, <2>1, <3>1, LeavesRead
  <2>4. leaves = items
    BY <2>3
  <2> QED
    BY <2>2, <2>3, <2>4
<1>5. ASSUME NEW end \in 0..p, w => end = EndOf(ReadHash), items = <<DataItem(end, 0)>>
      PROVE  /\ leaves = items /\ ReadOf(leaves, Len(leaves)) = 0
             /\ w /\ ~InOrder(leaves) => p > EndOf(ReadHash)
             /\ w => p >= EndOf(ReadHash)
  <2>1. end \in Nat /\ end <= p /\ Len(items) = 1
    BY <1>5, SMT
  <2>2. leaves = items /\ ReadOf(leaves, Len(leaves)) = 0
    BY <1>5, <2>1, NothingRead
  <2>3. ~InOrder(leaves) => end # p
    BY <1>1, <1>5, <2>1, <2>2, NothingRead
  <2> QED
    BY <1>5, <2>1, <2>2, <2>3, SMT
<1>6. \/ items = <<Error>>
      \/ \E k \in 0..l : items = Leaves(p, k)
      \/ \E end \in 0..p : (w => end = EndOf(ReadHash)) /\ items = <<DataItem(end, 0)>>
  BY <1>1 DEF Ended
<1>7. ReadOf(leaves, Len(leaves)) \in Nat
  <2>1. \A k \in 0..l : k \in Nat
    BY SMT
  <2>2. CASE items # <<Error>>
    BY <1>4, <1>5, <1>6, <2>1, <2>2, SMT
  <2> QED
    BY <1>3, <2>2
<1>8. w /\ ~InOrder(leaves) => p > EndOf(ReadHash)
  <2>1. CASE items # <<Error>>
    BY <1>4, <1>5, <1>6, <2>1
  <2> QED
    BY <1>1, <1>3, <2>1
<1>9. ~(Len(leaves) < Len(items)) => leaves = items
  <2>1. CASE items # <<Error>>
    BY <1>4, <1>5, <1>6, <2>1
  <2> QED
    BY <1>3, <2>1
<1>10. ASSUME ~(Len(leaves) < Len(items)), ReadOf(leaves, Len(leaves)) = 0,
              reader.op.phase = "closed", w, running
       PROVE  p >= EndOf(ReadHash)
  <2>1. leaves = items /\ Ended(p, l, w, running, items)
    BY <1>1, <1>9, <1>10, ZenonT(60)
  <2>2. CASE items = <<Error>>
    BY <1>1, <1>3, <1>10, <2>2
  <2>3. ASSUME NEW k \in 0..l, items = Leaves(p, k), p < EndOf(ReadHash) => k >= 1
        PROVE  p >= EndOf(ReadHash)
    <3>1. k = 0
      BY <1>4, <1>10, <2>3
    <3> QED
      BY <1>2, <2>3, <3>1, SMT
  <2> QED
    BY <1>5, <1>10, <2>1, <2>2, <2>3 DEF Ended
<1> QED
  BY <1>1, <1>7, <1>8, <1>9, <1>10

\* poll_read goes on with what the stream has.
LEMMA ContinueReadInStep == ASSUME MInv, RInv, ContinueRead PROVE RInv'
<1>1. reader.st = "reading" /\ UNCHANGED vars
  BY DEF ContinueRead, Call
<1>2. PICK items, leaves, n :
        items = reader.op.items /\ leaves = DataOf(items) /\ n = ReadOf(leaves, Len(leaves))
  OBVIOUS
<1>3. /\ reader \in ReaderType /\ reader.pos \in Nat /\ reader.len \in Nat
      /\ reader.len >= 1 /\ reader.whole \in BOOLEAN /\ reader.op \in OpType
      /\ reader.pos = reader.at /\ ~reader.eof
  BY <1>1, ReadingFacts
<1>4. /\ tasks' = tasks /\ handle' = handle /\ running' = running
  BY <1>1 DEF vars, blobVars
<1>5. CASE ~InOrder(leaves)
  <2>1. PICK rd : rd = Poisoned
    OBVIOUS
  <2>2. /\ rd \in ReaderType /\ rd.st = "poisoned" /\ rd.op = NoOp /\ ~rd.eof
        /\ rd.pos = reader.pos /\ rd.whole = reader.whole
    BY <1>3, <2>1, NoOpFacts, ZenonT(60) DEF ReaderType, Poisoned
  <2>3. reader' = rd
    BY <1>2, <1>5, <2>1 DEF ContinueRead
  <2>4. rd.whole => rd.pos > EndOf(ReadHash)
    BY <1>1, <1>2, <1>5, <2>2, ReadFacts
  <2> QED
    BY <2>2, <2>3, <2>4, NotReading, SMT
<1>6. CASE InOrder(leaves) /\ Len(leaves) < Len(items)
  <2>1. PICK rd : rd = Idle(reader.pos)
    OBVIOUS
  <2>2. rd \in ReaderType /\ rd.st = "idle" /\ rd.op = NoOp /\ ~rd.eof /\ rd.pos = rd.at
    BY <1>3, <2>1, NoOpFacts, ZenonT(60) DEF ReaderType, Idle
  <2>3. reader' = rd
    BY <1>2, <1>6, <2>1 DEF ContinueRead
  <2> QED
    BY <2>2, <2>3, NotReading, SMTT(30)
<1>7. CASE InOrder(leaves) /\ ~(Len(leaves) < Len(items))
  <2>1. n \in Nat /\ leaves = items
    BY <1>1, <1>2, <1>7, ReadFacts
  <2>2. CASE reader.op.phase = "closed" \/ n > 0
    <3>1. PICK eof \in BOOLEAN : eof = (n = 0)
      OBVIOUS
    <3>2. PICK rd : rd = [Idle(reader.pos + n) EXCEPT !.at = reader.at + n, !.eof = eof]
      OBVIOUS
    <3>3. reader' = rd
      <4>1. Idle(reader.pos + n).at = reader.at
        BY <1>3, SMTT(30) DEF ReaderType, Idle
      <4> QED
        BY <1>2, <1>7, <2>2, <3>1, <3>2, <4>1 DEF ContinueRead
    <3>4. /\ rd \in ReaderType /\ rd.st = "idle" /\ rd.op = NoOp /\ rd.eof = eof
          /\ rd.pos = reader.pos + n /\ rd.at = reader.at + n /\ rd.whole = reader.whole
      <4>1. PICK pos \in Nat, at \in Nat : pos = reader.pos + n /\ at = reader.at + n
        BY <1>3, <2>1, SMT
      <4>2. rd = [[reader EXCEPT !.st = "idle", !.pos = pos, !.op = NoOp, !.eof = FALSE]
                    EXCEPT !.at = at, !.eof = eof]
        BY <3>2, <4>1 DEF Idle
      <4>3. /\ rd \in ReaderType /\ rd.st = "idle" /\ rd.op = NoOp /\ rd.eof = eof
            /\ rd.pos = pos /\ rd.at = at /\ rd.whole = reader.whole
        BY <1>3, <4>2, NoOpFacts, ZenonT(60) DEF ReaderType
      <4> QED
        BY <4>1, <4>3
    <3>5. rd.pos = rd.at
      BY <1>3, <3>4
    <3>6. ASSUME rd.eof, rd.whole, running PROVE rd.at >= EndOf(ReadHash)
      <4>1. n = 0 /\ reader.whole
        BY <3>1, <3>4, <3>6
      <4>2. reader.op.phase = "closed"
        BY <2>2, <4>1, SMT
      <4>3. reader.pos >= EndOf(ReadHash)
        BY <1>1, <1>2, <1>7, <3>6, <4>1, <4>2, ReadFacts
      <4> QED
        BY <1>3, <3>4, <4>1, <4>3, SMT
    <3> QED
      BY <1>4, <3>3, <3>4, <3>5, <3>6, NotReading, SMT
  <2>3. CASE ~(reader.op.phase = "closed" \/ n > 0)
    <3>1. n = 0 /\ reader.op.phase # "closed"
      BY <2>1, <2>3, SMT
    <3>2. PICK o : o = [reader.op EXCEPT !.items = <<>>]
      OBVIOUS
    <3>3. /\ o \in OpType /\ o.phase = reader.op.phase /\ o.task = reader.op.task /\ o.items = <<>>
          /\ o = [phase |-> reader.op.phase, task |-> reader.op.task, items |-> <<>>]
      BY <1>3, <3>2, ItemFacts, ZenonT(60) DEF OpType
    <3>4. reader' = [reader EXCEPT !.op = o, !.whole = reader.whole]
      <4>1. reader' = [reader EXCEPT !.op.items = <<>>]
        BY <1>2, <1>7, <2>3 DEF ContinueRead
      <4> QED
        BY <1>3, <3>2, <4>1, ZenonT(60) DEF ReaderType
    <3>5. CASE reader.op = [phase |-> "asked", task |-> NoTask, items |-> <<>>]
      <4>1. o = [phase |-> "asked", task |-> NoTask, items |-> <<>>]
        BY <3>3, <3>5, SMTT(30)
      <4> QED
        BY <1>1, <1>3, <3>3, <3>4, <4>1, StreamChanges
    <3>6. CASE /\ reader.op.phase = "open" /\ reader.op.task \in Task
               /\ Serving(reader.pos, reader.len, items, tasks[reader.op.task])
               /\ Knows(reader.whole, tasks[reader.op.task], handle)
      <4>1. Serving(reader.pos, reader.len, <<>>, tasks[reader.op.task])
        BY <1>2, <1>3, <2>1, <3>1, <3>6, ServingTaken, ZenonT(60)
      <4> QED
        BY <1>1, <1>3, <1>4, <3>3, <3>4, <3>6, <4>1, StreamChanges
    <3>7. Streaming(reader, tasks, handle, running)
      BY <1>1 DEF RInv
    <3> QED
      BY <1>2, <3>1, <3>5, <3>6, <3>7, ZenonT(60) DEF Streaming
  <2> QED
    BY <2>2, <2>3
<1> QED
  BY <1>5, <1>6, <1>7

\* The reader and its stream agree, whatever store, tasks and caller do.
LEMMA ReaderStep == MInv /\ RInv /\ [ReaderNext]_readerVars => RInv'
<1> SUFFICES ASSUME MInv, RInv, [ReaderNext]_readerVars PROVE RInv'
  OBVIOUS
<1>1. CASE UNCHANGED readerVars
  <2>1. reader' = reader /\ tasks' = tasks /\ handle' = handle /\ running' = running
    BY <1>1 DEF readerVars, vars, blobVars
  <2> QED
    BY <2>1, ReaderWaits
<1> QED
  BY <1>1, StoreStepInStep, AskExportInStep, AbandonedInStep, StartReadInStep,
     ContinueReadInStep, SeekInStep DEF ReaderNext

\* A new reader is idle at the start of the blob.
LEMMA ReaderBegins == ReaderSpecInit => RInv
<1> SUFFICES ASSUME ReaderSpecInit PROVE RInv
  OBVIOUS
<1>1. /\ reader \in ReaderType /\ reader.st = "idle" /\ reader.op = NoOp /\ ~reader.eof
      /\ reader.pos = reader.at
  BY NoOpFacts, SMT DEF ReaderSpecInit, ReaderInit, ReaderType
<1> QED
  BY <1>1, SMT DEF RInv, ReaderInStep

\* A reader stays where its caller thinks it is; reading a complete blob never
\* poisons it and finds the end only where it is, although the reads return as
\* soon as a part is there, the blob may be deleted meanwhile, and the store
\* goes on sending to streams that were given up (poll_read, poll_complete).
THEOREM ReaderStaysInStep == ReaderSpec => []ReaderInStep
<1>1. RInv => ReaderInStep
  BY DEF RInv
<1> QED
  BY <1>1, ReaderBegins, ReaderStep, StoreInvariant, PTL DEF ReaderSpec

===============================================================================
