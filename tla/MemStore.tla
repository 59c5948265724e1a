------------------------------- MODULE MemStore -------------------------------
(***************************************************************************)
(* The store in memory (src/store/mem.rs): one actor handles commands and  *)
(* joins the tasks it has spawned for them; the tasks share the handles of *)
(* the blobs.                                                              *)
(*                                                                         *)
(* A handle is named by its hash and a number: a blob that is deleted and  *)
(* comes back gets a new one, while tasks go on with the old.  A blob's    *)
(* content is the set of chunks that have been written, its outboard the   *)
(* set of tree nodes whose hash pairs have.                                *)
(***************************************************************************)
EXTENDS Bitfield, TempTags, Sequences

CONSTANTS EMPTY,      \* Hash::EMPTY
          Size,       \* bytes of every other blob
          PathTo,     \* the nodes above each chunk
          Requests,   \* the ranges ExportRanges asks for, sequences of sets
          Name,       \* tags: numbers, in the order of their names
          NoValue,
          Task,       \* tasks in existence at the same time (a bound)
          Client,     \* clients that wait for the store to be idle
          Scenarios,  \* what clients do and what goes wrong: sets of names
          MaxHandle   \* handles a hash may get (a bound)

ASSUME SizeAssumption == Size \in BlobSize \ {0} /\ EMPTY \in Hash
ASSUME RequestAssumption == Requests \subseteq Seq(SUBSET Int) /\ MaxHandle \in Nat \ {0}

VARIABLES scenario,   \* one of Scenarios, fixed at the start
          data,       \* State::data: the number of each hash's handle, 0 for none
          made,       \* handles each hash has had
          handle,     \* BaoFileStorage of each handle
          tags,       \* State::tags
          tasks,      \* the JoinSet
          waiting,    \* idle_waiters
          running,    \* the actor has not been shut down
          deleted     \* hashes deleted since an import of them was finished

blobVars == <<data, made, handle, deleted>>
vars == <<scenario, blobVars, tags, tasks, waiting, running, ttVars>>

Handle == Hash \X (1..MaxHandle)
Leaf == 0 .. Chunks(Size) - 1
Node == UNION {PathTo[c] : c \in Leaf}

NoTask == [kind |-> "none"]

SizeOf(h) == IF h = EMPTY THEN 0 ELSE Size

\* BaoFileHandle::new_partial
NewPartial == [complete |-> FALSE, bits |-> EmptyBitfield, data |-> {}, outboard |-> {}]

\* CompleteStorage::new
CompleteStorage(h) ==
  [complete |-> TRUE, bits |-> CompleteBitfield(SizeOf(h)),
   data |-> IF h = EMPTY THEN {} ELSE Leaf, outboard |-> IF h = EMPTY THEN {} ELSE Node]

\* MemStore::new: the empty blob has its handle from the start.
Init ==
  /\ TTInit
  /\ scenario \in Scenarios
  /\ made = [h \in Hash |-> IF h = EMPTY THEN 1 ELSE 0]
  /\ data = made
  /\ handle = [x \in Handle |-> NewPartial]
  /\ tags = [n \in Name |-> NoValue]
  /\ tasks = [t \in Task |-> NoTask]
  /\ waiting = {}
  /\ running = TRUE
  /\ deleted = {}

-----------------------------------------------------------------------------
(* The actor *)

\* Actor::spawn
Spawn(t, task) == tasks[t] = NoTask /\ tasks' = [tasks EXCEPT ![t] = task]

\* Actor::get: a set of at most one handle.
Get(h) == IF data[h] = 0 THEN {} ELSE {<<h, data[h]>>}

\* Actor::get_or_create_entry
GetOrCreate(h) == <<h, IF data[h] = 0 THEN made[h] + 1 ELSE data[h]>>

CreateEntry(h) ==
  /\ GetOrCreate(h) \in Handle
  /\ data' = [data EXCEPT ![h] = GetOrCreate(h)[2]]
  /\ made' = [made EXCEPT ![h] = IF data[h] = 0 THEN @ + 1 ELSE @]

\* A command the scenario has, received by the running actor.
Command(name) == running /\ name \in scenario

\* Command::ImportBao.  A response for the empty blob has no content: the size
\* of an import is not 0.
ImportBao(t, h) ==
  /\ Command("bao") /\ h # EMPTY
  /\ CreateEntry(h)
  /\ Spawn(t, [kind |-> "bao", obj |-> GetOrCreate(h), got |-> {}])
  /\ UNCHANGED <<handle, deleted, tags, waiting, running, ttVars>>

\* Command::Observe: watching a blob nobody has creates an entry for it.
Observe(t, h) ==
  /\ Command("observe")
  /\ CreateEntry(h)
  /\ Spawn(t, [kind |-> "observe", obj |-> GetOrCreate(h)])
  /\ UNCHANGED <<handle, deleted, tags, waiting, running, ttVars>>

\* Command::ImportBytes, ImportByteStream, ImportPath
Import(t, s, v) ==
  /\ Command("import")
  /\ s \in Batch => batch[s] # "none"
  /\ Spawn(t, [kind |-> "import", scope |-> s, value |-> v])
  /\ UNCHANGED <<blobVars, tags, waiting, running, ttVars>>

\* Command::ExportRanges
SpawnRanges(t, h, ranges) ==
  /\ Spawn(t, [kind |-> "ranges", from |-> Get(h), bits |-> {}, rest |-> ranges, reading |-> {}])
  /\ UNCHANGED <<blobVars, tags, waiting, running, ttVars>>

ExportRanges(t, h, ranges) == Command("export") /\ SpawnRanges(t, h, ranges)

\* Command::ExportBao and ExportPath
Export(t, kind, h) ==
  /\ Command("export")
  /\ Spawn(t, [kind |-> kind, from |-> Get(h), started |-> FALSE, reading |-> {}])
  /\ UNCHANGED <<blobVars, tags, waiting, running, ttVars>>

\* Command::ListBlobs
ListBlobs(t) ==
  /\ Command("list")
  /\ Spawn(t, [kind |-> "list"])
  /\ UNCHANGED <<blobVars, tags, waiting, running, ttVars>>

\* Command::DeleteBlobs.  Nothing is ever put into Actor::protected, so force
\* makes no difference; the empty blob is not in the map.
DeleteBlobs(H) ==
  /\ Command("delete")
  /\ data' = [h \in Hash |-> IF h \in H \ {EMPTY} THEN 0 ELSE data[h]]
  /\ deleted' = deleted \cup (H \ {EMPTY})
  /\ UNCHANGED <<made, handle, tags, tasks, waiting, running, ttVars>>

\* The names a request from..to is about; either end may be left out.
InRange(from, to) == {n \in Name : (\A f \in from : f <= n) /\ (\A e \in to : n < e)}

\* Command::DeleteTags
DeleteTags(from, to) ==
  /\ Command("tags")
  /\ tags' = [n \in Name |-> IF n \in InRange(from, to) THEN NoValue ELSE tags[n]]
  /\ UNCHANGED <<blobVars, tasks, waiting, running, ttVars>>

\* Command::RenameTag; an unknown tag is an error.
RenameTag(from, to) ==
  /\ Command("tags")
  /\ tags[from] # NoValue
  /\ tags' = [[tags EXCEPT ![from] = NoValue] EXCEPT ![to] = tags[from]]
  /\ UNCHANGED <<blobVars, tasks, waiting, running, ttVars>>

\* Command::SetTag
SetTag(n, v) ==
  /\ Command("tags")
  /\ tags' = [tags EXCEPT ![n] = v]
  /\ UNCHANGED <<blobVars, tasks, waiting, running, ttVars>>

\* Command::CreateTag: Tag::auto takes a name that is not in use.
CreateTag(n, v) == tags[n] = NoValue /\ SetTag(n, v)

\* Actor::create_temp_tag
TempTagCommand(slot, s, v, rpc) ==
  /\ Command("temp")
  /\ CreateTempTag(slot, s, v, rpc)
  /\ UNCHANGED <<blobVars, tags, tasks, waiting, running>>

\* Command::Batch
BatchCommand(t, b) ==
  /\ Command("batch")
  /\ CreateScope(b)
  /\ Spawn(t, [kind |-> "batch", scope |-> b])
  /\ UNCHANGED <<blobVars, tags, waiting, running>>

NoTasks(ts) == \A t \in Task : ts[t] = NoTask

\* Command::WaitIdle
WaitIdle(c) ==
  /\ Command("wait")
  /\ waiting' = IF NoTasks(tasks) THEN waiting ELSE waiting \cup {c}
  /\ UNCHANGED <<blobVars, tags, tasks, running, ttVars>>

\* Command::Shutdown, or the last client is gone: the actor is dropped, and with
\* it its tasks and the channels of the clients that wait.
Shutdown ==
  /\ Command("shutdown")
  /\ running' = FALSE
  /\ tasks' = [t \in Task |-> NoTask]
  /\ waiting' = {}
  /\ UNCHANGED <<blobVars, tags, ttVars>>
-----------------------------------------------------------------------------
(* The tasks *)

Kind(t, kind) == tasks[t].kind = kind

Becomes(t, task) == tasks' = [tasks EXCEPT ![t] = task]
Finishes(t) == Becomes(t, [kind |-> "done"])

\* What every step of a task leaves to the actor.
InTask == UNCHANGED <<data, made, deleted, tags, waiting, running>>

\* A leaf in the storage x of a handle: written, and the storage replaced by a
\* complete one with the last chunk.  Vec::try_from refuses a file with gaps and
\* the task panics, the files already taken out of the storage.
WriteLeaf(x, c) ==
  LET update == Update(x.bits, NewBitfield({c}, Size))
      written == x.data \cup {c}
      complete == update.value.ranges = AllRanges
      gaps == written # Leaf \/ x.outboard # Node
  IN [complete |-> complete /\ ~gaps,
      bits     |-> update.value,
      data     |-> IF complete /\ gaps THEN {} ELSE written,
      outboard |-> IF complete /\ gaps THEN {} ELSE x.outboard]

\* import_bao: a pair of hashes, verified against its parents by the reader.
ImportParent(t, n) ==
  /\ Kind(t, "bao") /\ n \notin tasks[t].got
  /\ Becomes(t, [tasks[t] EXCEPT !.got = @ \cup {n}])
  /\ handle' = [handle EXCEPT ![tasks[t].obj].outboard = @ \cup {n}]
  /\ InTask /\ UNCHANGED ttVars

\* Faulty ImportLeaf: the storage counts as complete as soon as its size is
\* validated.
FaultyCompletesEarly(t, c) ==
  LET x == handle[tasks[t].obj] IN
  /\ Kind(t, "bao") /\ PathTo[c] \subseteq tasks[t].got
  /\ ~x.complete
  /\ handle' = [handle EXCEPT ![tasks[t].obj] =
                  IF c = Chunks(Size) - 1
                    THEN [WriteLeaf(x, c) EXCEPT !.complete = TRUE, !.bits = CompleteBitfield(Size)]
                    ELSE WriteLeaf(x, c)]
  /\ UNCHANGED tasks
  /\ InTask /\ UNCHANGED ttVars

\* import_bao: a leaf, after the pairs above it.  A complete entry is left alone.
ImportLeaf(t, c) ==
  /\ Kind(t, "bao") /\ PathTo[c] \subseteq tasks[t].got
  /\ LET obj == tasks[t].obj IN
       handle' = IF handle[obj].complete THEN handle
                 ELSE [handle EXCEPT ![obj] = WriteLeaf(handle[obj], c)]
  /\ UNCHANGED tasks
  /\ InTask /\ UNCHANGED ttVars

\* export_ranges: not found, or the bitfield is read, once.
StartRanges(t) ==
  /\ Kind(t, "ranges") /\ tasks[t].bits = {}
  /\ IF tasks[t].from = {} THEN Finishes(t)
     ELSE \E obj \in tasks[t].from : Becomes(t, [tasks[t] EXCEPT !.bits = {handle[obj].bits}])
  /\ InTask /\ UNCHANGED <<handle, ttVars>>

\* The next range, cut off at the size, must be there; otherwise, and after the
\* last one, the task ends.
NextRange(t) ==
  /\ Kind(t, "ranges") /\ tasks[t].reading = {}
  /\ \E bits \in tasks[t].bits :
       IF tasks[t].rest = <<>> THEN Finishes(t)
       ELSE LET range == Head(tasks[t].rest) \cap 0 .. Chunks(bits.size) - 1 IN
            IF range \subseteq bits.ranges
              THEN Becomes(t, [tasks[t] EXCEPT !.reading = range, !.rest = Tail(@)])
              ELSE Finishes(t)
  /\ InTask /\ UNCHANGED <<handle, ttVars>>

First(chunks) == CHOOSE c \in chunks : \A d \in chunks : c <= d

\* A chunk of the range is read and sent.
ReadRange(t) ==
  /\ Kind(t, "ranges") /\ tasks[t].reading # {}
  /\ Becomes(t, [tasks[t] EXCEPT !.reading = @ \ {First(@)}])
  /\ InTask /\ UNCHANGED <<handle, ttVars>>

\* export_bao and export_path: not found, or the size is read, once.
StartExport(t) ==
  /\ Kind(t, "export") \/ Kind(t, "path")
  /\ ~tasks[t].started
  /\ IF tasks[t].from = {} THEN Finishes(t)
     ELSE \E obj \in tasks[t].from :
            Becomes(t, [tasks[t] EXCEPT !.started = TRUE,
                                        !.reading = 0 .. Chunks(handle[obj].bits.size) - 1])
  /\ InTask /\ UNCHANGED <<handle, ttVars>>

\* What can be read of the storage x: a leaf is validated against the outboard
\* before it is sent; a file gets whatever lies before the last byte in memory,
\* gaps as zeros.
Readable(x, kind, c) ==
  IF kind = "path" THEN \E d \in x.data : c <= d
  ELSE c \in x.data /\ PathTo[c] \subseteq x.outboard

\* export_bao, export_path_impl: the next chunk; the task ends with the last one
\* or with an error.
ReadExport(t) ==
  /\ Kind(t, "export") \/ Kind(t, "path")
  /\ tasks[t].started
  /\ \E obj \in tasks[t].from :
       LET reading == tasks[t].reading IN
       IF reading # {} /\ Readable(handle[obj], tasks[t].kind, First(reading))
         THEN Becomes(t, [tasks[t] EXCEPT !.reading = @ \ {First(@)}])
         ELSE Finishes(t)
  /\ InTask /\ UNCHANGED <<handle, ttVars>>

\* import_bytes, import_byte_stream, import_path: the content has been read, or
\* reading it or telling the client of it has failed.
ImportReads(t, ok) ==
  /\ Kind(t, "import")
  /\ Becomes(t, IF ok THEN [tasks[t] EXCEPT !.kind = "imported"] ELSE [kind |-> "done"])
  /\ InTask /\ UNCHANGED <<handle, ttVars>>

\* import_bao has read its last item and answers; the client of an observer or
\* of a list goes away; the list is sent.
TaskEnds(t) ==
  /\ Kind(t, "bao") \/ Kind(t, "observe") \/ Kind(t, "list")
  /\ Finishes(t)
  /\ InTask /\ UNCHANGED <<handle, ttVars>>

\* import_bao: stream.recv().await.unwrap() when the connection to the client fails.
TaskPanics(t) ==
  /\ "panic" \in scenario
  /\ Kind(t, "bao")
  /\ Becomes(t, [kind |-> "panicked"])
  /\ InTask /\ UNCHANGED <<handle, ttVars>>

\* handle_batch_impl: the client drops a tag, or closes the batch.
BatchTask(t) ==
  /\ Kind(t, "batch")
  /\ LET b == tasks[t].scope IN
       \/ (\E slot \in Slot : BatchDrop(b, slot)) /\ UNCHANGED tasks
       \/ CloseBatch(b) /\ Becomes(t, [tasks[t] EXCEPT !.kind = "closed"])
  /\ InTask /\ UNCHANGED handle

-----------------------------------------------------------------------------
(* Joining tasks *)

\* The task is gone; if it was the last, the store is idle and says so.
Join(t) ==
  /\ running
  /\ Becomes(t, NoTask)
  /\ waiting' = IF NoTasks(tasks') THEN {} ELSE waiting
  /\ UNCHANGED <<tags, running>>

\* Faulty JoinUnit: the clients that wait are told only after an import.
FaultyJoinSilent(t) ==
  /\ running /\ Kind(t, "done")
  /\ Becomes(t, NoTask)
  /\ UNCHANGED <<blobVars, tags, waiting, running, ttVars>>

\* TaskResult::Unit, and imports that failed
JoinUnit(t) == Kind(t, "done") /\ Join(t) /\ UNCHANGED <<blobVars, ttVars>>

\* TaskResult::Scope
JoinScope(t) ==
  /\ Kind(t, "closed")
  /\ ClearScope(tasks[t].scope)
  /\ Join(t) /\ UNCHANGED blobVars

\* A task has panicked: log_task_result returns None, and the loop continues
\* without looking whether the store is idle.
JoinPanicked(t) ==
  /\ running /\ Kind(t, "panicked")
  /\ Becomes(t, NoTask)
  /\ UNCHANGED <<blobVars, tags, waiting, running, ttVars>>

\* A tag that is made for a client that is not there to take it, or that cannot
\* hold it because it is remote, is dropped at once.
CreateAndDrop(s) ==
  /\ ObjectOf(s) <= MaxGen
  /\ scopes' = [scopes EXCEPT ![s] = ObjectOf(s)]
  /\ gens' = [gens EXCEPT ![s] = ObjectOf(s)]
  /\ UNCHANGED <<counters, batch, tt>>

\* Faulty StoreImport: an entry that exists is not completed.
FaultyKeepsPartial(h) ==
  /\ CreateEntry(h)
  /\ handle' = IF data[h] = 0 THEN [handle EXCEPT ![GetOrCreate(h)] = CompleteStorage(h)]
               ELSE handle
  /\ deleted' = deleted \ {h}

\* finish_import: a partial entry becomes complete, in place.
StoreImport(h) ==
  /\ CreateEntry(h)
  /\ handle' = [handle EXCEPT ![GetOrCreate(h)] = CompleteStorage(h)]
  /\ deleted' = deleted \ {h}

\* finish_import: the entry first, then the temp tag, which is sent to the client.
JoinImport(t) ==
  /\ Kind(t, "imported")
  /\ StoreImport(tasks[t].value[1])
  /\ \/ \E slot \in Slot : Create(slot, tasks[t].scope, tasks[t].value, "user", TRUE)
     \/ CreateAndDrop(tasks[t].scope)
  /\ Join(t)

UserDropsTag(slot) ==
  /\ UserDrops(slot)
  /\ UNCHANGED <<blobVars, tags, tasks, waiting, running>>

-----------------------------------------------------------------------------
Value == Hash \X {"raw"}
Optional(S) == {{}} \cup {{x} : x \in S}

BlobCommand ==
  \/ \E t \in Task, h \in Hash : ImportBao(t, h) \/ Observe(t, h)
  \/ \E t \in Task, s \in Scope, v \in Value : Import(t, s, v)
  \/ \E t \in Task, h \in Hash, r \in Requests : ExportRanges(t, h, r)
  \/ \E t \in Task, h \in Hash, kind \in {"export", "path"} : Export(t, kind, h)
  \/ \E t \in Task : ListBlobs(t)
  \/ \E H \in (SUBSET Hash) \ {{}} : DeleteBlobs(H)
  \/ \E c \in Client : WaitIdle(c)
  \/ Shutdown

TagCommand ==
  \/ \E from, to \in Optional(Name) : DeleteTags(from, to)
  \/ \E from, to \in Name : RenameTag(from, to)
  \/ \E n \in Name, v \in HashAndFormat : SetTag(n, v)
  \/ \E n \in Name, v \in HashAndFormat : CreateTag(n, v)
  \/ \E slot \in Slot, s \in Scope, v \in HashAndFormat, rpc \in BOOLEAN :
       TempTagCommand(slot, s, v, rpc)
  \/ \E t \in Task, b \in Batch : BatchCommand(t, b)
  \/ \E slot \in Slot : UserDropsTag(slot)

TaskStep(t) ==
  \/ \E n \in Node : ImportParent(t, n)
  \/ \E c \in Leaf : ImportLeaf(t, c)
  \/ StartRanges(t) \/ NextRange(t) \/ ReadRange(t)
  \/ StartExport(t) \/ ReadExport(t)
  \/ \E ok \in BOOLEAN : ImportReads(t, ok)
  \/ TaskEnds(t) \/ TaskPanics(t) \/ BatchTask(t)
  \/ JoinUnit(t) \/ JoinScope(t) \/ JoinPanicked(t) \/ JoinImport(t)

Next ==
  /\ UNCHANGED scenario
  /\ \/ BlobCommand \/ TagCommand
     \/ \E t \in Task : TaskStep(t)

Spec == Init /\ [][Next]_vars

-----------------------------------------------------------------------------
(* Properties *)

\* What a bitfield claims can be read: the chunks are in memory and the hash
\* pairs above them in the outboard, whatever imports by stream and by bytes run
\* on one handle, and completing it never meets a gap (import_bao's unwrap).
\* An export that has checked its range against the bitfield it read once still
\* finds all of it, although the blob has been completed or deleted since.
ReadsBacked ==
  /\ \A x \in Handle : x[1] # EMPTY =>
       LET there == handle[x].bits.ranges \cap Leaf IN
       /\ there \subseteq handle[x].data
       /\ \A c \in there : PathTo[c] \subseteq handle[x].outboard
  /\ \A t \in Task : Kind(t, "ranges") =>
       \A x \in tasks[t].from : tasks[t].reading \subseteq handle[x].data

\* A client that holds the temp tag of an import finds the blob complete, until a
\* DeleteBlobs names it: the tag is sent after the entry is in the map, whichever
\* deletes and imports of the same hash came before (finish_import).
HeldImportsComplete ==
  running => \A slot \in Slot :
    tt[slot] # NoTag /\ tt[slot].imported /\ tt[slot].value[1] \notin deleted =>
      \E x \in Get(tt[slot].value[1]) : IsComplete(handle[x].bits)

\* A client that waits for the store to be idle is told by the task that ends
\* last: nobody waits for a store that has nothing to do (Actor::run).  A task
\* that panics is the exception.
WaitersNotForgotten ==
  "panic" \notin scenario /\ waiting # {} => ~NoTasks(tasks)

===============================================================================
