----------------------------- MODULE ReadonlyMem -----------------------------
(***************************************************************************)
(* The read-only store in memory (src/store/readonly_mem.rs).  Its actor   *)
(* is that of MemStore without anything that writes: it has the same tasks *)
(* and the same clients that wait for it to be idle, and a map of complete *)
(* blobs that never changes.                                               *)
(***************************************************************************)
EXTENDS MemStore

CONSTANT Items  \* the blobs the store is made with

\* A store that is read-only serves no command that changes it.
ASSUME ReadonlyAssumption ==
  \A s \in Scenarios : "readonly" \in s =>
    s \cap {"bao", "observe", "import", "export", "delete", "tags", "temp", "batch"} = {}

Readonly == "readonly" \in scenario

\* ReadonlyMemStore::new.  The empty blob is there only if it is an item.
ReadonlyInit ==
  /\ TTInit
  /\ scenario \in Scenarios
  /\ made = [h \in Hash |-> IF h \in Items THEN 1 ELSE 0]
  /\ data = made
  /\ handle = [x \in Handle |-> IF x[1] \in Items THEN CompleteStorage(x[1]) ELSE NewPartial]
  /\ tags = [n \in Name |-> NoValue]
  /\ tasks = [t \in Task |-> NoTask]
  /\ waiting = {} /\ running = TRUE /\ deleted = {}

\* The commands it serves.  Imports, and changes of tags and blobs, are answered
\* with an error; tags and temp tags are not kept.
Serves(name) ==
  /\ Readonly /\ running /\ "serve" \in scenario
  /\ name \in {"observe", "bao", "path", "ranges"}

ReadonlySpawn(name, t, task) ==
  /\ Serves(name)
  /\ Spawn(t, task)
  /\ UNCHANGED <<blobVars, tags, waiting, running, ttVars>>

\* Command::Observe: one item; if there is no such blob the task never ends.
ReadonlyObserve(t, h) ==
  ReadonlySpawn("observe", t, [kind |-> IF Get(h) = {} THEN "pending" ELSE "sending", left |-> {}])

\* What export_bao and export_path have to send or write of a blob.
ReadonlyExport(t, name, h) ==
  ReadonlySpawn(name, t, [kind |-> "sending",
                          left |-> UNION {handle[x].data : x \in Get(h)}])

\* export_ranges: nothing is read from the entry but its size.
ReadonlyRanges(h, ranges) ==
  [kind |-> "ranges", from |-> Get(h), rest |-> ranges, reading |-> {},
   bits |-> {CompleteBitfield(SizeOf(x[1])) : x \in Get(h)}]

ReadonlyExportRanges(t, h, ranges) == ReadonlySpawn("ranges", t, ReadonlyRanges(h, ranges))

\* The next item; the task ends after the last, or when nobody takes it.
ReadonlySends(t) ==
  /\ Kind(t, "sending")
  /\ \/ tasks[t].left # {} /\ Becomes(t, [tasks[t] EXCEPT !.left = @ \ {First(@)}])
     \/ Finishes(t)
  /\ InTask /\ UNCHANGED <<handle, ttVars>>

ReadonlyNext ==
  /\ UNCHANGED scenario
  /\ \E t \in Task :
       \/ \E h \in Hash : ReadonlyObserve(t, h)
       \/ \E h \in Hash, name \in {"bao", "path"} : ReadonlyExport(t, name, h)
       \/ \E h \in Hash, ranges \in Requests : ReadonlyExportRanges(t, h, ranges)
       \/ ReadonlySends(t)

===============================================================================
