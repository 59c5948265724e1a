# Verification of iroh-blobs

TLA+ models of the iroh-blobs crate, the TLC configurations that check them and
the TLAPS proofs about them. Paths are relative to the repository; `entity_manager.rs:434`
style references name the line where the behaviour is.

## 1. The system

iroh-blobs stores content-addressed blobs (BLAKE3 hash, data, bao outboard) and
transfers verified ranges of them between peers.

| Part | Source | State | Operations | Interacts with |
|---|---|---|---|---|
| Entity manager | `store/fs/util/entity_manager.rs` | live map, actor pool, inboxes, entity actors | spawn, shutdown, drop; recycle, rerun | store actor (one entity per hash) |
| Store actor | `store/fs.rs` | temp tags, tasks, entity manager state | commands of the API; finish import, import/export bao, observe, export | metadata database, entities, temp tags |
| Blob handle | `store/fs/bao_file.rs` | `BaoFileStorage` of a hash: initial, loading, non existing, partial mem, partial file, complete, poisoned | load, write_batch, persist, into_complete | files, metadata database |
| Metadata database | `store/fs/meta.rs`, `meta/proto.rs`, `meta/tables.rs` | blobs, tags, inline tables; open transaction; protected set | get, update, set, delete, tags, sync, snapshot | delete set, redb |
| Entry state | `store/fs/entry_state.rs` | data and outboard location | union, split of inline data | metadata database |
| Delete set | `store/fs/delete_set.rs` | files to delete after commit | delete, protect, commit, clear | metadata database, blob handles, files |
| Garbage collection | `store/fs/gc.rs` | live set, tags, temp tags | mark, sweep, protect callback | tags, temp tags, metadata database |
| Temp tags | `util/temp_tag.rs` | counters per scope, hash and format | create, drop, scopes, list | store actors, gc |
| Import | `store/fs/import.rs` | import source, temp files | import bytes, stream, path | store actor |
| Memory stores | `store/mem.rs`, `store/readonly_mem.rs` | map of entries, tags | the same API, in memory | temp tags, gc |
| Range requests | `protocol.rs`, `protocol/range_spec.rs` | - | request types, chunk range (sequence) encoding | get, provider |
| Bitfield | `api/proto/bitfield.rs` | ranges and size | update, diff, validity | blob handles, observers |
| Get state machine | `get.rs`, `get/request.rs`, `get/error.rs` | position in the response stream | connected, start, header, content, closing | provider |
| Provider | `provider.rs` | stream pair | get, get many, observe, push | store, events |
| Provider events | `provider/events.rs` | event mask, client channel, request trackers | connect, request, throttle, updates | provider |
| Downloader | `api/downloader.rs` | providers per request | split, try providers in order, progress | remote, connection pool |
| Remote | `api/remote.rs` | local info | local, fetch, execute get / push / observe | get, store |
| Connection pool | `util/connection_pool.rs` | connections, idle queue, counters | get or connect, idle, shutdown | downloader |
| API | `api.rs`, `api/blobs.rs`, `api/tags.rs`, `api/proto.rs` | - | builds the messages to the store | store actor |
| Blob reader | `api/blobs/reader.rs` | reading, seeking, poisoned | read, seek | store |
| Hashes, tickets, sequences, collections | `hash.rs`, `ticket.rs`, `hashseq.rs`, `format/` | - | encoding | everything |

### Behaviours that are hard to get right

* callbacks spawned while their entity shuts down, is recycled, or has panicked;
* all queues are bounded, and actors wait for each other's queues;
* file system effects and database transactions are separate: a crash or an
  aborted transaction in between;
* garbage collection marks and sweeps while tags, temp tags and blobs come and go;
* stale bitfields, sizes and files of a hash that is deleted and created again;
* connections that close, time out or become idle while a request for them is queued;
* two ends of a stream that each walk the blobs of a request by themselves, over a stream
  that may end anywhere;
* progress, data and completion travel through bounded channels that one task reads.

## 2. The models

Each component is one module with its state as variables and one action per
handler or per step between two points where other tasks can run. The `MC*`
modules only define values for constants and symmetry sets.

| Module | Models | Uses |
|---|---|---|
| `EntityManager` | `entity_manager.rs` | |
| `TempTags` | `temp_tag.rs`, scopes and temp tags in the store actors | |
| `Gc` | `gc.rs` against a store in use | extends `TempTags` |
| `EntryState` | `entry_state.rs` | |
| `MetaStore` | what the metadata database promises (abstract) | |
| `MetaDb` | the actor of `meta.rs`, blobs and inline tables | extends `EntryState`, implements `MetaStore` |
| `BlobStore` | one hash end to end: handle, tasks, metadata row, delete set, files | extends `EntryState` |
| `Bitfield` | `bitfield.rs`: ranges with an open end, combine, diff, validity | |
| `Observe` | watch channel, forwarding task, `handle_observe`, observer | extends `Bitfield` |
| `RangeSpec` | `range_spec.rs`, `protocol.rs`: range sequences, iterators, wire form, builders | extends `Bitfield` |
| `Content` | `hashseq.rs`, and what a request selects of a blob | extends `RangeSpec` |
| `LocalInfo` | `remote.rs`: what of a request is here, what is missing | extends `Content` |
| `Requests` | building a request and fetching it into a store | extends `LocalInfo` |
| `Transfer` | one request from both ends: `get.rs`, `get/request.rs`, `provider.rs`, `provider/events.rs`, execution in `remote.rs` | extends `Content` |
| `Downloader` | `downloader.rs`: providers in turn, split requests, progress | extends `LocalInfo` |
| `ConnectionPool` | `connection_pool.rs` | |
| `MemStore` | `mem.rs`: actor, tasks, handles | extends `TempTags`, `Bitfield` |
| `ReadonlyMem` | `readonly_mem.rs` | extends `MemStore` |
| `BlobReader` | `reader.rs` over either memory store | extends `ReadonlyMem` |
| `*Proofs` | theorems about `EntityManager`, `TempTags`, `Gc`, `MetaDb`, `BlobStore`, `Bitfield`, `Observe`, `ConnectionPool`, `MemStore` and `BlobReader` | |

### EntityManager

The main actor has an inbox of user commands, the `live` map, the `pool` of
inactive actors and the channel `internal` on which entity actors give themselves
back. An entity actor is where `pc` says: running, sending `Shutdown` with its
receiver, in `on_shutdown`, sending `ShutdownComplete`, travelling in that message,
in the pool, or ending. The sender of an inbox is in `live`, its receiver moves with
the `Shutdown` message, the rest of the actor with `ShutdownComplete`; the model
keeps the three apart so that joining them again is something to check.
`HandleSpawn` covers all cases of `ActorState::spawn` (live entity, pooled actor,
new actor, full inbox: `Busy`, closed inbox: `Dead`), `TickShutdown`
and `TickShutdownComplete` those of `tick` (recycle, rerun, discard).
A callback is a name in `Call` that goes through sent, running and done and may then
be spawned again, so the number of callbacks in flight is bounded and the length of
a behaviour is not. A panic (`Panic`) ends the actor, as the unwinding of its task does.

### TempTags and Gc

A `TempTag` holds a weak pointer to the scope object that counts it. Since
`create` makes a new object for a scope that has ended, objects are named by scope and
generation. `Gc` adds the tags table, the blobs table, the protected set and the
collector, one step per call to the store: clear the protected set, list tags, list
temp tags, mark a root, list blobs, delete a batch. What a blob says when it is read as a
hash sequence is the constant `Links`: content does not change under a hash. History
variables remember what has been tagged ever since the run began.

### EntryState, MetaDb and MetaStore

Sizes that may be unknown are sets of at most one element. `MetaDb` has the tables
as committed (`disk`) and as the open transaction sees them (`tables`), a bounded
queue into which the command that ended a batch is pushed back, and the answers.
A handler that fails ends the actor. `MetaStore` is one table with atomic reads,
writes and syncs, part of which may not yet be durable, and a crash that loses
that part; `KeepsPromise` is the refinement.

### BlobStore

One hash, one size above the inline data threshold, two chunk groups. Files are the
set of chunk groups they hold, separately at the path (`file`), in the synced
part (`safe`) and behind open file descriptors (the `fd` of the handle), so that
renaming over or unlinking a file that is open does what the file system does. An import, a
download, an export in `TryReference` mode, a collector, the loader of the handle and the
metadata actor interleave at every await; `Crash` loses memory and the open
transaction, `PowerLoss` also what was not synced. A behaviour starts by choosing a
scenario: which operations take part and what may go wrong.

### Bitfield and Observe

A `ChunkRanges` is the set of chunk numbers in it; a range without an end contains
`MaxChunk`, the model's `u64::MAX`. The pipeline of `Observe` is the watch channel (which keeps
the last value only), the forwarding task, a bounded channel, `handle_observe`, which sends
one bitfield and then differences, and the observer, which combines them. Beside each
item on the stream the model keeps the value it stands for.

### RangeSpec, Content, LocalInfo and Requests

A `ChunkRangesSeq` is its list of offsets and ranges; `ToWire` and `FromWire` are the
conversions to and from the lists of differences that are serialized (integers to bytes is
left to the serializer). `LocalInfo` has `LocalForRequest`, `Missing` and
`IsLocal`, `Requests` a client that adds ranges to a builder in any order, builds, and then
fetches into a store that has received chunks from elsewhere: nothing if all is here, else what
`Missing` says, which fails for children when the hash sequence is not complete after the root.

### Transfer

The stream is a bounded sequence of items (sizes, chunks, resets and the end); no item says which
blob it belongs to. `walk` holds the two lists of blobs: the one the provider
loops over and the one the get state machine goes through. For a push the sender is
the client. The receiver moves through the states of `get.rs`; a store's import
task takes items from a bounded channel. A request without a store is one of the functions of
`get/request.rs`. Event modes decide whether connection and request are announced,
may be refused or throttled, and which updates are logged. Losing the connection, refusing,
a listener that goes away, cancellation and a failing import are enabled by `Faults`.

### ConnectionPool

Connection actors are futures inside the pool actor's task, so `ActorStep` needs that
the pool actor is not waiting for room in the queue of one of them (`held`). Calls and holders of
references are other tasks. An actor's number is never reused, so that messages about a
former connection of a node are told from those about the present one.

### Downloader

A download is one request, or the hash sequence first and then one part per child, at most
`MaxParallel` of them at a time. Each part asks the providers in order for what is
still missing (`LocalInfo`), writes progress into its own channel, and the
handler forwards the channels one after the other into the user's; at most `ReceiverCap` of them
wait for their turn. Connecting and transferring
are single steps that may fail part of the way. `Aborted` is the end of the handler's task from outside,
when the last `Downloader` is dropped, or by a panic: the user's channel just ends.

### MemStore, ReadonlyMem and BlobReader

Handles are named by hash and number, since tasks go on with the handle of a blob
that has been deleted and made again. Commands spawn tasks into a set the actor joins; a task
is a record with the kind of its command and its progress. `ReadonlyMem` is the
same actor over a map that never changes. `BlobReader` is a client: a state `Idle`,
`Reading`, `Seeking` or `Poisoned`, a position, and beside them where its caller
thinks it is (`at`). Positions count chunks.

## 3. What is checked

| Run | States | Shows |
|---|---|---|
| `em` | 51,660 | With soft shutdown, drop of the manager and panics at any time and all channels of size one: no two actors share an entity, no callback is lost or sees foreign state, every accepted callback is called, and after the drop all actors end. |
| `gc` | 196,510 | A run keeps what has been tagged since it began, members of sequences and held imports, and collects all the rest. |
| `meta` | 444,532 | The actor implements `MetaStore`; every command is answered; updates never downgrade; no handler meets an inconsistency; fixed thresholds leave no inline row behind. |
| `blob_crash` | 1,301,133 | Imports and a download with I/O errors and crashes, a download with power failures: database, bitfield file and handle never claim what the files do not hold. Downloads alone, as long as no restart interrupts them, leave no data, outboard or bitfield file that their entry does not account for, given an outboard above the inline threshold. |
| `blob_delete` | 150,978 | With a collector and an export at work, a held import keeps its entry, and imports end. |
| `observe` | 1,997 | What a remote observer has is a value the store had, and it learns of completion. |
| `requests` | 93,076 | Requests survive their encoding and all iterators; `is_complete` and `missing` are exact; a fetch leaves nothing missing. |
| `transfer` | 644,557 | An Ok is delivered data, a well-behaved provider is never called noncompliant, updates end with exactly one true terminal update, both ends and the import end. (That `get_unverified_size`, which reads one header, has read it when it is Ok holds by the shape of the model.) |
| `downloader` | 1,080,522 | An Ok is a complete download unless an import failed or the handler was aborted; one provider with everything is enough, except for an unsplit request for children without their whole sequence, which `execute_get_sink` cannot load then (`remote.rs:682`); every download ends. |
| `pool` | 283,109 | Entries of the map are living actors of their nodes, calls return, forgotten connections close. |
| `pool_hang` | violation | With a full queue the pool waits for ever (see Findings). |
| `mem_store` | 720,324 | Bitfields are backed by data and outboard, held imports are complete, idle waiters are told, `list` of temp tags is exact, and a reader stays in step with its caller. |

### Bounds

* `em`: two entities compete for two actors, one pool slot and two callbacks, with channels
  of size one, the hardest case for waiting: recycling across entities, a pool that
  overflows, reruns and queued callbacks all happen. Proofs cover all sizes.
* `gc`: a sequence and its member, two temp tags, one tag name that is moved, batches
  of one blob, so that clients act between any two deletions. Proofs cover all sizes, and scopes.
* `meta`: batches and queue of two, so that a batch can end by count, by a top level
  command or by its timeout. One hash, because handlers touch rows of
  different hashes independently; a delete names a set of hashes but only one exists here.
  One size, as content addressing gives every complete entry of a hash:
  `NeverInconsistent` says that only a size mismatch can end the actor.
* `blob_*`: two chunk groups are the least with a partial state; queue of two; one
  task of each kind, each of which may run again.
* `observe`: a blob of three chunks, the last half full, written in leaves of one or two; channels of two.
* `requests`, `transfer`, `downloader`: sequences of two or three children with a blob of two chunks
  whose last is half full, the empty blob, a blob of one chunk; requests for all, for the root
  alone, for the last chunk, past the end, with gaps, for nothing. Channels of one (and
  `ReceiverCap` one of 32: the handler waits to launch the third part).
* `pool`: room for one connection, two nodes, three calls, queues of two, three connection
  actors in a behaviour, one close from outside.
* `mem_store`: a blob of three chunks whose first two share a node of the tree, and the empty
  blob; two tasks at a time, two temp tags, one batch scope with two lives; the scenarios of
  `MCMemStore` are the sets of operations done at the same time.

### Fairness

* `EntityManager`: `select!` polls its branches in random order, so each branch that
  is ready again and again is taken (SF for `HandleSpawn` and `Tick`); tokio grants
  room in a channel in the order of the senders (SF for the sends of entity actors);
  callbacks and `on_shutdown` return (WF). Nothing is assumed of users or panics.
* `MetaDb`: the actor's task is scheduled and batch timeouts fire (WF of its steps).
* `BlobStore`: the metadata actor, the loader and the import are scheduled (WF); permits
  of the command channel and the delete-set lock are granted in order (SF).
* `Observe`: forwarding, handler and observer are scheduled (WF). `Transfer`: both ends, the
  import and the end of a closed connection (WF); no fault has to happen. A listener that stays reads:
  the provider awaits `tx.send` of the first and the last update of a transfer (`events.rs:256`, `events.rs:289`), so one
  that neither reads nor goes away would stop it, and `TransferEnds` does not speak of it.
* `Downloader`: handler, parts and the user who reads (WF). The steps that compute what
  is missing get theirs in the form `[]<>~Computing \/ []<><<ComputingEnds>>_vars`,
  which spares TLC their `ENABLED`.
* `ConnectionPool`: the pool's task and each started connection actor (WF); connecting
  ends, by the connect timeout if by nothing else. Holders of references need not drop them.

Deadlock is checked in `gc`, `meta`, `blob_crash` and `blob_delete`. The other
systems may stop: a manager that is shut down, a finished transfer or download, a request that is
fetched, a store after shutdown, a pool whose calls are all done.

### Findings

`pool_hang`: the connection actors are futures polled by the pool actor's own task, and `handle_msg`
(`connection_pool.rs:333`) awaits room in the queue of a connection actor. If that queue is full
no future is left to empty it and every call hangs, whereas
`get_or_connect` "is guaranteed to return after approximately [Options::connect_timeout]"
(`connection_pool.rs:416`). The queue holds 100 requests in the code (`connection_pool.rs:353`) and one in the run.

Further behaviours met while modelling explain qualifications in the properties. Those with a
configuration of their own are reproduced by running it with the module named:

| Configuration | Property that fails | Behaviour |
|---|---|---|
| `EntityManagerShutdownHang.cfg`, `MCEntityManager` | `ShutdownTerminates` | `ActorState::shutdown` (`entity_manager.rs:492`) awaits a send to each entity, also to one that is shutting down and whose inbox is full; nothing receives from that inbox until the main actor ticks, which it does not do in this loop |
| `GcShadowedSeq.cfg`, `MCGc` | `MembersKept` | `gc.rs:65` traverses a sequence only if its hash was not yet live, so a raw root with the same hash that comes first hides the members (`DESIGN.md:108`) |
| `BlobStoreDeleteRace.cfg`, `MCBlobStore` | `OwnedInPlace` | `finish_import_impl` (`fs.rs:1037`) calls `protect` before it sends its `Update`; a `Delete` of the hash handled in between marks the new files, and the next commit removes them under a complete entry |
| `TransferUnsized.cfg`, `MCTransfer` | `BlamesRightly` | for an entry without a size `export_bao_impl` (`fs.rs:1202`) sends nothing and succeeds, the provider goes on with the next blob, and the client takes what follows for data of this one: invalid data, which "a well-behaved provider should never" send (`get.rs:590`) |
| `DownloadAborted.cfg`, `MCDownloader` | `OkIsAlwaysComplete` | the handler of a download is a task in the `JoinSet` of the downloader's actor (`downloader.rs:44`); when the last `Downloader` is dropped, or the handler panics, the channel ends without an error and `complete()` (`downloader.rs:317`) returns Ok |
| `DownloadSwallowed.cfg`, `MCDownloader` | `OkIsAlwaysComplete` | the get driver does not look at the result of an import, so a download whose import failed may return Ok (`downloader.rs:424` says otherwise) |
| `PoolIdleInUse.cfg`, `MCConnectionPool` | `IdleUnused` | `ConnectionIdle` names a node (`connection_pool.rs:371`); when a request is handled between the sending of the message and its arrival, a connection in use is put on the idle list, and may be dropped for another. `ConnectionShutdown` likewise closes the successor of the connection it was sent for |
| `LocalBytes.cfg`, `MCRequests` | `LocalBytesExact` | `Bitfield::total_bytes` subtracts the start of a range from the size, so `local_bytes` underflows for a request whose ranges begin past the end of a blob that is here, such as the last chunk |
| `ReaderAbsent.cfg`, `MCMemStore` | `AbsentIsError` | a reader of a blob that has an entry but no size yet reads 0 bytes without an error (`blobs.rs:111`: "Any access to parts of the blob that are not present will result in an error.") |

These are reproduced by a scenario of `MCBlobStore` with the operations and events
named (the last by `Events` of `GcSafety.cfg`):

| Operations and events | Property that fails | Behaviour |
|---|---|---|
| import; power | `OwnedInPlace` without `PowerStays` | import renames without syncing |
| import, download; rename | `OwnedInPlace` | a rename that fails is logged and the import goes on: partial files under a complete entry |
| import, export; crash | `OwnedInPlace` | export moves the file before its `Set` commits, so a crash leaves an owned entry without a file |
| download, delete; crash | `BitfieldBacked` | a delete cut short between two files leaves a bitfield file, which the next download of the hash trusts |
| import, export; crossdev | `NoStrayFiles` | export across devices copies and leaves the owned file (comment at `fs.rs:1314`) |
| download, reference; none | `NoStrayFiles` | an import by reference orphans the data file of a partial download |
| `Gc`, Events `read_error` | `SteadyMembersKept` | a sequence that cannot be read is skipped and its members are deleted |

The qualifications also stand for these:

* callbacks queued behind one that panics are lost (`NoCallLost`);
* a value handed from a temp tag to a tag between the two listings of a run is seen by neither, and a
  temp tag made after the mark protects nothing by itself (`SteadyRootsKept` speaks of one value held
  throughout); one failed run ends the collector (`gc.rs:236`);
* a blob whose outboard becomes inline keeps its small outboard file until it is deleted (the runs have
  an outboard above the threshold); a blob completed in its first batch keeps its sizes file, which
  `NoStrayFiles` leaves out;
* `start_get_many` and `write_push_request` do not check `MAX_MESSAGE_SIZE`: the provider drops a request that
  is too long, which a get_many client sees as NotFound, as it does a transfer the provider's events abort;
* every request is announced as the `get` field of the event mask says (`events.rs:453`); its other fields for requests
  (`get_many`, `push`, `observe`) are never consulted, so that `DEFAULT` does not have the effect its comment names
  (`events.rs:181`: "Push requests are disabled by default."); the model has one mode for all requests;
* a task of the memory store that panics skips the idle check (`mem.rs:475`), and observing an unknown hash in
  the read-only store starts a task that never ends, so that waiting for an idle store does not return;
* a reader that reads past the end is Poisoned, a seek during a read or another seek poisons it too, and
  a store that shuts down during a read looks like the end of the blob (`ReaderInStep`).

## 4. What is proved

All theorems hold for every value of the constants that satisfies the named `ASSUME`s,
and TLC evaluates those in the runs.

| Module | Theorem | Property |
|---|---|---|
| `EntityManagerProofs` | `Invariance` | `IInv` |
| | `TypeCorrect` | `TypeOK`, with the bounds of all channels |
| | `OneActor` | two actors never work on one entity |
| | `TickNeverFails` | the error paths of `tick` are unreachable |
| | `SenderReceiver` | recycle and tick join the two ends of one channel |
| | `NoLeak` | a callback never sees a foreign or a closed state |
| | `CallsNotLost` | `NoCallLost`: a call is answered or still on its way |
| `TempTagsProofs` | `TempTagsListed` | `ListExact` |
| `GcProofs` | `CollectorInvariant` | `GcInv` |
| | `ImportsKept` | `HeldImportsStored` |
| | `RootsKept` | `SteadyRootsKept` |
| | `MembersOfRootsKept` | `SteadyMembersKept`, if no read of a stored sequence fails |
| | `GarbageCollected` | `RunCollectsGarbage` |
| `MetaDbProofs` | `Consistent` | `DbInv` |
| | `NoOrphan` | `NoOrphanRows` |
| | `HandlersConsistent` | `NeverInconsistent`, if a hash has one size |
| | `NeverDowngrades` | `UpdateNeverDowngrades` |
| | `Refines` | `KeepsPromise`: `MetaDb` implements `MetaStore` |
| `ObserveProofs` | `CombineCommutes` | combine does not depend on the order |
| | `CompleteStays` | no update takes anything from a complete bitfield |
| | `DiffRebuilds` | diff is an inverse of combine |
| | `ObserverExact` | `SeenIsStored` |
| `BlobStoreProofs` | `CommandsAnswered` | `QInv` |
| | `ImportsStored` | `ImportStored` |
| | `FilesAgree` | `FInv` |
| | `OwnedFilesInPlace` | `OwnedInPlace`, in the scenarios of `Calm` |
| | `HandleBacked` | `BitsBacked`, in the scenarios of `Calm` |
| | `BitfieldFileBacked` | `BitfieldBacked`, in the scenarios of `Calm` |
| `ConnectionPoolProofs` | `PoolInvariant` | `PInv` |
| | `MappedActorsAlive` | `MappedAlive` |
| | `RequestsNotLost` | the request of a waiting call is in one of three places |
| | `CountersExact` | the counter of a connection is the number of its references |
| `MemStoreProofs` | `StoreInvariant` | `MInv` |
| | `BitfieldsBacked` | `ReadsBacked` |
| | `HeldImports` | `HeldImportsComplete` |
| | `WaitersTold` | `WaitersNotForgotten` |
| | `MemTagsListed` | `ListExact` |
| | `ReaderStaysInStep` | `ReaderInStep` |

**Entity manager.** Assumed: channels have room for at least one message, as `mpsc::channel`
requires (the pool may have none), and `None` is no actor. None of the properties is inductive.
`OneActorPerEntity`, for example, depends on where the actor of an entity is when a spawn or
a tick acts on its handle. `IInv` adds: `ActorInv`, what each place `pc` implies for an actor's entity,
receiver and tasks; `LiveInv`, which actors an entry of `live` stands for; `MessageInv`, that an
internal message is the only one of its kind for an actor and matches its place; `PoolInv`, that
pooled actors are distinct, clean and unreachable. The step case has one lemma per action;
`Frame`, `StartActor` and `MoveActor` carry the parts that an action leaves alone.
`CallInv` follows an accepted callback from the inbox of the main actor to that of an actor which is
not free; together with `IInv` it gives `CallsNotLost`.

**Temp tags.** Assumed: there are finitely many tags, and `NoTag` is not one. `TTInv` says that
the counter of a value in an object of the map is the number of tags that point to the object and
stand for the value, that nothing points to an object before it is made, and that an object which
has left the map does not return; dropping a tag of an object that is gone must not count.

**Collector.** `GcInv` has four parts. `MarkInv`: a root held since the run began is collected, and
after its turn live; outside the mark and sweep phases only the callback makes anything live; what the
sweep has passed is deleted or protected. `MemberInv`: whatever is live is so because of the callback or a root that
has had its turn, hence a sequence that nothing else refers to is not yet live when its turn comes, and is
traversed. `HeldInv`: the blob of a held import was protected when it was written, or its temp tag was
listed when the protected set was cleared and ever since. Since this speaks of `list`, `TTInv` is
the fourth part: every step of `Gc` is a step of `TempTags` or leaves it alone (`TTSteps`).

**Metadata database.** `DbInv`: every inline entry has its row, in the committed tables and in those of the
open transaction, and every queued command is well formed. `Refines` maps the current table of
`MetaStore` to the tables the actor sees and its durable one to the committed tables; commit and abort
of a batch are `Persist` and `Crash`.

**Observers.** `Pipeline` follows a value through watch channel, queue and stream: values only grow, and each
item on the stream leads from the value before it to the one it stands for, by `DiffRebuilds`.

**Blob store.** Assumed (`MarkAssumption`): there is a size and a path, and the marks for no file, a dirty
file and no entry are none of the values beside them. `QInv` is about commands: a task that waits has either one command
in the queue of the metadata actor or its answer in the mail, and an answered import is in the current
row, protected from a collector that listed temp tags before it. It is inductive in every
scenario, with deletions, exports, crashes and power failures, and gives `ImportsStored`. `FInv`
is about files. What a partial handle claims is in the files it has open, what a complete one claims
in those it opened; a trusted bitfield file claims only what data and outboard hold, and hold
durably where power may fail; every entry that claims owned files, be it committed, in the open
transaction, in a queue, in the mail or in the hands of a task, is right about them (`OInv`).
`FInv` is stated for the scenarios of `Calm`: any mix of imports, references and downloads with
crashes and failing writes, or downloads with power failures. The restriction is needed: with a
collector `BlobStoreDeleteRace.cfg` violates `OwnedInPlace`, and an export moves the file away
before the entry says so. Crashes in exports and the collector stay with TLC.

**Connection pool.** Assumed (`PoolAssumption`): finitely many calls, limits and channels of at least one.
`PInv` says that every request of a waiting call is in exactly one of the pool's channel, the pool
actor's hands and the queues of connection actors (`OnePlace`), that the map names open, living
actors, and that one which has ended has no sender and an empty queue (`Alive`). `MappedAlive`
needs the last part, since a request is only handed to an actor whose queue is open.

**Memory stores and reader.** Assumed: requests are sequences of sets of chunks, a handle can be made
(`RequestAssumption`), a read-only store gets the commands it serves (`ReadonlyAssumption`), and
what a reader asks for is a range (`ReaderAssumption`). `MInv`: what the storage of
any handle claims, that of a deleted blob included, is in it (`HandlesBacked`); what a task has found present or
written stays (`TasksOK`), which is what makes the unlocked reads of `export_ranges_impl` safe; the blob of a
held temp tag is whole (`HeldWhole`). `TTInv` is part of it, since the store counts the temp tags of
its imports. `RInv` adds, for a reader in the state Reading, that its stream is not yet asked for, is being served by
a task whose items so far and whose rest continue from the reader's position, or has ended in one of three ways
(`Streaming`): whatever order the items are read in, the next position is that of the caller.

Only model-checked: all liveness (fairness is outside the prover); `NoStrayFiles`;
and `Requests`, `Transfer` and `Downloader`,
whose properties rest on the recursive definitions of `RangeSpec`.

## 5. Not modelled

* `BlobStore`: blobs below the inline data threshold (no data file; the rows are in
  `MetaDb`), `Copy` exports, the contents of external files, several sizes.
  Data and outboard of an import are renamed in one step. The sizes file holds a size
  per chunk written. A `force` delete is never asked for by the crate. The dispatch of
  commands to entity tasks in `fs.rs` is the entity manager's spawn.
* `MetaDb`: tags (in `Gc`, as far as the collector sees them), `Dump`. A batch timeout is
  not over before the first command of its batch. That the actor may die is in `MetaDb` only.
  `max_write_duration` is an option no code reads (`meta.rs:780`).
* `Gc`: files (in `BlobStore`); downloads are the appearance of a blob.
* `store/fs/import.rs`: reading, hashing and writing a temporary file is sequential and nobody else
  sees the file; `BlobStore` starts from its result.
* `Transfer`: hashing and verification. Content is taken to be what its hash says, so a provider that
  sends wrong data, and the errors of verification, do not occur. Statistics are left out.
* `BlobReader`: reads with another buffer size after a pending one. The code assumes there are none.
* Remote procedure calls: the local and the remote form of a request differ in who drops temp tags
  (`Remote`, `rpc`) and are otherwise the same channel.
* Encodings of hashes, tickets, collections and tags to bytes; the API layer where it only builds a
  message; metrics; test helpers. They have no state of their own.
