-------------------------------- MODULE MetaDb --------------------------------
(***************************************************************************)
(* The metadata database actor (store/fs/meta.rs): one task that takes     *)
(* commands from a bounded queue, answers reads from a read transaction,   *)
(* batches writes in a write transaction, and ends for good when a handler *)
(* returns an error.  The blobs table and the two inline tables are        *)
(* modelled; the tags table is in Gc and the files are in BlobStore.       *)
(***************************************************************************)
EXTENDS EntryState, FiniteSets, Sequences

CONSTANTS Hash, Client,
          Usages,        \* how the store is used: records of the entries that
                         \* are written and the clients that ask
          Absent,        \* no row in the blobs table
          MaxQueue,      \* capacity of the command channel (100 in the code)
          MaxWriteBatch, \* options.max_write_batch
          Events         \* what may go wrong: "crash", "io"

ASSUME EntryAssumption ==
  /\ \A u \in Usages : u.entries \subseteq EntryStates /\ u.clients \subseteq Client
  /\ Absent \notin EntryStates

VARIABLES usage,     \* one of Usages, fixed at the start
          disk,      \* the committed tables
          tables,    \* the tables as the open write transaction sees them
          txn,       \* is a write transaction open?
          n,         \* commands handled in it
          protected, \* Actor.protected
          queue,     \* cmds, with a pushed back command at its head
          status,    \* of the actor
          reply      \* what each client has been answered

vars == <<disk, tables, txn, n, protected, queue, status, reply>>
Entry == usage.entries

BlobsRow == EntryStates \union {Absent}
Tables == [blobs : [Hash -> BlobsRow], data : SUBSET Hash, outboard : SUBSET Hash]
EmptyTables == [blobs |-> [h \in Hash |-> Absent], data |-> {}, outboard |-> {}]

Idle == [kind |-> "none", table |-> {}]
Pending == [kind |-> "pending", table |-> {}]
Answer(kind, rows) == [kind |-> kind, table |-> rows]
Rows(t, H) == {<<h, t.blobs[h]>> : h \in {x \in H : t.blobs[x] # Absent}}

\* Update and Set name one hash, Delete a set of them. The crate sets only complete
\* entries (bao_file.rs:625, fs.rs:1315).
Write(op, H, e) == [op |-> op, hashes |-> H, entry |-> e]
Read(op, H) == [op |-> op, hashes |-> H, entry |-> Absent]

ReadWriteCommand(entries) ==
  {Write("Update", {h}, e) : h \in Hash, e \in entries}
    \union {Write("Set", {h}, e) : h \in Hash, e \in {x \in entries : IsComplete(x)}}
    \union {Write("Delete", H, Absent) : H \in (SUBSET Hash) \ {{}}}
ReadOnlyCommand ==
  {Read(op, {h}) : op \in {"Get", "Status"}, h \in Hash} \union {Read("ClearProtected", {})}
TopLevelCommand == {Read(op, {}) : op \in {"SyncDb", "Snapshot", "Shutdown"}}
Command ==
  [u \in Usages |-> ReadWriteCommand(u.entries) \union ReadOnlyCommand \union TopLevelCommand]

IsReadOnly(c) == c.op \in {"Get", "Status", "ClearProtected"}
IsTopLevel(c) == c.op \in {"SyncDb", "Snapshot", "Shutdown"}
NonTopLevel(c) == ~ IsTopLevel(c)

\* A message: the command and the client that awaits its answer, if any.
Message(cmd, C) == [cmd |-> cmd, from |-> C]
Head1 == Head(queue)
Cmd == Head1.cmd

Send(to, answer) == [c \in Client |-> IF c \in to THEN answer ELSE reply[c]]

TypeOK ==
  /\ disk \in Tables /\ tables \in Tables
  /\ txn \in BOOLEAN /\ n \in 0..MaxWriteBatch
  /\ protected \subseteq Hash
  /\ queue \in Seq([cmd : Command[usage], from : SUBSET Client])
  /\ status \in {"running", "stopped", "io", "inconsistent"}
  /\ DOMAIN reply = Client

Init ==
  /\ usage \in Usages
  /\ disk = EmptyTables /\ tables = EmptyTables
  /\ txn = FALSE /\ n = 0
  /\ protected = {} /\ queue = <<>> /\ status = "running"
  /\ reply = [c \in Client |-> Idle]

-----------------------------------------------------------------------------
\* update_await, set, get, snapshot, send: a client queues a command and waits.
Ask(c) ==
  /\ reply[c] # Pending /\ Len(queue) < MaxQueue
  /\ \E cmd \in Command[usage] :
       /\ status = "running"
       /\ queue' = Append(queue, Message(cmd, {c}))
  /\ reply' = [reply EXCEPT ![c] = Pending]
  /\ UNCHANGED <<disk, tables, txn, n, protected, status>>

\* update: a client queues an update and does not wait.
Notify ==
  /\ status = "running" /\ Len(queue) < MaxQueue
  /\ \E h \in Hash, e \in Entry :
       queue' = Append(queue, Message(Write("Update", {h}, e), {}))
  /\ UNCHANGED <<disk, tables, txn, n, protected, status, reply>>

-----------------------------------------------------------------------------
\* handle_update and handle_set write e to the row of h; inline parts go to the
\* inline tables whatever location the union has kept.
PutRow(t, h, row, e) ==
  [blobs |-> [t.blobs EXCEPT ![h] = row],
   data |-> IF HasInlineData(e) THEN t.data \union {h} ELSE t.data,
   outboard |-> IF HasInlineOutboard(e) THEN t.outboard \union {h} ELSE t.outboard]

\* Faulty UpdateTables: the new entry replaces the old one.
UpdateTablesNoUnion(t, h, e) == PutRow(t, h, e, e)

\* Faulty UpdateTables: the inline rows of the new entry are not written.
UpdateTablesNoRows(t, h, e) ==
  LET old == t.blobs[h] IN
  [t EXCEPT !.blobs[h] = IF old = Absent THEN e ELSE Union(old, e)]

UpdateTables(t, h, e) ==
  LET old == t.blobs[h] IN
  PutRow(t, h, IF old = Absent THEN e ELSE Union(old, e), e)

\* Faulty DeleteTables: the inline rows are left behind.
DeleteTablesKeepsRows(t, H) == [t EXCEPT !.blobs = [h \in Hash |-> IF h \in H THEN Absent ELSE t.blobs[h]]]

\* Actor::delete for the hashes H that are not protected (the crate never sets
\* force).
DeleteTables(t, H) ==
  LET gone == {h \in H : t.blobs[h] # Absent} IN
  [blobs |-> [h \in Hash |-> IF h \in gone THEN Absent ELSE t.blobs[h]],
   data |-> t.data \ {h \in gone : HasInlineData(t.blobs[h])},
   outboard |-> t.outboard \ {h \in gone : HasInlineOutboard(t.blobs[h])}]

\* An error of a handler ends the actor: the transaction is dropped, and so are
\* the queued commands, whose clients see their channel closed.
EndWith(why) ==
  /\ status' = why
  /\ tables' = disk /\ txn' = FALSE /\ n' = 0
  /\ queue' = <<>>
  /\ reply' = [c \in Client |-> IF reply[c] = Pending THEN Answer("failed", {}) ELSE reply[c]]
  /\ UNCHANGED <<disk, protected>>

\* The reads that find a row but not its inline data or outboard fail.
Inconsistent(t) ==
  \E h \in Cmd.hashes :
    /\ Cmd.op \in {"Get", "Status"}
    /\ t.blobs[h] # Absent
    /\ \/ HasInlineData(t.blobs[h]) /\ h \notin t.data
       \/ Cmd.op = "Get" /\ HasInlineOutboard(t.blobs[h]) /\ h \notin t.outboard

\* handle_get, handle_get_blob_status and handle_clear_protected.
HandleReadOnly(t) ==
  /\ IsReadOnly(Cmd)
  /\ IF Inconsistent(t)
     THEN EndWith("inconsistent")
     ELSE /\ protected' = IF Cmd.op = "ClearProtected" THEN {} ELSE protected
          /\ reply' = Send(Head1.from, Answer("rows", Rows(t, Cmd.hashes)))
          /\ queue' = Tail(queue)
          /\ n' = IF txn THEN n + 1 ELSE 0
          /\ UNCHANGED <<disk, tables, txn, status>>

\* run, Command::ReadOnly: no write transaction is open, so a read transaction
\* sees the committed tables for as long as it lasts.
ReadTransaction ==
  /\ status = "running" /\ ~ txn /\ queue # <<>>
  /\ HandleReadOnly(disk)

\* run, Command::ReadWrite: open the transaction; the command stays at the head.
BeginWrite ==
  /\ status = "running" /\ ~ txn /\ queue # <<>>
  /\ ~ IsReadOnly(Cmd) /\ NonTopLevel(Cmd)
  /\ txn' = TRUE /\ n' = 0 /\ tables' = disk
  /\ UNCHANGED <<disk, protected, queue, status, reply>>

InBatch ==
  /\ status = "running" /\ txn /\ queue # <<>>
  /\ n < MaxWriteBatch /\ NonTopLevel(Cmd)

Wrote ==
  /\ reply' = Send(Head1.from, Answer("ok", {}))
  /\ queue' = Tail(queue)
  /\ n' = n + 1
  /\ UNCHANGED <<disk, txn, status>>

HandleUpdate ==
  /\ InBatch /\ Cmd.op = "Update"
  /\ \E h \in Cmd.hashes :
       IF tables.blobs[h] # Absent /\ UnionFails(tables.blobs[h], Cmd.entry)
       THEN EndWith("inconsistent")
       ELSE /\ protected' = protected \union {h}
            /\ tables' = UpdateTables(tables, h, Cmd.entry)
            /\ Wrote

HandleSet ==
  /\ InBatch /\ Cmd.op = "Set"
  /\ \E h \in Cmd.hashes :
       /\ protected' = protected \union {h}
       /\ tables' = PutRow(tables, h, Cmd.entry, Cmd.entry)
  /\ Wrote

HandleDelete ==
  /\ InBatch /\ Cmd.op = "Delete"
  /\ tables' = DeleteTables(tables, Cmd.hashes \ protected)
  /\ Wrote /\ UNCHANGED protected

\* Faulty ReadInBatch: the read is served from the committed tables.
ReadInBatchStale == InBatch /\ HandleReadOnly(disk)

\* A read that follows a write in the queue sees the open transaction.
ReadInBatch == InBatch /\ HandleReadOnly(tables)

\* Faulty Commit: only a full batch is committed.
CommitWhenFull ==
  /\ status = "running" /\ txn /\ n = MaxWriteBatch
  /\ disk' = tables /\ txn' = FALSE /\ n' = 0
  /\ UNCHANGED <<tables, protected, queue, status, reply>>

\* The batch ends when it is full, when the next command is a top level one, or
\* when the timeout fires, so at any time after its first command (the timeout is
\* not over when the command that opened the batch is taken).
Commit ==
  /\ status = "running" /\ txn /\ n > 0
  /\ disk' = tables /\ txn' = FALSE /\ n' = 0
  /\ UNCHANGED <<tables, protected, queue, status, reply>>

-----------------------------------------------------------------------------
\* handle_toplevel: SyncDb and Snapshot.
TopLevel ==
  /\ status = "running" /\ ~ txn /\ queue # <<>>
  /\ \/ Cmd.op = "SyncDb" /\ reply' = Send(Head1.from, Answer("synced", {}))
     \/ Cmd.op = "Snapshot" /\ reply' = Send(Head1.from, Answer("snapshot", Rows(disk, Hash)))
  /\ queue' = Tail(queue)
  /\ UNCHANGED <<disk, tables, txn, n, protected, status>>

\* Shutdown: the loop ends, the database is closed, then the client is told.
Shutdown ==
  /\ status = "running" /\ ~ txn /\ queue # <<>> /\ Cmd.op = "Shutdown"
  /\ status' = "stopped" /\ queue' = <<>>
  /\ reply' = [c \in Client |->
                 IF c \in Head1.from THEN Answer("ok", {})
                 ELSE IF reply[c] = Pending THEN Answer("failed", {}) ELSE reply[c]]
  /\ UNCHANGED <<disk, tables, txn, n, protected>>

\* A storage error of redb in a handler or in a commit.
IoError == "io" \in Events /\ status = "running" /\ queue # <<>> /\ EndWith("io")

\* The process ends at any point and is started again.
Crash ==
  /\ "crash" \in Events \/ status # "running"
  /\ tables' = disk /\ txn' = FALSE /\ n' = 0
  /\ protected' = {} /\ queue' = <<>> /\ status' = "running"
  /\ reply' = [c \in Client |-> Idle]
  /\ UNCHANGED disk

\* What the actor does of its own accord while nothing goes wrong.
ActorStep ==
  \/ ReadTransaction \/ BeginWrite
  \/ HandleUpdate \/ HandleSet \/ HandleDelete \/ ReadInBatch \/ Commit
  \/ TopLevel \/ Shutdown

Next ==
  /\ UNCHANGED usage
  /\ \/ \E c \in usage.clients : Ask(c)
     \/ Notify \/ ActorStep \/ IoError \/ Crash

Spec == Init /\ [][Next]_<<usage, vars>>

\* The task is scheduled and its timeouts fire; nothing is assumed of clients.
LiveSpec == Spec /\ WF_vars(ActorStep)

-----------------------------------------------------------------------------
\* No sequence of commands makes a handler return an inconsistency error, which
\* would end the actor, and with it every later operation of the store.
NeverInconsistent == status # "inconsistent"

\* A hash is either always or never inline: the thresholds stay as they are.
FixedThresholds ==
  \A e, f \in Entry :
    IsComplete(e) /\ IsComplete(f) =>
      HasInlineData(e) = HasInlineData(f) /\ HasInlineOutboard(e) = HasInlineOutboard(f)

\* While the inline thresholds stay as they are, no inline row outlives the entry that refers to it: a row
\* with no entry would never be deleted (meta.rs:537-580).
NoOrphanRows ==
  FixedThresholds => \A h \in Hash :
    /\ h \in disk.data => disk.blobs[h] # Absent /\ HasInlineData(disk.blobs[h])
    /\ h \in disk.outboard => disk.blobs[h] # Absent /\ HasInlineOutboard(disk.blobs[h])

Rank(row) ==
  IF row = Absent THEN 0
  ELSE IF IsPartial(row) THEN IF row.size = {} THEN 1 ELSE 2
  ELSE CASE row.data.at = "External" -> 3
         [] row.data.at = "Inline" -> 4
         [] row.data.at = "Owned" -> 5

\* An update that comes late, after one that knew more, never takes the entry
\* back: not from complete to partial, not from a file or a row the store owns
\* to an external one, and it forgets no external path.
UpdateNeverDowngrades ==
  [][ \A h \in Hash :
        txn /\ txn' /\ queue # <<>> /\ Cmd.op = "Update" =>
          /\ Rank(tables'.blobs[h]) >= Rank(tables.blobs[h])
          /\ Rank(tables.blobs[h]) = 3 /\ Rank(tables'.blobs[h]) = 3 =>
               tables.blobs[h].data.paths \subseteq tables'.blobs[h].data.paths ]_tables

\* Every answer reflects all the commands handled before it, committed or not;
\* a sync or a snapshot is answered only when all of them are committed; a crash
\* undoes the commands since the last commit together.
Promise ==
  INSTANCE MetaStore WITH
    Row <- Hash \X EntryStates,
    cur <- Rows(tables, Hash), durable <- Rows(disk, Hash),
    answer <- [c \in Client |->
                 IF reply[c].kind \in {"pending", "failed"} THEN Idle ELSE reply[c]]

KeepsPromise == Promise!Spec

\* A client that waits for an answer gets one, or learns that the actor is gone:
\* no batch keeps the commands behind it waiting for ever.
AskedIsAnswered == \A c \in Client : reply[c] = Pending ~> reply[c] # Pending
=============================================================================
