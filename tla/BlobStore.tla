------------------------------- MODULE BlobStore -------------------------------
(***************************************************************************)
(* One blob of the file store, above the inline data threshold: its handle *)
(* (store/fs/bao_file.rs), the tasks that work on it (store/fs.rs), its    *)
(* row in the metadata database, the delete set that removes files after a *)
(* commit (store/fs/delete_set.rs), and the files themselves.  The parts   *)
(* run concurrently and talk through the queue of the metadata actor; the  *)
(* process, or the whole machine, may go down between any two steps.       *)
(*                                                                         *)
(* Data and outboard are the set of chunk groups they hold.  Open files    *)
(* are distinguished from paths: removing or replacing a path leaves a     *)
(* handle that has it open with the old file.                              *)
(***************************************************************************)
EXTENDS EntryState, FiniteSets, Sequences

CONSTANTS Chunk, Last,     \* the chunk groups of the blob, the last of them
          InlineOutboard,  \* is its outboard below the inline threshold?
          Scenarios,       \* records of what is done, ops: "import", "reference",
                           \* "download", "export", "delete"; and of what goes wrong,
                           \* events: "crash", "power", "io", "rename", "crossdev"
          MaxQueue,        \* capacity of the command channel (100 in the code)
          Absent, NoFile, Dirty, Linked

ASSUME LastAssumption == Last \in Chunk

\* There is a size and a path to talk about, and the marks are none of the
\* values they stand next to.
ASSUME MarkAssumption ==
  /\ Size # {} /\ Path # {} /\ InlineOutboard \in BOOLEAN /\ Absent \notin EntryStates
  /\ \A C \in SUBSET Chunk : C # NoFile /\ C # Dirty /\ C # Linked
  /\ NoFile # Dirty

VARIABLES scenario,  \* one of Scenarios, fixed at the start
          db,        \* the committed row
          row,       \* the row in the open write transaction
          txn,       \* "none", "open", "committed" (files not yet), "unlinking"
          protected, \* is the hash in Actor.protected?
          ds,        \* DeleteSet: parts to delete after the commit
          queue,     \* commands to the metadata actor
          mail,      \* its answers, by task
          file,      \* what is at the four paths
          safe,      \* the part of it that has been synced
          hd,        \* the handle: BaoFileStorage, its bitfield and open files
          ld,        \* the task that loads the handle
          imp, dl, ex, gc, \* an import, a download, an export, a collector
          restarted  \* history: has the process gone down and come up again?

meta == <<db, row, txn, protected, ds>>
tasks == <<imp, dl, ex, gc>>
work == <<meta, queue, mail, file, safe, hd, ld, tasks>>
vars == <<work, restarted, scenario>>

Ops == scenario.ops
Events == scenario.events

Size1 == CHOOSE s \in Size : TRUE
OutboardLoc == IF InlineOutboard THEN "Inline" ELSE "Owned"
OwnedEntry == Complete(OwnedData(Size1), OutboardLoc)
ExternalEntry == Complete(ExternalData(Path, Size1), OutboardLoc)
Known(bits) == IF Last \in bits THEN {Size1} ELSE {}

\* BaoFilePart, in the order in which DeleteSet::commit visits them.
Part == {"outboard", "data", "sizes", "bitfield"}
PartOrder == <<"outboard", "data", "sizes", "bitfield">>
Opened == {"outboard", "data", "sizes"}

Closed == [p \in Opened |-> Linked]
Handle(st, bits, fd) == [st |-> st, bits |-> bits, fd |-> fd]
NoHandle(st) == Handle(st, {}, Closed)

Task == {"imp", "ld", "ex", "gc"}
Command(op, e, from) == [op |-> op, entry |-> e, from |-> from]
Room == Len(queue) < MaxQueue
Send(op, e, from) == queue' = Append(queue, Command(op, e, from))
\* A task takes its answer out of the mail.
Take(t) == mail[t] # {} /\ mail' = [mail EXCEPT ![t] = {}]

TypeOK ==
  /\ {db, row} \subseteq EntryStates \union {Absent}
  /\ txn \in {"none", "open", "committed", "unlinking"}
  /\ protected \in BOOLEAN /\ ds \subseteq Part
  /\ Len(queue) <= MaxQueue
  /\ \A t \in Task : mail[t] \subseteq EntryStates \union {Absent}
  /\ \A p \in Opened : file[p] \in SUBSET Chunk \union {NoFile}
  /\ file["bitfield"] \in SUBSET Chunk \union {NoFile, Dirty}
  /\ \A p \in Opened : (file[p] = NoFile) <=> (safe[p] = NoFile)
  /\ hd.st \in {"Initial", "Loading", "NonExisting", "Partial", "Complete", "Poisoned"}
  /\ hd.bits \subseteq Chunk
  /\ \A p \in Opened : hd.fd[p] \in SUBSET Chunk \union {Linked}

Init ==
  /\ scenario \in Scenarios
  /\ db = Absent /\ row = Absent /\ txn = "none" /\ protected = FALSE /\ ds = {}
  /\ queue = <<>> /\ mail = [t \in Task |-> {}]
  /\ file = [p \in Part |-> NoFile] /\ safe = file
  /\ hd = NoHandle("Initial") /\ ld = "idle"
  /\ imp = [at |-> "idle", ref |-> FALSE] /\ dl = [at |-> "idle", update |-> {}]
  /\ ex = "idle" /\ gc = "idle" /\ restarted = FALSE

-----------------------------------------------------------------------------
(* Files.                                                                  *)

\* The content of an open file, and the handle once path p is gone or replaced.
Content(p) == IF hd.fd[p] = Linked THEN file[p] ELSE hd.fd[p]
Detached(P) ==
  [hd EXCEPT !.fd = [p \in Opened |->
     IF p \in P /\ hd.fd[p] = Linked
          /\ (hd.st \in {"Partial", "Complete"} \/ ld \in {"set", "setwait"})
     THEN file[p] ELSE hd.fd[p]]]

\* create_read_write: open, create if need be, never truncate.
Created(p) == IF file[p] = NoFile THEN {} ELSE file[p]

-----------------------------------------------------------------------------
(* The metadata actor, for the commands about this hash.                   *)

Now == IF txn = "none" THEN db ELSE row
Ready == txn \in {"none", "open"} /\ queue # <<>>
Cmd == Head(queue)
Done == queue' = Tail(queue) /\ UNCHANGED <<file, safe, hd, ld, tasks>>
Answer(e) == mail' = IF Cmd.from \in Task THEN [mail EXCEPT ![Cmd.from] = {e}] ELSE mail
InTxn(e) == txn' = "open" /\ row' = e /\ UNCHANGED db

HandleGet ==
  /\ Ready /\ Cmd.op = "Get"
  /\ Answer(Now) /\ Done /\ UNCHANGED meta

\* Snapshot is a top level command: it ends the batch before it.
HandleSnapshot ==
  /\ Ready /\ Cmd.op = "Snapshot" /\ txn = "none"
  /\ Answer(db) /\ Done /\ UNCHANGED meta

HandleClearProtected ==
  /\ Ready /\ Cmd.op = "ClearProtected"
  /\ protected' = FALSE
  /\ Answer(Absent) /\ Done /\ UNCHANGED <<db, row, txn, ds>>

\* Faulty HandleUpdate: the update forgets to protect the hash.
HandleUpdateUnprotected ==
  /\ Ready /\ Cmd.op = "Update"
  /\ InTxn(IF Now = Absent THEN Cmd.entry ELSE Union(Now, Cmd.entry))
  /\ ds' = IF Now # Absent /\ IsPartial(Now) /\ IsComplete(Cmd.entry)
           THEN ds \union {"sizes", "bitfield"} ELSE ds
  /\ UNCHANGED protected
  /\ Answer(Absent) /\ Done

\* Faulty HandleUpdate: completing a blob leaves its sizes and bitfield files.
HandleUpdateKeepsFiles ==
  /\ Ready /\ Cmd.op = "Update"
  /\ protected' = TRUE
  /\ InTxn(IF Now = Absent THEN Cmd.entry ELSE Union(Now, Cmd.entry))
  /\ UNCHANGED ds
  /\ Answer(Absent) /\ Done

HandleUpdate ==
  /\ Ready /\ Cmd.op = "Update"
  /\ protected' = TRUE
  /\ InTxn(IF Now = Absent THEN Cmd.entry ELSE Union(Now, Cmd.entry))
  /\ ds' = IF Now # Absent /\ IsPartial(Now) /\ IsComplete(Cmd.entry)
           THEN ds \union {"sizes", "bitfield"} ELSE ds
  /\ Answer(Absent) /\ Done

HandleSet ==
  /\ Ready /\ Cmd.op = "Set"
  /\ protected' = TRUE /\ InTxn(Cmd.entry)
  /\ Answer(Absent) /\ Done /\ UNCHANGED ds

\* The files Actor::delete marks for an entry.
FilesOf(e) ==
  IF e = Absent THEN {}
  ELSE IF IsPartial(e) THEN Part
  ELSE {p \in {"data"} : e.data.at = "Owned"} \union {p \in {"outboard"} : e.outboard = "Owned"}

HandleDelete ==
  /\ Ready /\ Cmd.op = "Delete"
  /\ IF protected
     THEN InTxn(Now) /\ UNCHANGED ds
     ELSE InTxn(Absent) /\ ds' = ds \union FilesOf(Now)
  /\ Answer(Absent) /\ Done /\ UNCHANGED protected

\* tx.commit(): full batch, timeout or a top level command.
CommitTx ==
  /\ txn = "open"
  /\ db' = row /\ txn' = "committed"
  /\ UNCHANGED <<row, protected, ds, queue, mail, file, safe, hd, ld, tasks>>

\* ftx.commit() locks the delete set ...
CommitFiles ==
  /\ txn = "committed" /\ txn' = "unlinking"
  /\ UNCHANGED <<db, row, protected, ds, queue, mail, file, safe, hd, ld, tasks>>

\* ... removes the files one by one and clears the set.
Unlink ==
  /\ txn = "unlinking" /\ ds # {}
  /\ \E i \in 1..4 :
       LET p == PartOrder[i] IN
       /\ p \in ds /\ \A j \in 1..(i - 1) : PartOrder[j] \notin ds
       /\ ds' = ds \ {p}
       /\ file' = [file EXCEPT ![p] = NoFile] /\ safe' = [safe EXCEPT ![p] = NoFile]
       /\ hd' = Detached({p})
  /\ UNCHANGED <<db, row, txn, protected, queue, mail, ld, tasks>>

EndTxn ==
  /\ txn = "unlinking" /\ ds = {}
  /\ txn' = "none" /\ row' = db
  /\ UNCHANGED <<db, protected, ds, queue, mail, file, safe, hd, ld, tasks>>

\* ProtectHandle::protect takes the lock that ftx.commit() holds.
Protect(P) == txn # "unlinking" /\ ds' = ds \ P

MetaStep ==
  \/ HandleGet \/ HandleSnapshot \/ HandleClearProtected \/ HandleUpdate \/ HandleSet \/ HandleDelete
  \/ CommitTx \/ CommitFiles \/ Unlink \/ EndTxn

-----------------------------------------------------------------------------
(* The handle.                                                             *)

IsLoaded == hd.st \notin {"Initial", "Loading"}

\* HashContext::load: the first task that finds the handle Initial loads it, the
\* others wait.
StartLoad ==
  /\ hd.st = "Initial" /\ "load" \in {imp.at, dl.at, ex}
  /\ hd' = NoHandle("Loading") /\ ld' = "ask"
  /\ UNCHANGED <<meta, queue, mail, file, safe, tasks>>

LoadGet ==
  /\ ld = "ask" /\ Room
  /\ Send("Get", Absent, "ld") /\ ld' = "wait"
  /\ UNCHANGED <<meta, mail, file, safe, hd, tasks>>

\* BaoFileStorage::open for no entry and for a complete one.
CanOpen(e) ==
  /\ e.data.at = "Owned" => file["data"] # NoFile
  /\ e.outboard = "Owned" => file["outboard"] # NoFile

OpenFiles(e) ==
  [data |-> IF e.data.at = "Owned" THEN Linked ELSE Chunk,
   outboard |-> IF e.outboard = "Owned" THEN Linked ELSE Chunk, sizes |-> {}]

\* Faulty LoadOpen: a file that cannot be opened leaves the handle Loading.
LoadOpenStaysLoading ==
  /\ ld = "wait" /\ Take("ld")
  /\ \E e \in mail["ld"] :
       /\ e # Absent => IsComplete(e)
       /\ hd' = IF e = Absent THEN NoHandle("NonExisting")
                ELSE IF CanOpen(e) THEN Handle("Complete", Chunk, OpenFiles(e))
                ELSE hd
  /\ ld' = "idle"
  /\ UNCHANGED <<meta, queue, file, safe, tasks>>

LoadOpen ==
  /\ ld = "wait" /\ Take("ld")
  /\ \E e \in mail["ld"] :
       /\ e # Absent => IsComplete(e)
       /\ hd' = IF e = Absent THEN NoHandle("NonExisting")
                ELSE IF CanOpen(e) THEN Handle("Complete", Chunk, OpenFiles(e))
                ELSE NoHandle("Poisoned")
  /\ ld' = "idle"
  /\ UNCHANGED <<meta, queue, file, safe, tasks>>

\* valid_ranges: what data, outboard and size let us validate.
Reconstructed == IF Created("sizes") = {} THEN {} ELSE Created("data") \intersect Created("outboard")

\* PartialFileStorage::load: the bitfield file is read and truncated; if it was
\* truncated, torn or missing, the bitfield is computed from the data.
LoadBits == IF file["bitfield"] \in {NoFile, Dirty} THEN Reconstructed ELSE file["bitfield"]

\* into_complete keeps the data file open and reads a small outboard to memory.
CompleteFiles(h, outboard) ==
  [data |-> h.fd["data"], outboard |-> IF InlineOutboard THEN outboard ELSE h.fd["outboard"],
   sizes |-> {}]

\* Faulty LoadPartial: the files are truncated when they are opened.
LoadPartialTruncates ==
  /\ ld = "wait" /\ Take("ld")
  /\ \E e \in mail["ld"] : e # Absent /\ IsPartial(e)
  /\ file' = [p \in Part |-> IF p \in Opened THEN {} ELSE IF file[p] = NoFile THEN NoFile ELSE Dirty]
  /\ safe' = file'
  /\ IF LoadBits = Chunk
     THEN hd' = Handle("Loading", Chunk, Closed) /\ ld' = "set"
     ELSE hd' = Handle("Partial", LoadBits, Closed) /\ ld' = "idle"
  /\ UNCHANGED <<meta, queue, tasks>>

\* BaoFileStorage::open for a partial entry, new_partial_file: a file that turns
\* out to be complete is set so in the database before anyone uses the handle.
LoadPartial ==
  /\ ld = "wait" /\ Take("ld")
  /\ \E e \in mail["ld"] : e # Absent /\ IsPartial(e)
  /\ file' = [file EXCEPT !["data"] = Created("data"), !["outboard"] = Created("outboard"),
                          !["sizes"] = Created("sizes"),
                          !["bitfield"] = IF @ = NoFile THEN NoFile ELSE Dirty]
  /\ safe' = [p \in Part |-> IF p \in Opened THEN (IF safe[p] = NoFile THEN {} ELSE safe[p])
                             ELSE file'[p]]
  /\ IF LoadBits = Chunk
     THEN hd' = Handle("Loading", Chunk, Closed) /\ ld' = "set"
     ELSE hd' = Handle("Partial", LoadBits, Closed) /\ ld' = "idle"
  /\ UNCHANGED <<meta, queue, tasks>>

\* BaoFileStorage::open for a partial entry fails: one of the files cannot be
\* opened, or all are and completing them fails.
LoadFails ==
  /\ "io" \in Events /\ ld = "wait" /\ Take("ld")
  /\ \E e \in mail["ld"] : e # Absent /\ IsPartial(e)
  /\ \E P \in {{}, {"data"}, {"data", "outboard"}, Opened} :
       /\ P = Opened => LoadBits = Chunk
       /\ file' = [p \in Part |-> IF p \in P THEN Created(p)
                                  ELSE IF P = Opened /\ file[p] # NoFile THEN Dirty ELSE file[p]]
       /\ safe' = [p \in Part |-> IF p \notin Opened THEN file'[p]
                                  ELSE IF p \in P /\ safe[p] = NoFile THEN {} ELSE safe[p]]
  /\ hd' = NoHandle("Poisoned") /\ ld' = "idle"
  /\ UNCHANGED <<meta, queue, tasks>>

LoadSet ==
  /\ ld = "set" /\ Room
  /\ Send("Set", OwnedEntry, "ld") /\ ld' = "setwait"
  /\ UNCHANGED <<meta, mail, file, safe, hd, tasks>>

LoadIsSet ==
  /\ ld = "setwait" /\ Take("ld")
  /\ hd' = Handle("Complete", Chunk, CompleteFiles(hd, Content("outboard"))) /\ ld' = "idle"
  /\ UNCHANGED <<meta, queue, file, safe, tasks>>

\* Faulty Persist: the bitfield is written but the data is not synced before.
PersistUnsynced ==
  /\ imp.at \in {"idle", "acked"} /\ dl.at = "idle" /\ ex = "idle" /\ ld = "idle" /\ IsLoaded
  /\ IF hd.st = "Partial"
     THEN /\ file' = [file EXCEPT !["bitfield"] = hd.bits]
          /\ safe' = [safe EXCEPT !["bitfield"] = hd.bits]
     ELSE UNCHANGED <<file, safe>>
  /\ hd' = NoHandle("Initial")
  /\ UNCHANGED <<meta, queue, mail, ld, tasks>>

\* on_shutdown of the entity when its last task has ended: persist, which syncs
\* the files and, if that succeeds, writes the bitfield to its path; then reset.
Persist ==
  /\ imp.at \in {"idle", "acked"} /\ dl.at = "idle" /\ ex = "idle" /\ ld = "idle" /\ IsLoaded
  /\ \/ /\ hd.st = "Partial"
        /\ file' = [file EXCEPT !["bitfield"] = hd.bits]
        /\ safe' = [p \in Part |-> IF p \in Opened /\ hd.fd[p] # Linked THEN safe[p] ELSE file'[p]]
     \/ (hd.st = "Partial" => "io" \in Events) /\ UNCHANGED <<file, safe>>
  /\ hd' = NoHandle("Initial")
  /\ UNCHANGED <<meta, queue, mail, ld, tasks>>

-----------------------------------------------------------------------------
(* A download: import_bao.                                                 *)

StartDownload ==
  /\ "download" \in Ops /\ dl.at = "idle" /\ dl' = [dl EXCEPT !.at = "load"]
  /\ UNCHANGED <<meta, queue, mail, file, safe, hd, ld, imp, ex, gc>>

DownloadLoaded ==
  /\ dl.at = "load" /\ IsLoaded /\ dl' = [dl EXCEPT !.at = "write"]
  /\ UNCHANGED <<meta, queue, mail, file, safe, hd, ld, imp, ex, gc>>

\* Faulty AfterWrite: a blob whose size is known counts as complete.
AfterWriteTooEarly(bits, fd, old) ==
  LET h == Handle("Partial", bits, fd) IN
  IF Last \in bits
  THEN hd' = Handle("Complete", bits, CompleteFiles(h, bits)) /\ dl' = [at |-> "send", update |-> {OwnedEntry}]
  ELSE hd' = h /\ dl' = [at |-> "send", update |-> {Partial({})}]

\* The handle after B has been written to files that then hold what fd says, and
\* the update that write_batch returns.
AfterWrite(bits, fd, old) ==
  LET h == Handle("Partial", bits, fd)
      outboard == IF fd["outboard"] = Linked THEN file'["outboard"] ELSE fd["outboard"] IN
  IF bits = Chunk
  THEN hd' = Handle("Complete", Chunk, CompleteFiles(h, outboard)) /\ dl' = [at |-> "send", update |-> {OwnedEntry}]
  ELSE /\ hd' = h
       /\ dl' = IF old = "NonExisting" \/ Known(bits) # Known(hd.bits)
                THEN [at |-> "send", update |-> {Partial(Known(bits))}]
                ELSE dl

\* write_batch on NonExisting: memory first, then files that are protected from
\* the running transaction. A batch beyond the inline threshold, such as one with
\* the last chunk group, is written after the sync, a batch below it before.
WriteNew(B) ==
  /\ dl.at = "write" /\ hd.st = "NonExisting"
  /\ Protect(Part)
  /\ file' = [p \in Part |-> IF p \in Opened THEN Created(p) \union B ELSE file[p]]
  /\ \E synced \in IF Last \in B THEN {{}} ELSE {B, {}} :
       safe' = [p \in Part |-> IF p \in Opened THEN Created(p) \union synced ELSE safe[p]]
  /\ AfterWrite(B, Closed, "NonExisting")
  /\ UNCHANGED <<db, row, txn, protected, queue, mail, ld, imp, ex, gc>>

WritePartial(B) ==
  /\ dl.at = "write" /\ hd.st = "Partial"
  /\ file' = [p \in Part |-> IF p \in Opened /\ hd.fd[p] = Linked THEN file[p] \union B ELSE file[p]]
  /\ AfterWrite(hd.bits \union B,
                [p \in Opened |-> IF hd.fd[p] = Linked THEN Linked ELSE hd.fd[p] \union B], "Partial")
  /\ UNCHANGED <<meta, queue, mail, safe, ld, imp, ex, gc>>

\* A write fails after some of the files were created and written: the handle
\* stays Poisoned, the download ends with an error.
WriteFails(B) ==
  /\ "io" \in Events /\ dl.at = "write" /\ hd.st \in {"NonExisting", "Partial"}
  /\ IF hd.st = "NonExisting" THEN Protect(Part) ELSE UNCHANGED ds
  /\ \E P \in SUBSET {p \in Opened : hd.fd[p] = Linked} :
       /\ file' = [p \in Part |-> IF p \in P THEN Created(p) \union B ELSE file[p]]
       /\ safe' = [p \in Part |-> IF p \in P /\ safe[p] = NoFile THEN {} ELSE safe[p]]
  /\ hd' = NoHandle("Poisoned") /\ dl' = [dl EXCEPT !.at = "idle"]
  /\ UNCHANGED <<db, row, txn, protected, queue, mail, ld, imp, ex, gc>>

\* db.update: sent after the handle has changed, not awaited.
SendUpdate ==
  /\ dl.at = "send" /\ Room
  /\ \E e \in dl.update : Send("Update", e, "none")
  /\ dl' = [at |-> "write", update |-> {}]
  /\ UNCHANGED <<meta, mail, file, safe, hd, ld, imp, ex, gc>>

\* The stream ends; batches for a complete or poisoned handle have been ignored.
EndDownload ==
  /\ dl.at = "write" /\ dl' = [dl EXCEPT !.at = "idle"]
  /\ UNCHANGED <<meta, queue, mail, file, safe, hd, ld, imp, ex, gc>>

-----------------------------------------------------------------------------
(* An import: finish_import, with its temp tag held from start to end.     *)

StartImport ==
  /\ imp.at = "idle"
  /\ \E ref \in {b \in BOOLEAN : (IF b THEN "reference" ELSE "import") \in Ops} :
       imp' = [at |-> "load", ref |-> ref]
  /\ UNCHANGED <<meta, queue, mail, file, safe, hd, ld, dl, ex, gc>>

ImportProtects ==
  /\ imp.at = "load" /\ IsLoaded /\ Protect({"data", "outboard"})
  /\ imp' = [imp EXCEPT !.at = "rename"]
  /\ UNCHANGED <<db, row, txn, protected, queue, mail, file, safe, hd, ld, dl, ex, gc>>

\* The parts an import moves to their place; nothing has synced them.
Moved == {p \in {"data"} : ~ imp.ref} \union {p \in {"outboard"} : ~ InlineOutboard}

\* A rename that fails is logged and the import goes on.
ImportRenames ==
  /\ imp.at = "rename"
  /\ \E P \in IF "rename" \in Events THEN SUBSET Moved ELSE {Moved} :
       /\ file' = [p \in Part |-> IF p \in P THEN Chunk ELSE file[p]]
       /\ safe' = [p \in Part |-> IF p \in P THEN {} ELSE safe[p]]
       /\ hd' = Detached(P)
  /\ imp' = [imp EXCEPT !.at = "open"]
  /\ UNCHANGED <<meta, queue, mail, ld, dl, ex, gc>>

ImportedEntry == IF imp.ref THEN ExternalEntry ELSE OwnedEntry

\* Open the files, BaoFileHandle::complete; an error ends the import.
ImportOpens ==
  /\ imp.at = "open"
  /\ IF CanOpen(ImportedEntry)
     THEN /\ hd' = IF hd.st \in {"NonExisting", "Partial"}
                   THEN Handle("Complete", Chunk, OpenFiles(ImportedEntry)) ELSE hd
          /\ imp' = [imp EXCEPT !.at = "send"]
     ELSE imp' = [at |-> "idle", ref |-> FALSE] /\ UNCHANGED hd
  /\ UNCHANGED <<meta, queue, mail, file, safe, ld, dl, ex, gc>>

\* update_await: send, then wait for the answer.
ImportSends ==
  /\ imp.at = "send" /\ Room
  /\ Send("Update", ImportedEntry, "imp")
  /\ imp' = [imp EXCEPT !.at = "wait"]
  /\ UNCHANGED <<meta, mail, file, safe, hd, ld, dl, ex, gc>>

ImportAcked ==
  /\ imp.at = "wait" /\ Take("imp") /\ imp' = [imp EXCEPT !.at = "acked"]
  /\ UNCHANGED <<meta, queue, file, safe, hd, ld, dl, ex, gc>>

\* The user drops the temp tag.
DropTempTag ==
  /\ imp.at = "acked" /\ imp' = [at |-> "idle", ref |-> FALSE]
  /\ UNCHANGED <<meta, queue, mail, file, safe, hd, ld, dl, ex, gc>>

-----------------------------------------------------------------------------
(* An export in TryReference mode: export_path.                            *)

StartExport ==
  /\ "export" \in Ops /\ ex = "idle" /\ ex' = "load"
  /\ UNCHANGED <<meta, queue, mail, file, safe, hd, ld, imp, dl, gc>>

ExportGets ==
  /\ ex = "load" /\ IsLoaded /\ Room
  /\ Send("Get", Absent, "ex") /\ ex' = "wait"
  /\ UNCHANGED <<meta, mail, file, safe, hd, ld, imp, dl, gc>>

\* There is a complete blob, and its file is where it should be.
Exportable(e) == e # Absent /\ IsComplete(e) /\ (e.data.at = "Owned" => file["data"] # NoFile)

\* Nothing to export, or an error other than ERR_CROSS.
ExportFails ==
  /\ ex = "wait" /\ Take("ex")
  /\ \E e \in mail["ex"] : Exportable(e) => "io" \in Events
  /\ ex' = "idle"
  /\ UNCHANGED <<meta, queue, file, safe, hd, ld, imp, dl, gc>>

\* An owned file is moved to the target, or copied when the target is on another
\* file system; a blob that is external already is copied.
ExportMoves ==
  /\ ex = "wait" /\ Take("ex")
  /\ \E e \in mail["ex"] :
       /\ Exportable(e)
       /\ \/ /\ e.data.at = "Owned" => "crossdev" \in Events
             /\ UNCHANGED <<file, safe, hd>>
          \/ /\ e.data.at = "Owned"
             /\ file' = [file EXCEPT !["data"] = NoFile] /\ safe' = [safe EXCEPT !["data"] = NoFile]
             /\ hd' = Detached({"data"})
  /\ ex' = "set"
  /\ UNCHANGED <<meta, queue, ld, imp, dl, gc>>

ExportSets ==
  /\ ex = "set" /\ Room
  /\ Send("Set", ExternalEntry, "ex") /\ ex' = "setwait"
  /\ UNCHANGED <<meta, mail, file, safe, hd, ld, imp, dl, gc>>

ExportDone ==
  /\ ex = "setwait" /\ Take("ex") /\ ex' = "idle"
  /\ UNCHANGED <<meta, queue, file, safe, hd, ld, imp, dl, gc>>

-----------------------------------------------------------------------------
(* A run of the collector, as far as this hash can tell (see Gc).          *)

GcClears ==
  /\ "delete" \in Ops /\ gc = "idle" /\ Room
  /\ Send("ClearProtected", Absent, "gc") /\ gc' = "clear"
  /\ UNCHANGED <<meta, mail, file, safe, hd, ld, imp, dl, ex>>

\* gc_mark: the hash is live while its temp tag is held.
GcMarks ==
  /\ gc = "clear" /\ Take("gc")
  /\ gc' = IF imp.at = "idle" THEN "sweep" ELSE "idle"
  /\ UNCHANGED <<meta, queue, file, safe, hd, ld, imp, dl, ex>>

GcLists ==
  /\ gc = "sweep" /\ Room
  /\ Send("Snapshot", Absent, "gc") /\ gc' = "list"
  /\ UNCHANGED <<meta, mail, file, safe, hd, ld, imp, dl, ex>>

\* gc_sweep: what is in the snapshot and not live is deleted.
GcSweeps ==
  /\ gc = "list" /\ Room /\ Take("gc")
  /\ IF Absent \in mail["gc"]
     THEN gc' = "idle" /\ UNCHANGED queue
     ELSE gc' = "wait" /\ Send("Delete", Absent, "gc")
  /\ UNCHANGED <<meta, file, safe, hd, ld, imp, dl, ex>>

GcDone ==
  /\ gc = "wait" /\ Take("gc") /\ gc' = "idle"
  /\ UNCHANGED <<meta, queue, file, safe, hd, ld, imp, dl, ex>>

-----------------------------------------------------------------------------
\* What a new process finds: the committed row and the files.
Restart ==
  /\ row' = db /\ txn' = "none" /\ protected' = FALSE /\ ds' = {}
  /\ queue' = <<>> /\ mail' = [t \in Task |-> {}]
  /\ hd' = NoHandle("Initial") /\ ld' = "idle"
  /\ imp' = [at |-> "idle", ref |-> FALSE] /\ dl' = [at |-> "idle", update |-> {}]
  /\ ex' = "idle" /\ gc' = "idle"
  /\ restarted' = TRUE /\ UNCHANGED db

\* The process is killed; if it was writing the bitfield, the file is torn.
Crash ==
  /\ "crash" \in Events
  /\ \/ UNCHANGED <<file, safe>>
     \/ /\ hd.st = "Partial"
        /\ file' = [file EXCEPT !["bitfield"] = Dirty] /\ safe' = [safe EXCEPT !["bitfield"] = Dirty]
  /\ Restart

\* The machine goes down: any file may be left with only what has been synced.
PowerLoss ==
  /\ "power" \in Events
  /\ \E P \in SUBSET Opened :
       file' = [p \in Part |-> IF p \in P THEN safe[p] ELSE file[p]]
  /\ safe' = file'
  /\ Restart

TaskStep ==
  \/ StartLoad \/ LoadGet \/ LoadOpen \/ LoadPartial \/ LoadFails \/ LoadSet \/ LoadIsSet
  \/ DownloadLoaded \/ SendUpdate
  \/ ImportProtects \/ ImportRenames \/ ImportOpens \/ ImportSends \/ ImportAcked
  \/ ExportGets \/ ExportFails \/ ExportMoves \/ ExportSets \/ ExportDone
  \/ GcMarks \/ GcLists \/ GcSweeps \/ GcDone

UserStep ==
  \/ StartDownload \/ EndDownload \/ StartImport \/ DropTempTag \/ StartExport \/ GcClears
  \/ \E B \in (SUBSET Chunk) \ {{}} : WriteNew(B) \/ WritePartial(B) \/ WriteFails(B)

Next ==
  /\ UNCHANGED scenario
  /\ \/ (MetaStep \/ TaskStep \/ UserStep \/ Persist) /\ UNCHANGED restarted
     \/ Crash \/ PowerLoss

Spec == Init /\ [][Next]_vars

\* Every task is scheduled. A task that waits for room in the queue, or for the
\* lock of the delete set, gets it in its turn.
LiveSpec ==
  /\ Spec /\ WF_work(MetaStep) /\ WF_work(StartLoad) /\ SF_work(LoadGet)
  /\ WF_work(LoadOpen) /\ WF_work(LoadPartial) /\ SF_work(LoadSet) /\ WF_work(LoadIsSet)
  /\ SF_work(ImportProtects) /\ WF_work(ImportRenames) /\ WF_work(ImportOpens)
  /\ SF_work(ImportSends) /\ WF_work(ImportAcked)

-----------------------------------------------------------------------------
\* Nothing is synced before a complete entry is committed, so what is said of
\* complete entries is not said of a power failure.
PowerStays == "power" \notin Events

\* Whatever the handle says it has can be read through the files it holds open,
\* data and outboard: bitfield() is what exports and observers go by
\* (fs.rs:1163-1180, bao_file.rs:396-412).
BitsBacked ==
  PowerStays /\ hd.st \in {"Partial", "Complete"} =>
    hd.bits \subseteq Content("data") \intersect Content("outboard")

AllIdle ==
  /\ txn = "none" /\ queue = <<>> /\ hd.st = "Initial"
  /\ imp.at = "idle" /\ dl.at = "idle" /\ ex = "idle" /\ gc = "idle"

\* At every moment, so after a crash of the process too, a committed entry that
\* says its data or outboard is in the data directory is right: the file is there
\* and complete (entry_state.rs:19, DESIGN.md:124).
OwnedInPlace ==
  PowerStays /\ db # Absent /\ IsComplete(db) =>
    /\ db.data.at = "Owned" => file["data"] = Chunk
    /\ db.outboard = "Owned" => file["outboard"] = Chunk

\* At every moment, a bitfield file that a restart would trust claims only chunks
\* that data and outboard hold (DESIGN.md:124-142).
BitfieldBacked ==
  db # Absent /\ IsPartial(db) /\ file["bitfield"] \notin {NoFile, Dirty} =>
    /\ file["data"] # NoFile /\ file["outboard"] # NoFile
    /\ file["bitfield"] \subseteq file["data"] \intersect file["outboard"]

\* When only downloads are done, nothing is going on, and nothing has been
\* interrupted by a restart, there is no data, outboard or bitfield file that the
\* entry does not account for: no later deletion of the blob would remove it.
NoStrayFiles ==
  Ops = {"download"} /\ AllIdle /\ ~restarted => \A p \in Part \ {"sizes"} : file[p] # NoFile => p \in FilesOf(db)

\* An import that has been acknowledged, and whose temp tag is held, is stored
\* once the metadata actor has committed what it has: the entry is complete.
ImportStored ==
  imp.at = "acked" /\ txn = "none" /\ queue = <<>> => db # Absent /\ IsComplete(db)

\* An import ends, with an answer or an error, and so releases its temp tag.
ImportEnds == imp.at \notin {"idle", "acked"} ~> imp.at \in {"idle", "acked"}
=============================================================================
