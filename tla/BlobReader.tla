------------------------------ MODULE BlobReader ------------------------------
(***************************************************************************)
(* A reader of one blob (src/api/blobs/reader.rs), a client of a store in  *)
(* memory, mutable or read-only.  It reads through ExportRanges, one       *)
(* request for every read of its caller, and gives the request up as soon  *)
(* as it has something to return.  Positions count chunks.                 *)
(***************************************************************************)
EXTENDS ReadonlyMem, Integers, FiniteSets

CONSTANTS ReadHash,   \* ReaderOptions::hash
          Lengths,    \* lengths of the caller's buffer
          Offsets,    \* offsets of relative seeks
          MaxPos      \* the largest position (u64::MAX)

\* A read of no bytes finds nothing anywhere, so it is not one of them.
ASSUME ReaderAssumption ==
  /\ ReadHash \in Hash /\ Lengths \subseteq Nat \ {0}
  /\ Offsets \subseteq Int /\ MaxPos \in Nat

VARIABLE reader

readerVars == <<vars, reader>>

\* The stream of an export: asked for, running in a task, or at its end.
NoOp == [phase |-> "none", task |-> NoTask, items |-> <<>>]

\* BlobReader::new.  st, pos and op are ReaderState, len the length of the
\* buffer.  The rest is what the caller knows: where it is, whether it made a call
\* that is refused, whether the last read found the end; and whether the blob was
\* complete when the store began to read it.
ReaderInit ==
  reader = [st |-> "idle", pos |-> 0, len |-> 0, op |-> NoOp,
            at |-> 0, misused |-> FALSE, eof |-> FALSE, whole |-> FALSE]

ReaderSpecInit ==
  /\ (Init /\ ~Readonly) \/ (ReadonlyInit /\ Readonly)
  /\ ReaderInit

\* A call of the reader, by its caller.
Call(st) == "reader" \in scenario /\ reader.st = st /\ UNCHANGED vars

\* mem::take has left the state Poisoned.
Poisoned == [reader EXCEPT !.st = "poisoned", !.op = NoOp, !.eof = FALSE]
Refused == [Poisoned EXCEPT !.misused = TRUE]
Idle(pos) == [reader EXCEPT !.st = "idle", !.pos = pos, !.op = NoOp, !.eof = FALSE]

-----------------------------------------------------------------------------
(* The stream: ExportRangesProgress::stream *)

ReadRanges == << reader.pos .. reader.pos + reader.len - 1 >>

\* The store takes the request, or is gone: then the stream is one error.
AskExport(t) ==
  /\ reader.op.phase = "asked"
  /\ IF running
       THEN /\ IF Readonly
                 THEN /\ Spawn(t, ReadonlyRanges(ReadHash, ReadRanges))
                      /\ UNCHANGED <<blobVars, tags, waiting, running, ttVars>>
                 ELSE SpawnRanges(t, ReadHash, ReadRanges)
            /\ reader' = [reader EXCEPT
                            !.op = [phase |-> "open", task |-> t, items |-> <<>>],
                            !.whole = \E x \in Get(ReadHash) : handle[x].complete]
       ELSE /\ reader' = [reader EXCEPT
                            !.op = [phase |-> "closed", task |-> NoTask,
                                    items |-> <<[kind |-> "error"]>>]]
            /\ UNCHANGED <<blobVars, tags, tasks, waiting, running, ttVars>>
  /\ UNCHANGED scenario

DataItem(offset, n) == [kind |-> "data", offset |-> offset, n |-> n]

\* What the next step of export_ranges sends: an error, a chunk, or the empty
\* leaf of a range that is empty once it is cut off at the size.
Sent(task) ==
  IF task.bits = {} THEN IF task.from = {} THEN <<[kind |-> "error"]>> ELSE <<>>
  ELSE IF task.reading # {} THEN <<DataItem(First(task.reading), 1)>>
  ELSE IF task.rest = <<>> THEN <<>>
  ELSE LET bits == CHOOSE b \in task.bits : TRUE
           end == Chunks(bits.size)
           range == Head(task.rest) \cap 0 .. end - 1
       IN IF ~(range \subseteq bits.ranges) THEN <<[kind |-> "error"]>>
          ELSE IF range = {} THEN <<DataItem(IF reader.pos < end THEN reader.pos ELSE end, 0)>>
          ELSE <<>>

\* The stream after a step of the store.  It ends with its task, also when the
\* task is dropped by a shutdown.
StreamAfter(op) ==
  IF op.phase # "open" \/ tasks'[op.task] = tasks[op.task] THEN op
  ELSE IF tasks'[op.task] = NoTask THEN [op EXCEPT !.phase = "closed", !.task = NoTask]
  ELSE LET items == op.items \o Sent(tasks[op.task]) IN
       IF tasks'[op.task].kind = "ranges" THEN [op EXCEPT !.items = items]
       ELSE [phase |-> "closed", task |-> NoTask, items |-> items]

StoreStep ==
  /\ Next \/ ReadonlyNext
  /\ reader' = [reader EXCEPT !.op = StreamAfter(@)]

\* The reader has dropped the stream, the task cannot send any more.
AbandonedEnds(t) ==
  /\ "reader" \in scenario /\ Kind(t, "ranges") /\ t # reader.op.task
  /\ Finishes(t)
  /\ InTask /\ UNCHANGED <<handle, ttVars, scenario, reader>>

-----------------------------------------------------------------------------
(* poll_read *)

\* ReaderState::Idle: an export is started for the whole buffer, unless the
\* position overflows.
StartRead(len) ==
  /\ Call("idle")
  /\ reader' = IF reader.pos + len > MaxPos THEN Refused
               ELSE [reader EXCEPT !.st = "reading", !.len = len, !.eof = FALSE,
                                   !.op = [NoOp EXCEPT !.phase = "asked"]]

\* The items before an error, which is the last of its stream, and how much is in
\* the first i of them.
DataOf(items) ==
  IF items # <<>> /\ items[Len(items)].kind = "error" THEN SubSeq(items, 1, Len(items) - 1)
  ELSE items
ReadOf(items, i) == Cardinality({j \in 1..i : items[j].n = 1})

\* Every item is at the position where the one before it ended.
InOrder(items) ==
  \A i \in 1..Len(items) : items[i].offset = reader.pos + ReadOf(items, i - 1)

\* Faulty ContinueRead: the state goes back to where the read began.
FaultyOldPosition ==
  LET leaves == DataOf(reader.op.items)
      n == ReadOf(leaves, Len(leaves))
      returned == [Idle(reader.pos) EXCEPT !.at = @ + n, !.eof = n = 0]
  IN /\ Call("reading")
     /\ reader' =
          IF ~InOrder(leaves) THEN Poisoned
          ELSE IF Len(leaves) < Len(reader.op.items) THEN Idle(reader.pos)
          ELSE IF reader.op.phase = "closed" \/ n > 0 THEN returned
          ELSE [reader EXCEPT !.op.items = <<>>]

\* ReaderState::Reading: everything the stream has is read, with a buffer of the
\* same length.  Items that are out of place leave the reader Poisoned; an error
\* takes the read back; at the end of the stream, or when something was read and
\* there is no more yet, the read returns and the stream is dropped; otherwise it
\* stays pending.
ContinueRead ==
  LET leaves == DataOf(reader.op.items)
      n == ReadOf(leaves, Len(leaves))
      returned == [Idle(reader.pos + n) EXCEPT !.at = @ + n, !.eof = n = 0]
  IN /\ Call("reading")
     /\ reader' =
          IF ~InOrder(leaves) THEN Poisoned
          ELSE IF Len(leaves) < Len(reader.op.items) THEN Idle(reader.pos)
          ELSE IF reader.op.phase = "closed" \/ n > 0 THEN returned
          ELSE [reader EXCEPT !.op.items = <<>>]

-----------------------------------------------------------------------------
(* start_seek and poll_complete; reading while seeking is refused and changes  *)
(* nothing                                                                     *)

\* SeekFrom::Start and SeekFrom::Current
SeekTargets == 0 .. MaxPos \cup {reader.pos + o : o \in Offsets}

StartSeek ==
  \/ /\ Call("idle")
     /\ \E pos \in SeekTargets :
          reader' = IF pos \in 0 .. MaxPos
                      THEN [reader EXCEPT !.st = "seeking", !.pos = pos, !.eof = FALSE]
                      ELSE Refused
  \/ Call("idle") /\ reader' = Refused  \* SeekFrom::End
  \/ (Call("reading") \/ Call("seeking")) /\ reader' = Refused

PollComplete ==
  /\ Call("seeking")
  /\ reader' = [Idle(reader.pos) EXCEPT !.at = reader.pos]

-----------------------------------------------------------------------------
ReaderNext ==
  \/ StoreStep
  \/ \E t \in Task : AskExport(t)
  \/ \E t \in Task : AbandonedEnds(t)
  \/ \E len \in Lengths : StartRead(len)
  \/ ContinueRead
  \/ StartSeek
  \/ PollComplete

ReaderSpec == ReaderSpecInit /\ [][ReaderNext]_readerVars

-----------------------------------------------------------------------------
(* Properties *)

EndOf(h) == Chunks(SizeOf(h))

\* The reader stays in step with its caller over reads that return early, fail and
\* are tried again: it goes on where what it has returned ends, or where it was
\* sent by a seek.  Reading a blob that is complete never leaves it Poisoned
\* unless the caller makes a call that is refused or reads past the end, and
\* finds the end only where it is, as long as the store runs.
ReaderInStep ==
  /\ reader.st \in {"idle", "reading"} => reader.pos = reader.at
  /\ reader.st = "poisoned" /\ reader.whole =>
       reader.misused \/ reader.pos > EndOf(ReadHash)
  /\ reader.eof /\ reader.whole /\ running => reader.at >= EndOf(ReadHash)

\* "Any access to parts of the blob that are not present will result in an
\* error" (Blobs::reader): a read that finds the end is at the end.
AbsentIsError == reader.eof => reader.at >= EndOf(ReadHash)

===============================================================================
