--------------------------- MODULE BlobStoreProofs ---------------------------
(***************************************************************************)
(* Safety of one blob of the file store, for any chunk groups, scenarios   *)
(* and channel size.  QInv says what the commands and answers of the       *)
(* metadata actor promise each other and is enough for imports to be       *)
(* stored; FInv relates the handle, the files and every entry that is      *)
(* committed or on its way.                                                *)
(***************************************************************************)
EXTENDS BlobStore, TLAPS

-----------------------------------------------------------------------------
(* Commands and answers *)

\* The entries that this blob can have.
Rows == {Partial({}), Partial({Size1}), OwnedEntry, ExternalEntry}
MaybeRow == Rows \union {Absent}

\* What a task sends.
Sends(t) ==
  CASE t = "imp" -> {"Update"}
    [] t = "ld" -> {"Get", "Set"}
    [] t = "ex" -> {"Get", "Set"}
    [] t = "gc" -> {"ClearProtected", "Snapshot", "Delete"}
    [] t = "none" -> {"Update"}

Msgs ==
  {m \in [op : {"Get", "Set", "Update", "ClearProtected", "Snapshot", "Delete"},
          entry : MaybeRow, from : Task \union {"none"}] :
     /\ m.op \in Sends(m.from)
     /\ m.op \in {"Update", "Set"} => m.entry # Absent
     /\ m.op = "Set" \/ m.from = "imp" => IsComplete(m.entry)}

\* The commands that a task waits for an answer to, if any.
expected ==
  [t \in Task |->
     CASE t = "imp" -> {op \in {"Update"} : imp.at = "wait"}
       [] t = "ld" -> {op \in {"Get"} : ld = "wait"} \union {op \in {"Set"} : ld = "setwait"}
       [] t = "ex" -> {op \in {"Get"} : ex = "wait"} \union {op \in {"Set"} : ex = "setwait"}
       [] t = "gc" -> {op \in {"ClearProtected"} : gc = "clear"}
                        \union {op \in {"Snapshot"} : gc = "list"}
                        \union {op \in {"Delete"} : gc = "wait"}]

\* A task has one command on its way, or its answer in the mail, while it
\* waits, and nothing otherwise.
Proto ==
  /\ queue \in Seq(Msgs)
  /\ mail \in [Task -> SUBSET MaybeRow]
  /\ \A i \in 1..Len(queue) : queue[i].from \in Task =>
       queue[i].op \in expected[queue[i].from] /\ mail[queue[i].from] = {}
  /\ \A i, j \in 1..Len(queue) : queue[i].from = queue[j].from /\ queue[i].from \in Task => i = j
  /\ \A t \in Task : mail[t] # {} => expected[t] # {}

Imports == [at : {"idle", "load", "rename", "open", "send", "wait", "acked"}, ref : BOOLEAN]
Downloads == [at : {"idle", "load", "write", "send"}, update : SUBSET Rows]

RowTypes ==
  /\ db \in MaybeRow /\ row \in MaybeRow
  /\ txn \in {"none", "open", "committed", "unlinking"}
  /\ txn \in {"committed", "unlinking"} => row = db
  /\ imp \in Imports /\ dl \in Downloads

\* The handle is a handle, and is Loading while a task loads it.
LoadInv == hd = Handle(hd.st, hd.bits, hd.fd) /\ (ld # "idle" => hd.st = "Loading")

\* An import that has its answer is in the row, and a collector that saw no
\* temp tag when it marked will find the row protected.
Stored ==
  mail["imp"] # {} \/ imp.at = "acked" =>
    /\ Now # Absent /\ IsComplete(Now)
    /\ gc \in {"sweep", "list", "wait"} => protected

QInv == RowTypes /\ LoadInv /\ Proto /\ Stored

-----------------------------------------------------------------------------
(* Entries *)

LEMMA SizeOne == Size1 \in Size
<1>1. \E s \in Size : TRUE
  BY MarkAssumption, Zenon
<1> QED
  BY <1>1, Zenon DEF Size1

\* The fields of the entries, and that none of them is the mark for no entry.
LEMMA RowFacts ==
  /\ \A e \in Rows : e # Absent
  /\ \A e \in Rows : (IsComplete(e) /\ ~IsPartial(e)) \/ (IsPartial(e) /\ ~IsComplete(e))
  /\ IsPartial(Partial({})) /\ IsPartial(Partial({Size1}))
  /\ IsComplete(OwnedEntry) /\ OwnedEntry.data.at = "Owned" /\ OwnedEntry.outboard = OutboardLoc
  /\ IsComplete(ExternalEntry) /\ ExternalEntry.data.at = "External"
  /\ ExternalEntry.outboard = OutboardLoc
<1>1. \A e \in Rows : e \in EntryStates
  <2>1. {Partial({}), Partial({Size1})} \subseteq PartialEntry
    BY SizeOne, Zenon DEF PartialEntry
  <2>2. OutboardLoc \in OutboardLocation
    BY DEF OutboardLoc, OutboardLocation
  <2>3. OwnedData(Size1) \in DataLocation
    BY SizeOne DEF DataLocation
  <2>4. Path \in (SUBSET Path) \ {{}}
    BY MarkAssumption, Zenon
  <2>5. ExternalData(Path, Size1) \in DataLocation
    BY <2>4, SizeOne DEF DataLocation
  <2>6. {OwnedEntry, ExternalEntry} \subseteq CompleteEntry
    BY <2>2, <2>3, <2>5 DEF CompleteEntry, OwnedEntry, ExternalEntry
  <2> QED
    BY <2>1, <2>6, Zenon DEF Rows, EntryStates
<1>2. \A e \in Rows : e # Absent
  BY <1>1, MarkAssumption, Zenon
<1>3. /\ IsPartial(Partial({})) /\ IsPartial(Partial({Size1}))
      /\ ~IsComplete(Partial({})) /\ ~IsComplete(Partial({Size1}))
  BY DEF IsPartial, IsComplete, Partial
<1>4. /\ IsComplete(OwnedEntry) /\ OwnedEntry.data.at = "Owned" /\ OwnedEntry.outboard = OutboardLoc
      /\ ~IsPartial(OwnedEntry)
  BY DEF IsPartial, IsComplete, OwnedEntry, Complete, OwnedData
<1>5. /\ IsComplete(ExternalEntry) /\ ExternalEntry.data.at = "External"
      /\ ExternalEntry.outboard = OutboardLoc /\ ~IsPartial(ExternalEntry)
  BY DEF IsPartial, IsComplete, ExternalEntry, Complete, ExternalData
<1>6. \A e \in Rows : (IsComplete(e) /\ ~IsPartial(e)) \/ (IsPartial(e) /\ ~IsComplete(e))
  BY <1>3, <1>4, <1>5, Zenon DEF Rows
<1> QED
  BY <1>2, <1>3, <1>4, <1>5, <1>6, Zenon

\* EntryState::union of two entries of this blob: complete if one of them is,
\* and owning nothing that neither of them owns.
LEMMA UnionRows ==
  ASSUME NEW old \in Rows, NEW new \in Rows
  PROVE  /\ Union(old, new) \in Rows
         /\ IsComplete(old) \/ IsComplete(new) => IsComplete(Union(old, new))
         /\ Union(old, new) \in {old, new, Partial({Size1})}
<1>1. CASE IsComplete(old) /\ IsComplete(new)
  <2>1. old \in {OwnedEntry, ExternalEntry} /\ new \in {OwnedEntry, ExternalEntry}
    BY <1>1, RowFacts, Zenon DEF Rows
  <2>2. Union(old, new) = Complete(DataUnion(old.data, new.data), old.outboard)
    BY <1>1, RowFacts, Zenon DEF Union
  <2> DEFINE o == OwnedData(Size1)
             x == ExternalData(Path, Size1)
  <2>3. DataUnion(o, o) = o /\ DataUnion(o, x) = o /\ DataUnion(x, o) = o
    BY DEF DataUnion, OwnedData, ExternalData
  <2>4. DataUnion(x, x) = x
    BY ZenonT(60) DEF DataUnion, OwnedData, ExternalData
  <2>5. /\ OwnedEntry.data = o /\ OwnedEntry.outboard = OutboardLoc
        /\ ExternalEntry.data = x /\ ExternalEntry.outboard = OutboardLoc
    BY DEF OwnedEntry, ExternalEntry, Complete
  <2>6. Complete(o, OutboardLoc) = OwnedEntry /\ Complete(x, OutboardLoc) = ExternalEntry
    BY Zenon DEF OwnedEntry, ExternalEntry
  <2> HIDE DEF o, x
  <2>7. Union(old, new) \in {old, new}
    BY <2>1, <2>2, <2>3, <2>4, <2>5, <2>6, Zenon
  <2> QED
    BY <1>1, <2>7, Zenon
<1>2. CASE IsComplete(old) /\ IsPartial(new)
  <2>1. Union(old, new) = old
    BY <1>2, RowFacts, Zenon DEF Union
  <2> QED
    BY <1>2, <2>1, Zenon
<1>3. CASE IsPartial(old) /\ IsComplete(new)
  <2>1. Union(old, new) = new
    BY <1>3, RowFacts, Zenon DEF Union
  <2> QED
    BY <1>3, <2>1, Zenon
<1>4. CASE IsPartial(old) /\ IsPartial(new)
  <2>1. old \in {Partial({}), Partial({Size1})} /\ new \in {Partial({}), Partial({Size1})}
    BY <1>4, RowFacts, Zenon DEF Rows
  <2>2. Union(old, new) = Partial(old.size \union new.size) /\ ~IsComplete(old) /\ ~IsComplete(new)
    BY <1>4, RowFacts, Zenon DEF Union
  <2>3. /\ Partial({}).size = {} /\ Partial({Size1}).size = {Size1}
    BY DEF Partial
  <2>4. old.size \union new.size \in {{}, {Size1}}
    BY <2>1, <2>3
  <2>5. old.size \union new.size = {} => old.size = {}
    BY Zenon
  <2>6. old.size = {} => old = Partial({})
    BY <2>1, <2>3
  <2> QED
    BY <2>1, <2>2, <2>4, <2>5, <2>6, Zenon DEF Rows
<1> QED
  BY <1>1, <1>2, <1>3, <1>4, RowFacts, Zenon

-----------------------------------------------------------------------------
(* The queue of the metadata actor *)

\* What sending does to the queue.
LEMMA Sent ==
  ASSUME NEW q \in Seq(Msgs), NEW m \in Msgs, NEW r, r = Append(q, m)
  PROVE  \E l : /\ r \in Seq(Msgs) /\ r[l] = m
                /\ \A i \in 1..Len(q) : r[i] = q[i] /\ i # l
                /\ \A i \in 1..Len(r) : i = l \/ i \in 1..Len(q)
<1>1. /\ r \in Seq(Msgs) /\ r[Len(q) + 1] = m
      /\ \A i \in 1..Len(q) : r[i] = q[i] /\ i # Len(q) + 1
      /\ \A i \in 1..Len(r) : i = Len(q) + 1 \/ i \in 1..Len(q)
  OBVIOUS
<1> QED
  BY <1>1, Zenon

\* What taking a command does to it.
LEMMA Received ==
  ASSUME NEW q \in Seq(Msgs), q # <<>>
  PROVE  /\ Tail(q) \in Seq(Msgs) /\ Head(q) \in Msgs /\ Head(q) = q[1] /\ 1 \in 1..Len(q)
         /\ \A i \in 1..Len(Tail(q)) : i + 1 \in 1..Len(q) /\ Tail(q)[i] = q[i + 1] /\ i + 1 # 1
         /\ \A i, j \in 1..Len(Tail(q)) : i + 1 = j + 1 => i = j
<1>1. /\ Tail(q) \in Seq(Msgs) /\ Head(q) \in Msgs /\ Head(q) = q[1]
      /\ Len(q) \in Nat /\ Len(q) >= 1 /\ Len(Tail(q)) = Len(q) - 1
      /\ \A i \in 1..(Len(q) - 1) : Tail(q)[i] = q[i + 1]
  OBVIOUS
<1> QED
  BY <1>1

\* A message is what its sender may send.
LEMMA MsgFacts ==
  ASSUME NEW m \in Msgs
  PROVE  /\ m.entry \in MaybeRow /\ m.from \in Task \union {"none"} /\ m.op \in Sends(m.from)
         /\ m.op \in {"Update", "Set"} => m.entry \in Rows
         /\ m.op = "Set" \/ m.from = "imp" => IsComplete(m.entry)
<1>1. m \in [op : {"Get", "Set", "Update", "ClearProtected", "Snapshot", "Delete"},
             entry : MaybeRow, from : Task \union {"none"}]
  BY Zenon DEF Msgs
<1>2. m.entry \in MaybeRow /\ m.from \in Task \union {"none"}
  BY <1>1
<1> QED
  BY <1>2, Zenon DEF Msgs, MaybeRow

\* The messages of the tasks.
LEMMA CommandFacts ==
  /\ \A t \in {"ld", "ex"} : Command("Get", Absent, t) \in Msgs
  /\ \A t \in {"ld", "ex"}, e \in {OwnedEntry, ExternalEntry} : Command("Set", e, t) \in Msgs
  /\ \A e \in {OwnedEntry, ExternalEntry} : Command("Update", e, "imp") \in Msgs
  /\ \A e \in Rows : Command("Update", e, "none") \in Msgs
  /\ \A op \in {"ClearProtected", "Snapshot", "Delete"} : Command(op, Absent, "gc") \in Msgs
  /\ \A op, e, t : /\ Command(op, e, t).op = op /\ Command(op, e, t).entry = e
                   /\ Command(op, e, t).from = t
<1>0. \A op, e, t : /\ Command(op, e, t).op = op /\ Command(op, e, t).entry = e
                    /\ Command(op, e, t).from = t
  BY DEF Command
<1>1. ASSUME NEW op \in {"Get", "Set", "Update", "ClearProtected", "Snapshot", "Delete"},
             NEW e \in MaybeRow, NEW t \in Task \union {"none"}, op \in Sends(t),
             op \in {"Update", "Set"} => e # Absent, op = "Set" \/ t = "imp" => IsComplete(e)
      PROVE  Command(op, e, t) \in Msgs
  <2>1. Command(op, e, t) \in [op : {"Get", "Set", "Update", "ClearProtected", "Snapshot", "Delete"},
                               entry : MaybeRow, from : Task \union {"none"}]
    BY DEF Command
  <2> DEFINE m == Command(op, e, t)
  <2>2. /\ m.op = op /\ m.entry = e /\ m.from = t
        /\ m \in [op : {"Get", "Set", "Update", "ClearProtected", "Snapshot", "Delete"},
                 entry : MaybeRow, from : Task \union {"none"}]
    BY <2>1 DEF Command
  <2> HIDE DEF m
  <2>3. m \in Msgs
    BY <1>1, <2>2 DEF Msgs
  <2> QED
    BY <2>3, Zenon DEF m
<1>2. /\ Sends("imp") = {"Update"} /\ Sends("none") = {"Update"} /\ Sends("ld") = {"Get", "Set"}
      /\ Sends("ex") = {"Get", "Set"} /\ Sends("gc") = {"ClearProtected", "Snapshot", "Delete"}
  BY DEF Sends
<1>3. \A e \in {OwnedEntry, ExternalEntry} : e \in Rows /\ IsComplete(e)
  BY RowFacts, Zenon DEF Rows
<1>4. /\ \A e \in Rows : e \in MaybeRow /\ e # Absent
      /\ Absent \in MaybeRow
  BY RowFacts, Zenon DEF MaybeRow
<1>5. ASSUME NEW t \in {"ld", "ex"} PROVE Command("Get", Absent, t) \in Msgs
  <2>1. "Get" \in Sends(t) /\ t # "imp" /\ t \in Task \union {"none"}
    BY <1>2 DEF Task
  <2> QED
    BY <1>1, <1>4, <2>1
<1>6. ASSUME NEW t \in {"ld", "ex"}, NEW e \in {OwnedEntry, ExternalEntry}
      PROVE  Command("Set", e, t) \in Msgs
  <2>1. "Set" \in Sends(t) /\ t \in Task \union {"none"}
    BY <1>2 DEF Task
  <2> QED
    BY <1>1, <1>3, <1>4, <2>1, Zenon
<1>7. ASSUME NEW e \in {OwnedEntry, ExternalEntry} PROVE Command("Update", e, "imp") \in Msgs
  <2>1. "Update" \in Sends("imp") /\ "imp" \in Task \union {"none"}
    BY <1>2 DEF Task
  <2> QED
    BY <1>1, <1>3, <1>4, <2>1, Zenon
<1>8. ASSUME NEW e \in Rows PROVE Command("Update", e, "none") \in Msgs
  <2>1. "Update" \in Sends("none") /\ "none" \in Task \union {"none"} /\ "Update" # "Set" /\ "none" # "imp"
    BY <1>2
  <2> QED
    BY <1>1, <1>4, <2>1, Zenon
<1>9. ASSUME NEW op \in {"ClearProtected", "Snapshot", "Delete"} PROVE Command(op, Absent, "gc") \in Msgs
  <2>1. /\ op \in Sends("gc") /\ "gc" \in Task \union {"none"} /\ "gc" # "imp"
        /\ op \notin {"Update", "Set"}
    BY <1>2 DEF Task
  <2> QED
    BY <1>1, <1>4, <2>1, Zenon
<1> QED
  BY <1>0, <1>5, <1>6, <1>7, <1>8, <1>9

\* What each task waits for.
LEMMA ExpectedFacts ==
  /\ expected["imp"] = {op \in {"Update"} : imp.at = "wait"}
  /\ expected["ld"] = {op \in {"Get"} : ld = "wait"} \union {op \in {"Set"} : ld = "setwait"}
  /\ expected["ex"] = {op \in {"Get"} : ex = "wait"} \union {op \in {"Set"} : ex = "setwait"}
  /\ expected["gc"] = {op \in {"ClearProtected"} : gc = "clear"}
                        \union {op \in {"Snapshot"} : gc = "list"}
                        \union {op \in {"Delete"} : gc = "wait"}
BY DEF expected, Task

\* A step of one task leaves the expectations of the others alone.
LEMMA ExpectedFrame ==
  /\ imp' = imp => expected'["imp"] = expected["imp"]
  /\ ld' = ld => expected'["ld"] = expected["ld"]
  /\ ex' = ex => expected'["ex"] = expected["ex"]
  /\ gc' = gc => expected'["gc"] = expected["gc"]
BY DEF expected, Task

\* A command in the queue is one its task waits for.
LEMMA PendingWaits ==
  ASSUME Proto, NEW i \in 1..Len(queue), queue[i].from \in Task
  PROVE  /\ expected[queue[i].from] # {} /\ mail[queue[i].from] = {}
         /\ queue[i].op \in expected[queue[i].from]
BY Zenon DEF Proto

\* The tasks keep waiting for what they wait for.
LEMMA ProtoQuiet ==
  ASSUME Proto, queue' = queue, mail' = mail, \A u \in Task : expected[u] \subseteq expected'[u]
  PROVE  Proto'
<1>1. ASSUME NEW u \in Task, mail[u] # {} PROVE expected'[u] # {}
  BY <1>1, Zenon DEF Proto
<1>2. ASSUME NEW i \in 1..Len(queue), queue[i].from \in Task
      PROVE  queue[i].op \in expected'[queue[i].from] /\ mail[queue[i].from] = {}
  BY <1>2, PendingWaits, Zenon
<1> QED
  BY <1>1, <1>2, Zenon DEF Proto

\* A task that did not wait sends a command and waits.
LEMMA ProtoSend ==
  ASSUME Proto, NEW t \in Task, NEW m \in Msgs, m.from = t, expected[t] = {},
         queue' = Append(queue, m), mail' = mail, m.op \in expected'[t],
         \A u \in Task : u # t => expected'[u] = expected[u]
  PROVE  Proto'
<1>1. queue \in Seq(Msgs)
  BY Zenon DEF Proto
<1>2. PICK l : /\ queue' \in Seq(Msgs) /\ queue'[l] = m
               /\ \A i \in 1..Len(queue) : queue'[i] = queue[i] /\ i # l
               /\ \A i \in 1..Len(queue') : i = l \/ i \in 1..Len(queue)
  BY <1>1, Sent
<1>3. ASSUME NEW i \in 1..Len(queue), queue[i].from \in Task
      PROVE  queue[i].from # t /\ queue[i].op \in expected'[queue[i].from] /\ mail[queue[i].from] = {}
  <2>1. queue[i].from # t
    BY <1>3, PendingWaits, Zenon
  <2> QED
    BY <1>3, <2>1, PendingWaits, Zenon
<1>4. mail[t] = {} /\ mail \in [Task -> SUBSET MaybeRow]
  BY Zenon DEF Proto
<1>5. ASSUME NEW i \in 1..Len(queue'), queue'[i].from \in Task
      PROVE  queue'[i].op \in expected'[queue'[i].from] /\ mail[queue'[i].from] = {}
  <2>1. CASE i = l
    BY <1>2, <1>4, <2>1, Zenon
  <2>2. CASE i \in 1..Len(queue)
    <3>1. queue'[i] = queue[i]
      BY <1>2, <2>2, Zenon
    <3> QED
      BY <1>3, <1>5, <2>2, <3>1, Zenon
  <2> QED
    BY <1>2, <2>1, <2>2, Zenon
<1>6. ASSUME NEW i \in 1..Len(queue'), NEW j \in 1..Len(queue'),
             queue'[i].from = queue'[j].from, queue'[i].from \in Task
      PROVE  i = j
  <2>1. CASE i = l /\ j = l
    BY <2>1, Zenon
  <2>2. CASE i = l /\ j \in 1..Len(queue)
    BY <1>2, <1>3, <1>6, <2>2, ZenonT(60)
  <2>3. CASE i \in 1..Len(queue) /\ j = l
    BY <1>2, <1>3, <1>6, <2>3, Zenon
  <2>4. CASE i \in 1..Len(queue) /\ j \in 1..Len(queue)
    <3>1. queue[i].from = queue[j].from /\ queue[i].from \in Task
      BY <1>2, <1>6, <2>4, Zenon
    <3> QED
      BY <2>4, <3>1, Zenon DEF Proto
  <2> QED
    BY <1>2, <2>1, <2>2, <2>3, <2>4, Zenon
<1>7. ASSUME NEW u \in Task, mail[u] # {} PROVE expected'[u] # {}
  <2>1. u # t /\ expected[u] # {}
    BY <1>4, <1>7, Zenon DEF Proto
  <2> QED
    BY <2>1, Zenon
<1> QED
  BY <1>2, <1>4, <1>5, <1>6, <1>7, Zenon DEF Proto

\* An update that nobody waits for is sent.
LEMMA ProtoPost ==
  ASSUME Proto, NEW m \in Msgs, m.from \notin Task,
         queue' = Append(queue, m), mail' = mail,
         \A u \in Task : expected'[u] = expected[u]
  PROVE  Proto'
<1>1. queue \in Seq(Msgs) /\ mail \in [Task -> SUBSET MaybeRow]
  BY Zenon DEF Proto
<1>2. PICK l : /\ queue' \in Seq(Msgs) /\ queue'[l] = m
               /\ \A i \in 1..Len(queue) : queue'[i] = queue[i] /\ i # l
               /\ \A i \in 1..Len(queue') : i = l \/ i \in 1..Len(queue)
  BY <1>1, Sent
<1>3. ASSUME NEW i \in 1..Len(queue'), queue'[i].from \in Task
      PROVE  i \in 1..Len(queue) /\ queue'[i] = queue[i]
  BY <1>2, <1>3, Zenon
<1>4. ASSUME NEW i \in 1..Len(queue'), queue'[i].from \in Task
      PROVE  queue'[i].op \in expected'[queue'[i].from] /\ mail[queue'[i].from] = {}
  <2>1. i \in 1..Len(queue) /\ queue'[i] = queue[i] /\ queue[i].from \in Task
    BY <1>3, <1>4, Zenon
  <2>2. queue[i].op \in expected'[queue[i].from] /\ mail[queue[i].from] = {}
    BY <2>1, PendingWaits, Zenon
  <2> QED
    BY <2>1, <2>2, Zenon
<1>5. ASSUME NEW i \in 1..Len(queue'), NEW j \in 1..Len(queue'),
             queue'[i].from = queue'[j].from, queue'[i].from \in Task
      PROVE  i = j
  <2>1. i \in 1..Len(queue) /\ j \in 1..Len(queue) /\ queue'[i] = queue[i] /\ queue'[j] = queue[j]
    BY <1>3, <1>5, Zenon
  <2> QED
    BY <1>5, <2>1, Zenon DEF Proto
<1>6. \A u \in Task : mail[u] # {} => expected'[u] # {}
  BY Zenon DEF Proto
<1> QED
  BY <1>1, <1>2, <1>4, <1>5, <1>6, Zenon DEF Proto

\* The metadata actor takes the first command and answers it.
LEMMA ProtoAnswer ==
  ASSUME Proto, queue # <<>>, queue' = Tail(queue), NEW e \in MaybeRow, Answer(e),
         \A u \in Task : expected'[u] = expected[u]
  PROVE  Proto'
<1>1. queue \in Seq(Msgs) /\ mail \in [Task -> SUBSET MaybeRow]
  BY Zenon DEF Proto
<1>2. /\ queue' \in Seq(Msgs) /\ Head(queue) = queue[1] /\ 1 \in 1..Len(queue)
      /\ \A i \in 1..Len(queue') : i + 1 \in 1..Len(queue) /\ queue'[i] = queue[i + 1] /\ i + 1 # 1
      /\ \A i, j \in 1..Len(queue') : i + 1 = j + 1 => i = j
  BY <1>1, Received, Zenon
<1>5. /\ mail' \in [Task -> SUBSET MaybeRow]
      /\ \A u \in Task : u # queue[1].from => mail'[u] = mail[u]
  BY <1>1, <1>2 DEF Answer, Cmd
<1>6. queue[1].from \in Task => expected[queue[1].from] # {}
  BY <1>2, PendingWaits, Zenon
<1>7. ASSUME NEW i \in 1..Len(queue'), queue'[i].from \in Task
      PROVE  queue'[i].op \in expected'[queue'[i].from] /\ mail'[queue'[i].from] = {}
  <2>1. /\ i + 1 \in 1..Len(queue) /\ queue'[i] = queue[i + 1] /\ i + 1 # 1
        /\ queue[i + 1].from \in Task
    BY <1>2, <1>7, Zenon
  <2>2. queue[i + 1].from # queue[1].from
    BY <1>2, <2>1, Zenon DEF Proto
  <2>3. queue[i + 1].op \in expected'[queue[i + 1].from] /\ mail[queue[i + 1].from] = {}
    BY <2>1, PendingWaits, Zenon
  <2>4. mail'[queue[i + 1].from] = {}
    BY <1>5, <2>1, <2>2, <2>3, Zenon
  <2> QED
    BY <2>1, <2>3, <2>4, Zenon
<1>8. ASSUME NEW i \in 1..Len(queue'), NEW j \in 1..Len(queue'),
             queue'[i].from = queue'[j].from, queue'[i].from \in Task
      PROVE  i = j
  <2>1. /\ i + 1 \in 1..Len(queue) /\ queue'[i] = queue[i + 1]
        /\ j + 1 \in 1..Len(queue) /\ queue'[j] = queue[j + 1]
    BY <1>2, Zenon
  <2>2. i + 1 = j + 1
    BY <1>8, <2>1, Zenon DEF Proto
  <2> QED
    BY <1>2, <2>2, Zenon
<1>9. ASSUME NEW u \in Task, mail'[u] # {} PROVE expected'[u] # {}
  <2>1. CASE u = queue[1].from
    BY <1>6, <2>1, Zenon
  <2>2. CASE u # queue[1].from
    BY <1>5, <1>9, <2>2, Zenon DEF Proto
  <2> QED
    BY <2>1, <2>2, Zenon
<1> QED
  BY <1>2, <1>5, <1>7, <1>8, <1>9, Zenon DEF Proto

\* A task takes its answer: no command of its is in the queue.
LEMMA ProtoTake ==
  ASSUME Proto, NEW t \in Task, Take(t), queue' = queue,
         \A u \in Task : u # t => expected'[u] = expected[u]
  PROVE  Proto'
<1>1. mail[t] # {} /\ mail \in [Task -> SUBSET MaybeRow]
  BY Zenon DEF Proto, Take
<1>2. /\ mail' \in [Task -> SUBSET MaybeRow] /\ mail'[t] = {}
      /\ \A u \in Task : u # t => mail'[u] = mail[u]
  BY <1>1 DEF Take
<1>3. \A i \in 1..Len(queue) : queue[i].from # t
  BY <1>1, PendingWaits, Zenon
<1>4. ASSUME NEW i \in 1..Len(queue), queue[i].from \in Task
      PROVE  queue[i].op \in expected'[queue[i].from] /\ mail'[queue[i].from] = {}
  BY <1>2, <1>3, <1>4, PendingWaits, Zenon
<1>5. ASSUME NEW u \in Task, mail'[u] # {} PROVE expected'[u] # {}
  <2>1. u # t /\ expected[u] # {}
    BY <1>2, <1>5, Zenon DEF Proto
  <2> QED
    BY <2>1, Zenon
<1> QED
  BY <1>2, <1>4, <1>5, Zenon DEF Proto

\* The collector takes the list and sends the deletion at once.
LEMMA ProtoTakeSend ==
  ASSUME Proto, NEW t \in Task, Take(t), NEW m \in Msgs, m.from = t,
         queue' = Append(queue, m), m.op \in expected'[t],
         \A u \in Task : u # t => expected'[u] = expected[u]
  PROVE  Proto'
<1>1. mail[t] # {} /\ mail \in [Task -> SUBSET MaybeRow] /\ queue \in Seq(Msgs)
  BY Zenon DEF Proto, Take
<1>2. /\ mail' \in [Task -> SUBSET MaybeRow] /\ mail'[t] = {}
      /\ \A u \in Task : u # t => mail'[u] = mail[u]
  BY <1>1 DEF Take
<1>3. ASSUME NEW i \in 1..Len(queue), queue[i].from \in Task
      PROVE  queue[i].from # t /\ queue[i].op \in expected'[queue[i].from] /\ mail'[queue[i].from] = {}
  <2>1. queue[i].from # t
    BY <1>1, <1>3, PendingWaits, Zenon
  <2> QED
    BY <1>2, <1>3, <2>1, PendingWaits, Zenon
<1>4. PICK l : /\ queue' \in Seq(Msgs) /\ queue'[l] = m
               /\ \A i \in 1..Len(queue) : queue'[i] = queue[i] /\ i # l
               /\ \A i \in 1..Len(queue') : i = l \/ i \in 1..Len(queue)
  BY <1>1, Sent
<1>5. ASSUME NEW i \in 1..Len(queue'), queue'[i].from \in Task
      PROVE  queue'[i].op \in expected'[queue'[i].from] /\ mail'[queue'[i].from] = {}
  <2>1. CASE i = l
    BY <1>2, <1>4, <2>1, Zenon
  <2>2. CASE i \in 1..Len(queue)
    <3>1. queue'[i] = queue[i]
      BY <1>4, <2>2, Zenon
    <3> QED
      BY <1>3, <1>5, <2>2, <3>1, Zenon
  <2> QED
    BY <1>4, <2>1, <2>2, Zenon
<1>6. ASSUME NEW i \in 1..Len(queue'), NEW j \in 1..Len(queue'),
             queue'[i].from = queue'[j].from, queue'[i].from \in Task
      PROVE  i = j
  <2>1. CASE i = l /\ j = l
    BY <2>1, Zenon
  <2>2. CASE i = l /\ j \in 1..Len(queue)
    BY <1>3, <1>4, <1>6, <2>2, Zenon
  <2>3. CASE i \in 1..Len(queue) /\ j = l
    BY <1>3, <1>4, <1>6, <2>3, Zenon
  <2>4. CASE i \in 1..Len(queue) /\ j \in 1..Len(queue)
    <3>1. queue[i].from = queue[j].from /\ queue[i].from \in Task
      BY <1>4, <1>6, <2>4, Zenon
    <3> QED
      BY <2>4, <3>1, Zenon DEF Proto
  <2> QED
    BY <1>4, <2>1, <2>2, <2>3, <2>4, Zenon
<1>7. ASSUME NEW u \in Task, mail'[u] # {} PROVE expected'[u] # {}
  <2>1. u # t /\ expected[u] # {}
    BY <1>2, <1>7, Zenon DEF Proto
  <2> QED
    BY <2>1, Zenon
<1> QED
  BY <1>2, <1>4, <1>5, <1>6, <1>7, Zenon DEF Proto

-----------------------------------------------------------------------------
(* Steps of the tasks *)

LEMMA ImpAt ==
  ASSUME imp \in Imports, NEW s, imp' = [imp EXCEPT !.at = s],
         s \in {"idle", "load", "rename", "open", "send", "wait", "acked"}
  PROVE  imp' \in Imports /\ imp'.at = s /\ imp'.ref = imp.ref
BY DEF Imports

LEMMA DlAt ==
  ASSUME dl \in Downloads, NEW s \in {"idle", "load", "write", "send"}, dl' = [dl EXCEPT !.at = s]
  PROVE  dl' \in Downloads /\ dl'.at = s /\ dl'.update = dl.update
BY DEF Downloads

LEMMA HandleFields ==
  ASSUME NEW st, NEW bits, NEW fd
  PROVE  /\ Handle(st, bits, fd) = Handle(Handle(st, bits, fd).st, Handle(st, bits, fd).bits,
                                          Handle(st, bits, fd).fd)
         /\ Handle(st, bits, fd).st = st /\ Handle(st, bits, fd).bits = bits
         /\ Handle(st, bits, fd).fd = fd
BY DEF Handle

\* The path of an open file is taken away: the rest of the handle stays.
LEMMA DetachedFields ==
  ASSUME LoadInv, NEW P
  PROVE  /\ Detached(P) = Handle(hd.st, hd.bits, Detached(P).fd)
         /\ Detached(P).st = hd.st /\ Detached(P).bits = hd.bits
         /\ Detached(P).fd =
              [p \in Opened |->
                 IF p \in P /\ hd.fd[p] = Linked
                      /\ (hd.st \in {"Partial", "Complete"} \/ ld \in {"set", "setwait"})
                 THEN file[p] ELSE hd.fd[p]]
<1> DEFINE f == [p \in Opened |->
                   IF p \in P /\ hd.fd[p] = Linked
                        /\ (hd.st \in {"Partial", "Complete"} \/ ld \in {"set", "setwait"})
                   THEN file[p] ELSE hd.fd[p]]
<1>1. Detached(P) = [hd EXCEPT !.fd = f]
  BY Zenon DEF Detached
<1> HIDE DEF f
<1>2. hd = [st |-> hd.st, bits |-> hd.bits, fd |-> hd.fd]
  BY Zenon DEF LoadInv, Handle
<1>3. [hd EXCEPT !.fd = f] = [st |-> hd.st, bits |-> hd.bits, fd |-> f]
  BY <1>2
<1>4. Detached(P) = Handle(hd.st, hd.bits, f)
  BY <1>1, <1>3, Zenon DEF Handle
<1>5. Detached(P).st = hd.st /\ Detached(P).bits = hd.bits /\ Detached(P).fd = f
  BY <1>4 DEF Handle
<1> QED
  BY <1>4, <1>5, Zenon DEF f

\* LoadInv is kept by steps that leave the handle alone, take a path from it,
\* or give it a new state while nobody loads it.
LEMMA LoadKept ==
  ASSUME LoadInv,
         \/ hd' = hd /\ ld' = ld
         \/ hd' = hd /\ ld # "idle"
         \/ ld' = ld /\ \E P : hd' = Detached(P)
         \/ ld' = "idle" /\ \E st, bits, fd : hd' = Handle(st, bits, fd)
         \/ \E bits, fd : hd' = Handle("Loading", bits, fd)
  PROVE  LoadInv'
<1>1. CASE hd' = hd /\ (ld' = ld \/ ld # "idle")
  BY <1>1, Zenon DEF LoadInv
<1>2. CASE ld' = ld /\ \E P : hd' = Detached(P)
  <2>1. PICK P : hd' = Detached(P)
    BY <1>2, Zenon
  <2>2. hd' = Handle(hd'.st, hd'.bits, hd'.fd) /\ hd'.st = hd.st
    BY <2>1, DetachedFields, Zenon
  <2> QED
    BY <1>2, <2>2, Zenon DEF LoadInv
<1>3. CASE ld' = "idle" /\ \E st, bits, fd : hd' = Handle(st, bits, fd)
  <2>1. PICK st, bits, fd : hd' = Handle(st, bits, fd)
    BY <1>3, Zenon
  <2>2. hd' = Handle(hd'.st, hd'.bits, hd'.fd)
    BY <2>1 DEF Handle
  <2> QED
    BY <1>3, <2>2, Zenon DEF LoadInv
<1>4. CASE \E bits, fd : hd' = Handle("Loading", bits, fd)
  <2>1. PICK bits, fd : hd' = Handle("Loading", bits, fd)
    BY <1>4, Zenon
  <2>2. hd' = Handle(hd'.st, hd'.bits, hd'.fd) /\ hd'.st = "Loading"
    BY <2>1 DEF Handle
  <2> QED
    BY <2>2, Zenon DEF LoadInv
<1> QED
  BY <1>1, <1>2, <1>3, <1>4, Zenon

\* A step outside the metadata actor keeps QInv if it keeps the protocol and
\* gives no import an answer.
LEMMA OutsideStep ==
  ASSUME QInv, UNCHANGED <<db, row, txn, protected>>, Proto', LoadInv',
         imp' \in Imports, dl' \in Downloads,
         mail'["imp"] # {} \/ imp'.at = "acked" =>
           /\ mail["imp"] # {} \/ imp.at = "acked"
           /\ gc' \in {"sweep", "list", "wait"} => gc \in {"sweep", "list", "wait"}
  PROVE  QInv'
<1>1. RowTypes'
  BY Zenon DEF QInv, RowTypes
<1>2. Now' = Now
  BY Zenon DEF Now
<1>3. Stored'
  BY <1>2, Zenon DEF QInv, Stored
<1> QED
  BY <1>1, <1>3, Zenon DEF QInv

\* Steps that touch neither queue nor mail.
LEMMA SilentStep ==
  ASSUME QInv, UNCHANGED <<db, row, txn, protected, queue, mail, ex, gc>>, LoadInv',
         imp' \in Imports, dl' \in Downloads,
         ld' = ld \/ ld \notin {"wait", "setwait"},
         imp' = imp \/ imp.at # "wait", imp'.at = "acked" => imp.at = "acked"
  PROVE  QInv'
<1>1. Proto /\ mail' = mail /\ gc' = gc
  BY Zenon DEF QInv
<1>2. expected["ld"] \subseteq expected'["ld"]
  BY ExpectedFacts, ExpectedFrame, Zenon
<1>3. expected["imp"] \subseteq expected'["imp"]
  BY ExpectedFacts, ExpectedFrame, Zenon
<1>4. expected'["ex"] = expected["ex"] /\ expected'["gc"] = expected["gc"]
  BY ExpectedFrame, Zenon
<1>5. \A u \in Task : expected[u] \subseteq expected'[u]
  BY <1>2, <1>3, <1>4, Zenon DEF Task
<1>6. Proto'
  BY <1>1, <1>5, ProtoQuiet, Zenon
<1> QED
  BY <1>1, <1>6, OutsideStep, Zenon

\* The steps that touch neither queue nor mail.
LEMMA SilentSteps ==
  ASSUME QInv,
         \/ StartLoad \/ Persist \/ StartDownload \/ DownloadLoaded \/ EndDownload
         \/ StartImport \/ ImportProtects \/ ImportRenames \/ ImportOpens \/ DropTempTag
         \/ \E B \in (SUBSET Chunk) \ {{}} : WriteNew(B) \/ WritePartial(B) \/ WriteFails(B)
  PROVE  QInv'
<1>0. LoadInv /\ imp \in Imports /\ dl \in Downloads
  BY Zenon DEF QInv, RowTypes
<1>1. CASE StartLoad
  <2>1. hd' = Handle("Loading", {}, Closed) /\ ld = "idle"
    BY <1>0, <1>1, Zenon DEF StartLoad, NoHandle, LoadInv
  <2>2. LoadInv'
    BY <1>0, <2>1, LoadKept, Zenon
  <2> QED
    BY <1>0, <1>1, <2>1, <2>2, SilentStep, Zenon DEF StartLoad, meta, tasks
<1>2. CASE Persist
  <2>1. hd' = Handle("Initial", {}, Closed) /\ ld' = "idle"
    BY <1>2, Zenon DEF Persist, NoHandle
  <2>2. LoadInv'
    BY <1>0, <2>1, LoadKept, Zenon
  <2> QED
    BY <1>0, <1>2, <2>2, SilentStep, Zenon DEF Persist, meta, tasks
<1>3. CASE StartDownload \/ DownloadLoaded \/ EndDownload
  <2>1. \E s \in {"idle", "load", "write"} : dl' = [dl EXCEPT !.at = s]
    BY <1>3, Zenon DEF StartDownload, DownloadLoaded, EndDownload
  <2>2. dl' \in Downloads
    BY <1>0, <2>1, DlAt, Zenon
  <2>3. UNCHANGED <<meta, queue, mail, hd, ld, imp, ex, gc>>
    BY <1>3, Zenon DEF StartDownload, DownloadLoaded, EndDownload
  <2>4. LoadInv'
    BY <1>0, <2>3, LoadKept, Zenon
  <2> QED
    BY <1>0, <2>2, <2>3, <2>4, SilentStep, Zenon DEF meta
<1>4. CASE StartImport
  <2>1. imp' \in Imports /\ imp'.at = "load"
    BY <1>4 DEF StartImport, Imports
  <2>2. LoadInv'
    BY <1>0, <1>4, LoadKept, Zenon DEF StartImport
  <2> QED
    BY <1>0, <1>4, <2>1, <2>2, SilentStep, Zenon DEF StartImport, meta
<1>5. CASE DropTempTag
  <2>1. imp' \in Imports /\ imp'.at = "idle"
    BY <1>5 DEF DropTempTag, Imports
  <2>2. LoadInv'
    BY <1>0, <1>5, LoadKept, Zenon DEF DropTempTag
  <2> QED
    BY <1>0, <1>5, <2>1, <2>2, SilentStep, Zenon DEF DropTempTag, meta
<1>6. CASE ImportProtects
  <2>1. imp' \in Imports /\ imp'.at = "rename"
    BY <1>0, <1>6, ImpAt, Zenon DEF ImportProtects
  <2>2. LoadInv'
    BY <1>0, <1>6, LoadKept, Zenon DEF ImportProtects
  <2> QED
    BY <1>0, <1>6, <2>1, <2>2, SilentStep, Zenon DEF ImportProtects
<1>7. CASE ImportRenames
  <2>1. imp' \in Imports /\ imp'.at = "open"
    BY <1>0, <1>7, ImpAt, Zenon DEF ImportRenames
  <2>2. ld' = ld /\ \E P : hd' = Detached(P)
    BY <1>7, Zenon DEF ImportRenames
  <2>3. LoadInv'
    BY <1>0, <2>2, LoadKept, Zenon
  <2> QED
    BY <1>0, <1>7, <2>1, <2>3, SilentStep, Zenon DEF ImportRenames, meta
<1>8. CASE ImportOpens
  <2>1. CASE CanOpen(ImportedEntry)
    <3>1. imp' \in Imports /\ imp'.at = "send"
      BY <1>0, <1>8, <2>1, ImpAt, Zenon DEF ImportOpens
    <3>4. LoadInv'
      <4>1. CASE hd.st \in {"NonExisting", "Partial"}
        <5>1. hd' = Handle("Complete", Chunk, OpenFiles(ImportedEntry)) /\ ld' = ld /\ ld = "idle"
          BY <1>0, <1>8, <2>1, <4>1, Zenon DEF ImportOpens, LoadInv
        <5> QED
          BY <1>0, <5>1, LoadKept, Zenon
      <4>2. CASE hd.st \notin {"NonExisting", "Partial"}
        BY <1>0, <1>8, <2>1, <4>2, LoadKept, Zenon DEF ImportOpens
      <4> QED
        BY <4>1, <4>2, Zenon
    <3> QED
      BY <1>0, <1>8, <3>1, <3>4, SilentStep, Zenon DEF ImportOpens, meta
  <2>2. CASE ~CanOpen(ImportedEntry)
    <3>1. imp' = [at |-> "idle", ref |-> FALSE] /\ UNCHANGED <<hd, ld>>
      BY <1>8, <2>2, Zenon DEF ImportOpens
    <3>2. imp' \in Imports /\ imp'.at = "idle"
      BY <3>1 DEF Imports
    <3>3. LoadInv'
      BY <1>0, <3>1, LoadKept, Zenon
    <3> QED
      BY <1>0, <1>8, <3>2, <3>3, SilentStep, Zenon DEF ImportOpens, meta
  <2> QED
    BY <2>1, <2>2, Zenon
<1>9. CASE \E B \in (SUBSET Chunk) \ {{}} : WriteNew(B) \/ WritePartial(B) \/ WriteFails(B)
  <2>1. PICK B \in (SUBSET Chunk) \ {{}} : WriteNew(B) \/ WritePartial(B) \/ WriteFails(B)
    BY <1>9, Zenon
  <2>2. /\ UNCHANGED <<db, row, txn, protected, queue, mail, ld, imp, ex, gc>>
        /\ hd.st \in {"NonExisting", "Partial"}
    BY <2>1, Zenon DEF WriteNew, WritePartial, WriteFails, meta
  <2>3. ld' = "idle"
    BY <1>0, <2>2, Zenon DEF LoadInv
  <2>4. CASE WriteFails(B)
    <3>1. dl' \in Downloads
      BY <1>0, <2>4, DlAt, Zenon DEF WriteFails
    <3>2. hd' = Handle("Poisoned", {}, Closed)
      BY <2>4, Zenon DEF WriteFails, NoHandle
    <3>3. LoadInv'
      BY <1>0, <2>3, <3>2, LoadKept, Zenon
    <3> QED
      BY <1>0, <2>2, <3>1, <3>3, SilentStep, Zenon
  <2>5. CASE \E bits, fd, old : AfterWrite(bits, fd, old)
    <3>1. PICK bits, fd, old : AfterWrite(bits, fd, old)
      BY <2>5, Zenon
    <3>2. \E st, bs, f : hd' = Handle(st, bs, f)
      BY <3>1, Zenon DEF AfterWrite
    <3>3. LoadInv'
      BY <1>0, <2>3, <3>2, LoadKept, Zenon
    <3>4. \/ dl' = dl
          \/ \E e \in {OwnedEntry, Partial(Known(bits))} : dl' = [at |-> "send", update |-> {e}]
      BY <3>1, Zenon DEF AfterWrite
    <3>5. {OwnedEntry, Partial(Known(bits))} \subseteq Rows
      BY Zenon DEF Rows, Known
    <3>6. dl' \in Downloads
      BY <1>0, <3>4, <3>5 DEF Downloads
    <3> QED
      BY <1>0, <2>2, <3>3, <3>6, SilentStep, Zenon
  <2> QED
    BY <2>1, <2>4, <2>5, Zenon DEF WriteNew, WritePartial
<1> QED
  BY <1>1, <1>2, <1>3, <1>4, <1>5, <1>6, <1>7, <1>8, <1>9, Zenon

LEMMA ExpectedNext ==
  /\ imp'.at = "wait" => "Update" \in expected'["imp"]
  /\ ld' = "wait" => "Get" \in expected'["ld"]
  /\ ld' = "setwait" => "Set" \in expected'["ld"]
  /\ ex' = "wait" => "Get" \in expected'["ex"]
  /\ ex' = "setwait" => "Set" \in expected'["ex"]
  /\ gc' = "clear" => "ClearProtected" \in expected'["gc"]
  /\ gc' = "list" => "Snapshot" \in expected'["gc"]
  /\ gc' = "wait" => "Delete" \in expected'["gc"]
BY DEF expected, Task

\* A task that does not wait sends a command and waits for its answer.
LEMMA SendingStep ==
  ASSUME QInv, UNCHANGED <<db, row, txn, protected, mail, dl>>, LoadInv',
         NEW t \in Task, NEW op, NEW e, Command(op, e, t) \in Msgs, expected[t] = {},
         Send(op, e, t), op \in expected'[t],
         \A u \in Task : u # t => expected'[u] = expected[u],
         imp' \in Imports, imp'.at = "acked" => imp.at = "acked",
         gc' \in {"sweep", "list", "wait"} => gc \in {"sweep", "list", "wait"}
  PROVE  QInv'
<1>1. Proto /\ mail' = mail
  BY Zenon DEF QInv
<1>2. Proto'
  <2>1. Command(op, e, t).from = t /\ Command(op, e, t).op = op
    BY DEF Command
  <2>2. queue' = Append(queue, Command(op, e, t))
    BY Zenon DEF Send
  <2> QED
    BY <1>1, <2>1, <2>2, ProtoSend, Zenon
<1>3. dl' \in Downloads
  BY Zenon DEF QInv, RowTypes
<1> QED
  BY <1>1, <1>2, <1>3, OutsideStep, Zenon

LEMMA SendingSteps ==
  ASSUME QInv,
         LoadGet \/ LoadSet \/ ImportSends \/ ExportGets \/ ExportSets \/ GcClears \/ GcLists
  PROVE  QInv'
<1>0. LoadInv /\ imp \in Imports /\ "ld" \in Task /\ "imp" \in Task /\ "ex" \in Task /\ "gc" \in Task
  BY Zenon DEF QInv, RowTypes, Task
<1>1. CASE LoadGet
  <2>1. Send("Get", Absent, "ld") /\ Command("Get", Absent, "ld") \in Msgs
    BY <1>1, CommandFacts, Zenon DEF LoadGet
  <2>2. ld = "ask" /\ UNCHANGED <<db, row, txn, protected, mail, hd, dl, imp, ex, gc>>
    BY <1>1, Zenon DEF LoadGet, meta, tasks
  <2>3. imp' \in Imports /\ ld' = "wait" /\ LoadInv'
    BY <1>0, <1>1, <2>2, LoadKept, Zenon DEF LoadGet
  <2>4. expected["ld"] = {} /\ "Get" \in expected'["ld"]
    BY <2>2, <2>3, ExpectedFacts, ExpectedNext, Zenon
  <2>5. \A u \in Task : u # "ld" => expected'[u] = expected[u]
    BY <2>2, ExpectedFrame, Zenon DEF Task
  <2> QED
    BY <1>0, <2>1, <2>2, <2>3, <2>4, <2>5, SendingStep, Zenon
<1>2. CASE LoadSet
  <2>1. Send("Set", OwnedEntry, "ld") /\ Command("Set", OwnedEntry, "ld") \in Msgs
    BY <1>2, CommandFacts, Zenon DEF LoadSet
  <2>2. ld = "set" /\ UNCHANGED <<db, row, txn, protected, mail, hd, dl, imp, ex, gc>>
    BY <1>2, Zenon DEF LoadSet, meta, tasks
  <2>3. imp' \in Imports /\ ld' = "setwait" /\ LoadInv'
    BY <1>0, <1>2, <2>2, LoadKept, Zenon DEF LoadSet
  <2>4. expected["ld"] = {} /\ "Set" \in expected'["ld"]
    BY <2>2, <2>3, ExpectedFacts, ExpectedNext, Zenon
  <2>5. \A u \in Task : u # "ld" => expected'[u] = expected[u]
    BY <2>2, ExpectedFrame, Zenon DEF Task
  <2> QED
    BY <1>0, <2>1, <2>2, <2>3, <2>4, <2>5, SendingStep, Zenon
<1>3. CASE ImportSends
  <2>1. Send("Update", ImportedEntry, "imp") /\ Command("Update", ImportedEntry, "imp") \in Msgs
    BY <1>3, CommandFacts, Zenon DEF ImportSends, ImportedEntry
  <2>2. imp.at = "send" /\ UNCHANGED <<db, row, txn, protected, mail, hd, dl, ld, ex, gc>>
    BY <1>3, Zenon DEF ImportSends, meta, tasks
  <2>3. imp' \in Imports /\ imp.at' = "wait" /\ LoadInv'
    BY <1>0, <1>3, <2>2, ImpAt, LoadKept, Zenon DEF ImportSends
  <2>4. expected["imp"] = {} /\ "Update" \in expected'["imp"]
    BY <2>2, <2>3, ExpectedFacts, ExpectedNext, Zenon
  <2>5. \A u \in Task : u # "imp" => expected'[u] = expected[u]
    BY <2>2, ExpectedFrame, Zenon DEF Task
  <2> QED
    BY <1>0, <2>1, <2>2, <2>3, <2>4, <2>5, SendingStep, Zenon
<1>4. CASE ExportGets
  <2>1. Send("Get", Absent, "ex") /\ Command("Get", Absent, "ex") \in Msgs
    BY <1>4, CommandFacts, Zenon DEF ExportGets
  <2>2. ex = "load" /\ UNCHANGED <<db, row, txn, protected, mail, hd, dl, ld, imp, gc>>
    BY <1>4, Zenon DEF ExportGets, meta, tasks
  <2>3. imp' \in Imports /\ ex' = "wait" /\ LoadInv'
    BY <1>0, <1>4, <2>2, LoadKept, Zenon DEF ExportGets
  <2>4. expected["ex"] = {} /\ "Get" \in expected'["ex"]
    BY <2>2, <2>3, ExpectedFacts, ExpectedNext, Zenon
  <2>5. \A u \in Task : u # "ex" => expected'[u] = expected[u]
    BY <2>2, ExpectedFrame, Zenon DEF Task
  <2> QED
    BY <1>0, <2>1, <2>2, <2>3, <2>4, <2>5, SendingStep, Zenon
<1>5. CASE ExportSets
  <2>1. Send("Set", ExternalEntry, "ex") /\ Command("Set", ExternalEntry, "ex") \in Msgs
    BY <1>5, CommandFacts, Zenon DEF ExportSets
  <2>2. ex = "set" /\ UNCHANGED <<db, row, txn, protected, mail, hd, dl, ld, imp, gc>>
    BY <1>5, Zenon DEF ExportSets, meta, tasks
  <2>3. imp' \in Imports /\ ex' = "setwait" /\ LoadInv'
    BY <1>0, <1>5, <2>2, LoadKept, Zenon DEF ExportSets
  <2>4. expected["ex"] = {} /\ "Set" \in expected'["ex"]
    BY <2>2, <2>3, ExpectedFacts, ExpectedNext, Zenon
  <2>5. \A u \in Task : u # "ex" => expected'[u] = expected[u]
    BY <2>2, ExpectedFrame, Zenon DEF Task
  <2> QED
    BY <1>0, <2>1, <2>2, <2>3, <2>4, <2>5, SendingStep, Zenon
<1>6. CASE GcClears
  <2>1. Send("ClearProtected", Absent, "gc") /\ Command("ClearProtected", Absent, "gc") \in Msgs
    BY <1>6, CommandFacts, Zenon DEF GcClears
  <2>2. gc = "idle" /\ UNCHANGED <<db, row, txn, protected, mail, hd, dl, ld, imp, ex>>
    BY <1>6, Zenon DEF GcClears, meta, tasks
  <2>3. imp' \in Imports /\ gc' = "clear" /\ LoadInv'
    BY <1>0, <1>6, <2>2, LoadKept, Zenon DEF GcClears
  <2>4. expected["gc"] = {} /\ "ClearProtected" \in expected'["gc"]
    BY <2>2, <2>3, ExpectedFacts, ExpectedNext, Zenon
  <2>5. \A u \in Task : u # "gc" => expected'[u] = expected[u]
    BY <2>2, ExpectedFrame, Zenon DEF Task
  <2> QED
    BY <1>0, <2>1, <2>2, <2>3, <2>4, <2>5, SendingStep, Zenon
<1>7. CASE GcLists
  <2>1. Send("Snapshot", Absent, "gc") /\ Command("Snapshot", Absent, "gc") \in Msgs
    BY <1>7, CommandFacts, Zenon DEF GcLists
  <2>2. gc = "sweep" /\ UNCHANGED <<db, row, txn, protected, mail, hd, dl, ld, imp, ex>>
    BY <1>7, Zenon DEF GcLists, meta, tasks
  <2>3. imp' \in Imports /\ gc' = "list" /\ LoadInv'
    BY <1>0, <1>7, <2>2, LoadKept, Zenon DEF GcLists
  <2>4. expected["gc"] = {} /\ "Snapshot" \in expected'["gc"]
    BY <2>2, <2>3, ExpectedFacts, ExpectedNext, Zenon
  <2>5. \A u \in Task : u # "gc" => expected'[u] = expected[u]
    BY <2>2, ExpectedFrame, Zenon DEF Task
  <2> QED
    BY <1>0, <2>1, <2>2, <2>3, <2>4, <2>5, SendingStep, Zenon
<1> QED
  BY <1>1, <1>2, <1>3, <1>4, <1>5, <1>6, <1>7, Zenon

\* What taking an answer does to the mail.
LEMMA Taken ==
  ASSUME Proto, NEW t \in Task, Take(t)
  PROVE  /\ mail'[t] = {} /\ mail[t] # {} /\ mail[t] \subseteq MaybeRow
         /\ \A u \in Task : u # t => mail'[u] = mail[u]
BY Zenon DEF Proto, Take

\* A task takes its answer.
LEMMA TakingStep ==
  ASSUME QInv, UNCHANGED <<db, row, txn, protected, dl, queue>>, LoadInv',
         NEW t \in Task, Take(t),
         \A u \in Task : u # t => expected'[u] = expected[u],
         imp' \in Imports, imp'.at = "acked" => imp.at = "acked" \/ t = "imp",
         gc' \in {"sweep", "list", "wait"} => gc \in {"sweep", "list", "wait"} \/ imp.at = "idle",
         imp' = imp \/ (t = "imp" /\ gc' = gc)
  PROVE  QInv'
<1>0. Proto /\ queue' = queue /\ dl' \in Downloads
  BY Zenon DEF QInv, RowTypes
<1>1. Proto'
  BY <1>0, ProtoTake, Zenon
<1>2. /\ mail'[t] = {} /\ mail[t] # {}
      /\ \A u \in Task : u # t => mail'[u] = mail[u]
  BY <1>0, Taken, Zenon
<1>3. "imp" \in Task
  BY Zenon DEF Task
<1>4. mail["imp"] # {} => imp.at = "wait"
  <2>1. mail["imp"] # {} => expected["imp"] # {}
    BY <1>0, <1>3, ZenonT(60) DEF Proto
  <2> QED
    BY <2>1, ExpectedFacts, ZenonT(60)
<1>5. ASSUME mail'["imp"] # {} \/ imp'.at = "acked"
      PROVE  /\ mail["imp"] # {} \/ imp.at = "acked"
             /\ gc' \in {"sweep", "list", "wait"} => gc \in {"sweep", "list", "wait"}
  <2>1. mail["imp"] # {} \/ imp.at = "acked"
    BY <1>2, <1>3, <1>5, Zenon
  <2>2. imp.at # "idle"
    BY <1>4, <2>1, Zenon
  <2> QED
    BY <2>1, <2>2, Zenon
<1> QED
  BY <1>0, <1>1, <1>5, OutsideStep, Zenon

LEMMA TakingSteps ==
  ASSUME QInv,
         \/ LoadOpen \/ LoadPartial \/ LoadFails \/ LoadIsSet \/ ImportAcked
         \/ ExportFails \/ ExportMoves \/ ExportDone \/ GcMarks \/ GcDone
  PROVE  QInv'
<1>0. LoadInv /\ imp \in Imports /\ "ld" \in Task /\ "imp" \in Task /\ "ex" \in Task /\ "gc" \in Task
  BY Zenon DEF QInv, RowTypes, Task
<1>1. CASE LoadOpen \/ LoadPartial \/ LoadFails \/ LoadIsSet
  <2>1. Take("ld") /\ UNCHANGED <<db, row, txn, protected, queue, imp, dl, ex, gc>>
    BY <1>1, Zenon DEF LoadOpen, LoadPartial, LoadFails, LoadIsSet, meta, tasks
  <2>2. \/ ld' = "idle" /\ \E st, bits, fd : hd' = Handle(st, bits, fd)
        \/ \E bits, fd : hd' = Handle("Loading", bits, fd)
    <3>1. CASE LoadOpen
      BY <3>1, Zenon DEF LoadOpen, NoHandle
    <3>2. CASE LoadPartial
      BY <3>2, Zenon DEF LoadPartial
    <3>3. CASE LoadIsSet
      BY <3>3, Zenon DEF LoadIsSet
    <3>4. CASE LoadFails
      BY <3>4, Zenon DEF LoadFails, NoHandle
    <3> QED
      BY <1>1, <3>1, <3>2, <3>3, <3>4, Zenon
  <2>3. LoadInv'
    BY <1>0, <2>2, LoadKept, Zenon
  <2>4. \A u \in Task : u # "ld" => expected'[u] = expected[u]
    BY <2>1, ExpectedFrame, Zenon DEF Task
  <2> QED
    BY <1>0, <2>1, <2>3, <2>4, TakingStep, Zenon
<1>2. CASE ImportAcked
  <2>1. Take("imp") /\ UNCHANGED <<db, row, txn, protected, queue, hd, ld, dl, ex, gc>>
    BY <1>2, Zenon DEF ImportAcked, meta
  <2>2. imp' \in Imports
    BY <1>0, <1>2, ImpAt, Zenon DEF ImportAcked
  <2>3. LoadInv'
    BY <1>0, <2>1, LoadKept, Zenon
  <2>4. \A u \in Task : u # "imp" => expected'[u] = expected[u]
    BY <2>1, ExpectedFrame, Zenon DEF Task
  <2> QED
    BY <1>0, <2>1, <2>2, <2>3, <2>4, TakingStep, Zenon
<1>3. CASE ExportFails \/ ExportMoves \/ ExportDone
  <2>1. Take("ex") /\ UNCHANGED <<db, row, txn, protected, queue, ld, imp, dl, gc>>
    BY <1>3, Zenon DEF ExportFails, ExportMoves, ExportDone, meta
  <2>2. hd' = hd \/ \E P : hd' = Detached(P)
    BY <1>3, Zenon DEF ExportFails, ExportMoves, ExportDone
  <2>3. LoadInv'
    BY <1>0, <2>1, <2>2, LoadKept, Zenon
  <2>4. \A u \in Task : u # "ex" => expected'[u] = expected[u]
    BY <2>1, ExpectedFrame, Zenon DEF Task
  <2> QED
    BY <1>0, <2>1, <2>3, <2>4, TakingStep, Zenon
<1>4. CASE GcMarks \/ GcDone
  <2>1. Take("gc") /\ UNCHANGED <<db, row, txn, protected, queue, hd, ld, imp, dl, ex>>
    BY <1>4, Zenon DEF GcMarks, GcDone, meta
  <2>2. gc' \in {"sweep", "list", "wait"} => imp.at = "idle"
    BY <1>4, Zenon DEF GcMarks, GcDone
  <2>3. LoadInv'
    BY <1>0, <2>1, LoadKept, Zenon
  <2>4. \A u \in Task : u # "gc" => expected'[u] = expected[u]
    BY <2>1, ExpectedFrame, Zenon DEF Task
  <2> QED
    BY <1>0, <2>1, <2>2, <2>3, <2>4, TakingStep, Zenon
<1> QED
  BY <1>1, <1>2, <1>3, <1>4, Zenon

LEMMA OtherSteps ==
  ASSUME QInv, SendUpdate \/ GcSweeps \/ StartExport
  PROVE  QInv'
<1>0. /\ LoadInv /\ Proto /\ imp \in Imports /\ dl \in Downloads
      /\ "ld" \in Task /\ "imp" \in Task /\ "ex" \in Task /\ "gc" \in Task
  BY Zenon DEF QInv, RowTypes, Task
<1>1. CASE SendUpdate
  <2>1. UNCHANGED <<db, row, txn, protected, mail, hd, ld, imp, ex, gc>>
    BY <1>1, Zenon DEF SendUpdate, meta
  <2>2. PICK e \in dl.update : Send("Update", e, "none")
    BY <1>1, Zenon DEF SendUpdate
  <2>3. e \in Rows
    BY <1>0 DEF Downloads
  <2>4. Command("Update", e, "none") \in Msgs
    BY <2>3, CommandFacts, Zenon
  <2>5. Command("Update", e, "none").from \notin Task
    BY DEF Command, Task
  <2>6. \A u \in Task : expected'[u] = expected[u]
    BY <2>1, ExpectedFrame, Zenon DEF Task
  <2>7. queue' = Append(queue, Command("Update", e, "none"))
    BY <2>2, Zenon DEF Send
  <2>8. Proto'
    BY <1>0, <2>1, <2>4, <2>5, <2>6, <2>7, ProtoPost, Zenon
  <2>9. dl' \in Downloads
    BY <1>1 DEF SendUpdate, Downloads
  <2>10. LoadInv'
    BY <1>0, <2>1, LoadKept, Zenon
  <2> QED
    BY <1>0, <2>1, <2>8, <2>9, <2>10, OutsideStep, Zenon
<1>2. CASE GcSweeps
  <2>1. /\ UNCHANGED <<db, row, txn, protected, hd, ld, imp, dl, ex>> /\ Take("gc") /\ gc = "list"
        /\ (gc' = "idle" /\ queue' = queue) \/ (gc' = "wait" /\ Send("Delete", Absent, "gc"))
    BY <1>2, Zenon DEF GcSweeps, meta
  <2>2. LoadInv'
    BY <1>0, <2>1, LoadKept, Zenon
  <2>3. \A u \in Task : u # "gc" => expected'[u] = expected[u]
    BY <2>1, ExpectedFrame, Zenon DEF Task
  <2>4. CASE gc' = "idle" /\ queue' = queue
    BY <1>0, <2>1, <2>2, <2>3, <2>4, TakingStep, Zenon
  <2>5. CASE gc' = "wait" /\ Send("Delete", Absent, "gc")
    <3>1. Command("Delete", Absent, "gc") \in Msgs
      BY CommandFacts, Zenon
    <3>2. Command("Delete", Absent, "gc").from = "gc" /\ Command("Delete", Absent, "gc").op = "Delete"
      BY DEF Command
    <3>3. "Delete" \in expected'["gc"]
      BY <2>5, ExpectedNext, Zenon
    <3>4. queue' = Append(queue, Command("Delete", Absent, "gc"))
      BY <2>5, Zenon DEF Send
    <3>5. Proto'
      BY <1>0, <2>1, <2>3, <3>1, <3>2, <3>3, <3>4, ProtoTakeSend, Zenon
    <3>6. mail'["imp"] = mail["imp"]
      BY <1>0, <2>1, Taken, Zenon
    <3> QED
      BY <1>0, <2>1, <2>2, <3>5, <3>6, OutsideStep, Zenon
  <2> QED
    BY <2>1, <2>4, <2>5, Zenon
<1>3. CASE StartExport
  <2>1. UNCHANGED <<db, row, txn, protected, queue, mail, hd, ld, imp, dl, gc>> /\ ex = "idle"
    BY <1>3, Zenon DEF StartExport, meta
  <2>2. expected["ex"] = {}
    BY <2>1, ExpectedFacts, Zenon
  <2>3. \A u \in Task : expected[u] \subseteq expected'[u]
    BY <2>1, <2>2, ExpectedFrame, Zenon DEF Task
  <2>4. Proto'
    BY <1>0, <2>1, <2>3, ProtoQuiet, Zenon
  <2>5. LoadInv'
    BY <1>0, <2>1, LoadKept, Zenon
  <2> QED
    BY <1>0, <2>1, <2>4, <2>5, OutsideStep, Zenon
<1> QED
  BY <1>1, <1>2, <1>3, Zenon

-----------------------------------------------------------------------------
(* Steps of the metadata actor *)

\* The actor executes a command: the answer is on its way, and only an import's
\* Update gives the import an answer.
LEMMA Handled ==
  ASSUME QInv, Ready, NEW e \in MaybeRow, Answer(e), Done
  PROVE  /\ Proto' /\ LoadInv' /\ imp' \in Imports /\ dl' \in Downloads
         /\ Cmd \in Msgs /\ Now \in MaybeRow
         /\ Cmd.from \in Task => Cmd.op \in expected[Cmd.from]
         /\ mail'["imp"] # {} => mail["imp"] # {} \/ (Cmd.op = "Update" /\ IsComplete(Cmd.entry))
         /\ imp' = imp /\ gc' = gc
<1>0. /\ LoadInv /\ Proto /\ imp \in Imports /\ dl \in Downloads /\ queue # <<>>
      /\ UNCHANGED <<file, safe, hd, ld, imp, dl, ex, gc>> /\ queue' = Tail(queue)
  BY Zenon DEF QInv, RowTypes, Ready, Done, tasks
<1>1. \A u \in Task : expected'[u] = expected[u]
  BY <1>0, ExpectedFrame, Zenon DEF Task
<1>2. Proto'
  BY <1>0, <1>1, ProtoAnswer, Zenon
<1>3. LoadInv'
  BY <1>0, LoadKept, Zenon
<1>4. Cmd \in Msgs /\ Cmd = queue[1] /\ 1 \in 1..Len(queue)
  BY <1>0, Received, Zenon DEF Cmd, Proto
<1>5. Cmd.from \in Task => Cmd.op \in expected[Cmd.from]
  BY <1>0, <1>4, PendingWaits, Zenon
<1>6. Now \in MaybeRow
  BY Zenon DEF Now, QInv, RowTypes
<1>7. ASSUME mail'["imp"] # {}, mail["imp"] = {}
      PROVE  Cmd.op = "Update" /\ IsComplete(Cmd.entry)
  <2>1. "imp" \in Task /\ mail \in [Task -> SUBSET MaybeRow]
    BY <1>0, Zenon DEF Task, Proto
  <2>2. Cmd.from = "imp"
    BY <1>7, <2>1, Zenon DEF Answer
  <2>3. Cmd.op \in {op \in {"Update"} : imp.at = "wait"}
    BY <1>5, <2>1, <2>2, ExpectedFacts, Zenon
  <2> QED
    BY <1>4, <2>2, <2>3, MsgFacts, Zenon
<1> QED
  BY <1>0, <1>2, <1>3, <1>4, <1>5, <1>6, <1>7, Zenon

LEMMA AbsentRow == Absent \in MaybeRow
BY Zenon DEF MaybeRow

LEMMA HandleSteps ==
  ASSUME QInv,
         \/ HandleGet \/ HandleSnapshot \/ HandleClearProtected
         \/ HandleUpdate \/ HandleSet \/ HandleDelete
  PROVE  QInv'
<1>0. RowTypes /\ Stored /\ Now \in MaybeRow
  BY Zenon DEF QInv, Now, RowTypes
<1>1. CASE HandleGet \/ HandleSnapshot
  <2>1. PICK e \in MaybeRow : Ready /\ Answer(e) /\ Done /\ UNCHANGED <<db, row, txn, protected>>
                                /\ Cmd.op \in {"Get", "Snapshot"}
    BY <1>0, <1>1, Zenon DEF HandleGet, HandleSnapshot, meta, RowTypes
  <2>2. /\ Proto' /\ LoadInv' /\ imp' \in Imports /\ dl' \in Downloads /\ imp' = imp /\ gc' = gc
        /\ mail'["imp"] # {} => mail["imp"] # {} \/ Cmd.op = "Update"
    BY <2>1, Handled, Zenon
  <2> QED
    BY <2>1, <2>2, OutsideStep, Zenon
<1>2. CASE HandleClearProtected
  <2>1. Ready /\ Answer(Absent) /\ Done /\ UNCHANGED <<db, row, txn>> /\ Cmd.op = "ClearProtected"
    BY <1>2, Zenon DEF HandleClearProtected
  <2>2. /\ Proto' /\ LoadInv' /\ imp' \in Imports /\ dl' \in Downloads /\ imp' = imp /\ gc' = gc
        /\ mail'["imp"] # {} => mail["imp"] # {} \/ Cmd.op = "Update"
        /\ Cmd \in Msgs /\ (Cmd.from \in Task => Cmd.op \in expected[Cmd.from])
    BY <2>1, AbsentRow, Handled, Zenon
  <2>3. Cmd.from = "gc"
    <3>1. Cmd.from \in Task \union {"none"} /\ "ClearProtected" \in Sends(Cmd.from)
      BY <2>1, <2>2, MsgFacts, Zenon
    <3> QED
      BY <3>1 DEF Sends, Task
  <2>4. gc = "clear"
    BY <2>1, <2>2, <2>3, ExpectedFacts, Zenon DEF Task
  <2>5. RowTypes'
    BY <1>0, <2>1, <2>2, Zenon DEF RowTypes
  <2>6. Now' = Now
    BY <2>1, Zenon DEF Now
  <2>7. gc' \notin {"sweep", "list", "wait"}
    BY <2>2, <2>4, Zenon
  <2>8. Stored'
    BY <1>0, <2>1, <2>2, <2>6, <2>7, Zenon DEF Stored
  <2> QED
    BY <2>2, <2>5, <2>8, Zenon DEF QInv
<1>3. CASE HandleUpdate
  <2> DEFINE n == IF Now = Absent THEN Cmd.entry ELSE Union(Now, Cmd.entry)
  <2>1. Ready /\ Answer(Absent) /\ Done /\ InTxn(n) /\ Cmd.op = "Update" /\ protected'
    BY <1>3, Zenon DEF HandleUpdate
  <2>2. /\ Proto' /\ LoadInv' /\ imp' \in Imports /\ dl' \in Downloads /\ imp' = imp /\ gc' = gc
        /\ mail'["imp"] # {} => mail["imp"] # {} \/ IsComplete(Cmd.entry)
        /\ Cmd \in Msgs
    BY <2>1, AbsentRow, Handled, Zenon
  <2>3. Cmd.entry \in Rows
    BY <2>1, <2>2, MsgFacts, Zenon
  <2>4. Now # Absent => Now \in Rows
    BY <1>0, Zenon DEF MaybeRow
  <2>5. n \in Rows
    BY <2>3, <2>4, UnionRows, Zenon
  <2>6. (Now # Absent /\ IsComplete(Now)) \/ IsComplete(Cmd.entry) => IsComplete(n)
    BY <2>3, <2>4, UnionRows, Zenon
  <2> HIDE DEF n
  <2>7. row' = n /\ txn' = "open" /\ db' = db
    BY <2>1, Zenon DEF InTxn
  <2>8. RowTypes'
    BY <1>0, <2>2, <2>5, <2>7, Zenon DEF RowTypes, MaybeRow
  <2>9. Now' = n
    BY <2>7, Zenon DEF Now
  <2>10. n # Absent
    BY <2>5, RowFacts, Zenon
  <2>11. Stored'
    BY <1>0, <2>1, <2>2, <2>6, <2>9, <2>10, Zenon DEF Stored
  <2> QED
    BY <2>2, <2>8, <2>11, Zenon DEF QInv
<1>4. CASE HandleSet
  <2>1. Ready /\ Answer(Absent) /\ Done /\ InTxn(Cmd.entry) /\ Cmd.op = "Set" /\ protected'
    BY <1>4, Zenon DEF HandleSet
  <2>2. /\ Proto' /\ LoadInv' /\ imp' \in Imports /\ dl' \in Downloads /\ imp' = imp /\ gc' = gc
        /\ Cmd \in Msgs
    BY <2>1, AbsentRow, Handled, Zenon
  <2>3. Cmd.entry \in Rows /\ IsComplete(Cmd.entry)
    BY <2>1, <2>2, MsgFacts, Zenon
  <2>4. row' = Cmd.entry /\ txn' = "open" /\ db' = db
    BY <2>1, Zenon DEF InTxn
  <2>5. RowTypes'
    BY <1>0, <2>2, <2>3, <2>4, Zenon DEF RowTypes, MaybeRow
  <2>6. Now' = Cmd.entry
    BY <2>4, Zenon DEF Now
  <2>7. Cmd.entry # Absent
    BY <2>3, RowFacts, Zenon
  <2>8. Stored'
    BY <2>1, <2>3, <2>6, <2>7, Zenon DEF Stored
  <2> QED
    BY <2>2, <2>5, <2>8, Zenon DEF QInv
<1>5. CASE HandleDelete
  <2>1. /\ Ready /\ Answer(Absent) /\ Done /\ Cmd.op = "Delete" /\ protected' = protected
        /\ IF protected THEN InTxn(Now) ELSE InTxn(Absent)
    BY <1>5, Zenon DEF HandleDelete
  <2>2. /\ Proto' /\ LoadInv' /\ imp' \in Imports /\ dl' \in Downloads /\ imp' = imp /\ gc' = gc
        /\ mail'["imp"] # {} => mail["imp"] # {} \/ Cmd.op = "Update"
        /\ Cmd \in Msgs /\ (Cmd.from \in Task => Cmd.op \in expected[Cmd.from])
    BY <2>1, AbsentRow, Handled, Zenon
  <2>3. Cmd.from = "gc"
    <3>1. Cmd.from \in Task \union {"none"} /\ "Delete" \in Sends(Cmd.from)
      BY <2>1, <2>2, MsgFacts, Zenon
    <3> QED
      BY <3>1 DEF Sends, Task
  <2>4. gc = "wait"
    BY <2>1, <2>2, <2>3, ExpectedFacts, Zenon DEF Task
  <2>5. row' = (IF protected THEN Now ELSE Absent) /\ txn' = "open" /\ db' = db
    BY <2>1, Zenon DEF InTxn
  <2>6. RowTypes'
    BY <1>0, <2>2, <2>5, AbsentRow, Zenon DEF RowTypes
  <2>7. protected => Now' = Now
    BY <2>5, Zenon DEF Now
  <2>8. Stored'
    BY <1>0, <2>1, <2>2, <2>4, <2>7, Zenon DEF Stored
  <2> QED
    BY <2>2, <2>6, <2>8, Zenon DEF QInv
<1> QED
  BY <1>1, <1>2, <1>3, <1>4, <1>5, Zenon

LEMMA CommitSteps ==
  ASSUME QInv, CommitTx \/ CommitFiles \/ Unlink \/ EndTxn
  PROVE  QInv'
<1>0. /\ RowTypes /\ LoadInv /\ Proto /\ Stored
      /\ UNCHANGED <<protected, queue, mail, ld, imp, dl, ex, gc>>
  BY Zenon DEF QInv, CommitTx, CommitFiles, Unlink, EndTxn, tasks
<1>1. \A u \in Task : expected[u] \subseteq expected'[u]
  BY <1>0, ExpectedFrame, Zenon DEF Task
<1>2. Proto'
  BY <1>0, <1>1, ProtoQuiet, Zenon
<1>3. hd' = hd \/ \E P : hd' = Detached(P)
  BY Zenon DEF CommitTx, CommitFiles, Unlink, EndTxn
<1>4. LoadInv'
  BY <1>0, <1>3, LoadKept, Zenon
<1>5. RowTypes'
  BY <1>0, Zenon DEF RowTypes, CommitTx, CommitFiles, Unlink, EndTxn
<1>6. Now' = Now
  BY <1>0, Zenon DEF Now, RowTypes, CommitTx, CommitFiles, Unlink, EndTxn
<1>7. Stored'
  BY <1>0, <1>6, Zenon DEF Stored
<1> QED
  BY <1>2, <1>4, <1>5, <1>7, Zenon DEF QInv

\* A new process finds nothing on its way.
LEMMA FreshStart ==
  ASSUME NEW d \in MaybeRow, db' = d, row' = d, txn' = "none", queue' = <<>>,
         mail' = [t \in Task |-> {}], hd' = NoHandle("Initial"), ld' = "idle",
         imp' = [at |-> "idle", ref |-> FALSE], dl' = [at |-> "idle", update |-> {}]
  PROVE  QInv'
<1>1. imp' \in Imports /\ dl' \in Downloads /\ imp'.at = "idle"
  BY DEF Imports, Downloads
<1>2. RowTypes'
  BY <1>1, Zenon DEF RowTypes
<1>3. LoadInv'
  BY DEF LoadInv, NoHandle, Handle
<1>4. queue' \in Seq(Msgs) /\ 1..Len(queue') = {}
  OBVIOUS
<1>5. mail' \in [Task -> SUBSET MaybeRow] /\ \A t \in Task : mail'[t] = {}
  BY Zenon
<1>6. Proto'
  BY <1>4, <1>5, Zenon DEF Proto
<1>7. Stored'
  BY <1>1, <1>5, Zenon DEF Stored, Task
<1> QED
  BY <1>2, <1>3, <1>6, <1>7, Zenon DEF QInv

\* What QInv talks about.
LEMMA QStutter == ASSUME QInv, UNCHANGED vars PROVE QInv'
<1>1. UNCHANGED <<db, row, txn, protected, queue, mail, hd, ld, imp, dl, ex, gc>>
  BY Zenon DEF vars, work, meta, tasks
<1>2. LoadInv /\ imp \in Imports /\ dl \in Downloads
  BY Zenon DEF QInv, RowTypes
<1>3. LoadInv'
  BY <1>1, <1>2, LoadKept, Zenon
<1> QED
  BY <1>1, <1>2, <1>3, SilentStep, Zenon

LEMMA QStep == ASSUME QInv, [Next]_vars PROVE QInv'
<1>1. CASE MetaStep
  BY <1>1, HandleSteps, CommitSteps, Zenon DEF MetaStep
<1>2. CASE TaskStep
  BY <1>2, SilentSteps, SendingSteps, TakingSteps, OtherSteps, Zenon DEF TaskStep
<1>3. CASE UserStep \/ Persist
  BY <1>3, SilentSteps, SendingSteps, OtherSteps, Zenon DEF UserStep
<1>4. CASE Crash \/ PowerLoss
  <2>1. Restart /\ db \in MaybeRow
    BY <1>4, Zenon DEF Crash, PowerLoss, QInv, RowTypes
  <2> QED
    BY <2>1, FreshStart, Zenon DEF Restart
<1> QED
  BY <1>1, <1>2, <1>3, <1>4, QStutter, Zenon DEF Next

LEMMA QInitial == ASSUME Init PROVE QInv
<1>1. imp \in Imports /\ dl \in Downloads /\ imp.at = "idle"
  BY DEF Init, Imports, Downloads
<1>2. RowTypes
  BY <1>1, Zenon DEF Init, RowTypes, MaybeRow
<1>3. LoadInv
  BY DEF Init, LoadInv, NoHandle, Handle
<1>4. queue \in Seq(Msgs) /\ 1..Len(queue) = {}
  BY DEF Init
<1>5. mail \in [Task -> SUBSET MaybeRow] /\ \A t \in Task : mail[t] = {}
  BY Zenon DEF Init
<1>6. Proto
  BY <1>4, <1>5, Zenon DEF Proto
<1>7. Stored
  BY <1>1, <1>5, Zenon DEF Stored, Task
<1> QED
  BY <1>2, <1>3, <1>6, <1>7, Zenon DEF QInv

\* The protocol between the tasks and the metadata actor holds in every
\* scenario: every task has at most one command or answer on its way and waits
\* for it, and an acknowledged import is in the row that a collector in its
\* sweep finds protected (meta.rs:470-560, fs.rs:860-890).
THEOREM CommandsAnswered == Spec => []QInv
<1>1. Init => QInv
  BY QInitial
<1>2. QInv /\ [Next]_vars => QInv'
  BY QStep
<1> QED
  BY <1>1, <1>2, PTL DEF Spec

\* In every scenario, with deletions, exports, crashes and power failures, an
\* import that has been acknowledged is stored once the metadata actor has
\* committed what it has.
THEOREM ImportsStored == Spec => []ImportStored
<1>1. QInv => ImportStored
  BY Zenon DEF QInv, Stored, ImportStored, Now
<1> QED
  BY <1>1, CommandsAnswered, PTL

-----------------------------------------------------------------------------
(* Handle, files and entries *)

\* Imports and downloads, but neither exports nor a collector; renames
\* succeed, and the machine stays up or nothing is imported.
Calm ==
  /\ Ops \subseteq {"import", "reference", "download"} /\ "rename" \notin Events
  /\ "power" \in Events => Ops \subseteq {"download"}

Stock == {"data", "outboard"}

Handles ==
  [st : {"Initial", "Loading", "NonExisting", "Partial", "Complete", "Poisoned"},
   bits : SUBSET Chunk, fd : [Opened -> (SUBSET Chunk) \union {Linked}]]

\* The handle is about to be used for writing, or to become complete.
Working == hd.st = "Partial" \/ ld \in {"set", "setwait"}

HandleTypes == hd \in Handles

FileTypes ==
  /\ file \in [Part -> (SUBSET Chunk) \union {NoFile, Dirty}]
  /\ safe \in [Part -> (SUBSET Chunk) \union {NoFile, Dirty}]
  /\ \A p \in Opened : file[p] # Dirty /\ safe[p] # Dirty
  /\ \A p \in Opened : file[p] = NoFile <=> safe[p] = NoFile
  /\ \A p \in Opened : file[p] # NoFile => safe[p] \subseteq file[p]
  /\ safe["bitfield"] = file["bitfield"]

\* What a working handle claims is in its files, and a handle that is to become
\* complete claims all; only an import can have
\* taken the path from it, by putting the whole blob there.
WorkBacked ==
  Working =>
    /\ ld # "idle" => hd.bits = Chunk
    /\ \A p \in Opened : hd.fd[p] = Linked => file[p] # NoFile
    /\ \A p \in Stock : hd.fd[p] = Linked => hd.bits \subseteq file[p]
    /\ \A p \in Stock : hd.fd[p] # Linked =>
         PowerStays /\ file[p] = Chunk /\ hd.bits \subseteq hd.fd[p]

CompleteBacked ==
  hd.st = "Complete" =>
    /\ hd.fd["sizes"] = {}
    /\ PowerStays => \A p \in Stock : Content(p) = Chunk

\* What the bitfield file claims is in the files, and survives where the
\* machine may go down.
FileBacked ==
  file["bitfield"] \notin {NoFile, Dirty} =>
    \A p \in Stock :
      /\ file[p] # NoFile /\ file["bitfield"] \subseteq file[p]
      /\ ~PowerStays => file["bitfield"] \subseteq safe[p]

HInv == HandleTypes /\ FileTypes /\ WorkBacked /\ CompleteBacked /\ FileBacked

\* The entries whose claims to owned files are right: the files are complete.
owned ==
  {e \in MaybeRow :
     e # Absent /\ IsComplete(e) =>
       /\ e.data.at = "Owned" => file["data"] = Chunk
       /\ e.outboard = "Owned" => file["outboard"] = Chunk}

\* Every entry that is committed, or on its way, is one of them.
OInv ==
  /\ db \in owned /\ row \in owned /\ dl.update \subseteq owned
  /\ \A i \in 1..Len(queue) : queue[i].entry \in owned
  /\ \A t \in Task : mail[t] \subseteq owned
  /\ imp.at \in {"open", "send"} => ImportedEntry \in owned
  /\ ld = "set" => OwnedEntry \in owned

Undisturbed == ex = "idle" /\ gc = "idle" /\ ds \subseteq {"sizes", "bitfield"}
                 /\ (imp.at # "idle" => PowerStays)

FInv == Calm => Undisturbed /\ HInv /\ (PowerStays => OInv)

-----------------------------------------------------------------------------
(* What the values of files and handles can be *)

LEMMA Marks ==
  /\ \A C \in SUBSET Chunk : C # NoFile /\ C # Dirty /\ C # Linked
  /\ NoFile # Dirty /\ Chunk # NoFile /\ Chunk # Linked /\ Chunk # Dirty
<1>1. Chunk \in SUBSET Chunk
  BY Zenon
<1> QED
  BY <1>1, MarkAssumption, Zenon

LEMMA PartFacts ==
  /\ Stock \subseteq Opened /\ Opened \subseteq Part /\ "data" \in Stock /\ "outboard" \in Stock
  /\ "sizes" \in Opened /\ "bitfield" \in Part /\ "bitfield" \notin Opened /\ "sizes" \notin Stock
  /\ "bitfield" \notin Stock
BY Zenon DEF Stock, Opened, Part

LEMMA HandleIn ==
  ASSUME NEW st \in {"Initial", "Loading", "NonExisting", "Partial", "Complete", "Poisoned"},
         NEW bits \in SUBSET Chunk, NEW fd \in [Opened -> (SUBSET Chunk) \union {Linked}]
  PROVE  Handle(st, bits, fd) \in Handles
BY DEF Handle, Handles

LEMMA HandleParts ==
  ASSUME HandleTypes
  PROVE  /\ hd.bits \in SUBSET Chunk /\ hd.fd \in [Opened -> (SUBSET Chunk) \union {Linked}]
         /\ hd.st \in {"Initial", "Loading", "NonExisting", "Partial", "Complete", "Poisoned"}
BY DEF HandleTypes, Handles

LEMMA ClosedFacts ==
  /\ Closed \in [Opened -> (SUBSET Chunk) \union {Linked}]
  /\ \A p \in Opened : Closed[p] = Linked
BY Zenon DEF Closed

\* The values of the files.
LEMMA FileValues ==
  ASSUME FileTypes
  PROVE  /\ \A p \in Opened : file[p] = NoFile \/ file[p] \in SUBSET Chunk
         /\ \A p \in Opened : safe[p] = NoFile \/ safe[p] \in SUBSET Chunk
         /\ \A p \in Opened : file[p] = NoFile <=> safe[p] = NoFile
         /\ \A p \in Opened : file[p] # NoFile => safe[p] \subseteq file[p]
         /\ file["bitfield"] \in (SUBSET Chunk) \union {NoFile, Dirty}
         /\ safe["bitfield"] = file["bitfield"]
         /\ \A p \in Opened : Created(p) \in SUBSET Chunk
         /\ \A p \in Opened : file[p] # NoFile => Created(p) = file[p]
         /\ \A p \in Opened : file[p] # NoFile => file[p] \in SUBSET Chunk /\ safe[p] \in SUBSET Chunk
<1>1. \A p \in Opened : file[p] = NoFile \/ file[p] \in SUBSET Chunk
  BY PartFacts, Zenon DEF FileTypes
<1>2. \A p \in Opened : safe[p] = NoFile \/ safe[p] \in SUBSET Chunk
  BY PartFacts, Zenon DEF FileTypes
<1>3. file["bitfield"] \in (SUBSET Chunk) \union {NoFile, Dirty}
  BY PartFacts, Zenon DEF FileTypes
<1>4. \A p \in Opened : Created(p) \in SUBSET Chunk /\ (file[p] # NoFile => Created(p) = file[p])
  BY <1>1, Zenon DEF Created
<1> QED
  BY <1>1, <1>2, <1>3, <1>4, Zenon DEF FileTypes

\* To type the files, look at them one by one.
LEMMA FilesTyped ==
  ASSUME file' = [p \in Part |-> file'[p]], safe' = [p \in Part |-> safe'[p]],
         \A p \in Opened : file'[p] = NoFile \/ file'[p] \in SUBSET Chunk,
         \A p \in Opened : safe'[p] = NoFile \/ safe'[p] \in SUBSET Chunk,
         \A p \in Opened : file'[p] = NoFile <=> safe'[p] = NoFile,
         \A p \in Opened : file'[p] # NoFile => safe'[p] \subseteq file'[p],
         file'["bitfield"] \in (SUBSET Chunk) \union {NoFile, Dirty},
         safe'["bitfield"] = file'["bitfield"]
  PROVE  FileTypes'
<1>1. \A p \in Part : p \in Opened \/ p = "bitfield"
  BY Zenon DEF Part, Opened
<1>2. \A p \in Part : file'[p] \in (SUBSET Chunk) \union {NoFile, Dirty}
  BY <1>1, Zenon
<1>3. \A p \in Part : safe'[p] \in (SUBSET Chunk) \union {NoFile, Dirty}
  BY <1>1, Zenon
<1>4. file' \in [Part -> (SUBSET Chunk) \union {NoFile, Dirty}]
  BY <1>2, Zenon
<1>5. safe' \in [Part -> (SUBSET Chunk) \union {NoFile, Dirty}]
  BY <1>3, Zenon
<1>6. \A p \in Opened : file'[p] # Dirty /\ safe'[p] # Dirty
  BY Marks, Zenon
<1> QED
  BY <1>4, <1>5, <1>6, Zenon DEF FileTypes

\* What entries are owned, and that they stay so while complete files stay.
LEMMA OwnedFacts ==
  /\ Absent \in owned /\ Partial({}) \in owned /\ Partial({Size1}) \in owned
  /\ OwnedEntry \in owned <=>
       file["data"] = Chunk /\ (~InlineOutboard => file["outboard"] = Chunk)
  /\ ExternalEntry \in owned <=> (~InlineOutboard => file["outboard"] = Chunk)
  /\ owned \subseteq MaybeRow
<1>1. OutboardLoc = "Owned" <=> ~InlineOutboard
  BY MarkAssumption DEF OutboardLoc
<1>2. /\ Partial({}) \in MaybeRow /\ Partial({Size1}) \in MaybeRow /\ Absent \in MaybeRow
      /\ OwnedEntry \in MaybeRow /\ ExternalEntry \in MaybeRow
      /\ Partial({}) \in Rows /\ Partial({Size1}) \in Rows /\ OwnedEntry \in Rows /\ ExternalEntry \in Rows
  BY Zenon DEF MaybeRow, Rows
<1>3. ~IsComplete(Partial({})) /\ ~IsComplete(Partial({Size1}))
  BY <1>2, RowFacts, Zenon
<1>4. Absent \in owned /\ Partial({}) \in owned /\ Partial({Size1}) \in owned
  BY <1>2, <1>3, Zenon DEF owned
<1>5. OwnedEntry # Absent /\ ExternalEntry # Absent
  BY <1>2, RowFacts, Zenon
<1>6. "External" # "Owned"
  OBVIOUS
<1>7. OwnedEntry \in owned <=>
        file["data"] = Chunk /\ (~InlineOutboard => file["outboard"] = Chunk)
  BY <1>1, <1>2, <1>5, RowFacts, Zenon DEF owned
<1>8. ExternalEntry \in owned <=> (~InlineOutboard => file["outboard"] = Chunk)
  BY <1>1, <1>2, <1>5, <1>6, RowFacts, Zenon DEF owned
<1> QED
  BY <1>4, <1>7, <1>8, Zenon DEF owned

LEMMA OwnedNext ==
  /\ OwnedEntry \in owned' <=>
       file'["data"] = Chunk /\ (~InlineOutboard => file'["outboard"] = Chunk)
  /\ ExternalEntry \in owned' <=> (~InlineOutboard => file'["outboard"] = Chunk)
  /\ Absent \in owned' /\ Partial({}) \in owned' /\ Partial({Size1}) \in owned'
<1> DEFINE Says ==
      /\ OwnedEntry \in owned <=>
           file["data"] = Chunk /\ (~InlineOutboard => file["outboard"] = Chunk)
      /\ ExternalEntry \in owned <=> (~InlineOutboard => file["outboard"] = Chunk)
      /\ Absent \in owned /\ Partial({}) \in owned /\ Partial({Size1}) \in owned
<1>1. Says
  BY OwnedFacts, Zenon
<1> HIDE DEF Says
<1>2. Says'
  BY <1>1, PTL
<1> QED
  BY <1>2, Zenon DEF Says

LEMMA OwnedKept ==
  ASSUME \A p \in Stock : file[p] = Chunk => file'[p] = Chunk
  PROVE  owned \subseteq owned'
BY Zenon DEF owned, Stock

LEMMA OwnedUnion ==
  ASSUME NEW old \in owned, NEW new \in owned, old # Absent, new # Absent
  PROVE  Union(old, new) \in owned
<1>1. old \in Rows /\ new \in Rows
  BY Zenon DEF owned, MaybeRow
<1>2. Union(old, new) \in {old, new, Partial({Size1})}
  BY <1>1, UnionRows, Zenon
<1> QED
  BY <1>2, OwnedFacts, Zenon

-----------------------------------------------------------------------------
(* Steps that leave the files alone *)

LEMMA UndisturbedKept ==
  ASSUME Undisturbed, UNCHANGED <<ex, gc, scenario>>,
         ds' \subseteq ds \union {"sizes", "bitfield"},
         imp'.at # "idle" => imp.at # "idle" \/ PowerStays
  PROVE  Undisturbed'
BY Zenon DEF Undisturbed, PowerStays, Events

LEMMA HandleFrame ==
  ASSUME HInv, UNCHANGED <<file, safe, hd, scenario>>,
         ld' = ld \/ (ld = "set" /\ ld' = "setwait") \/ (ld = "ask" /\ ld' = "wait")
  PROVE  HInv'
<1>1. /\ HandleTypes' /\ FileTypes' /\ (PowerStays' <=> PowerStays)
      /\ \A p : Content(p)' = Content(p)
  BY Zenon DEF HInv, HandleTypes, FileTypes, PowerStays, Events, Content
<1>2. Working' => Working
  BY Zenon DEF Working
<1>3. Working' => (ld' # "idle" => ld # "idle")
  BY Zenon
<1>4. WorkBacked'
  BY <1>1, <1>2, <1>3, Zenon DEF HInv, WorkBacked
<1>5. CompleteBacked'
  BY <1>1, Zenon DEF HInv, CompleteBacked, Content
<1>6. FileBacked'
  BY <1>1, Zenon DEF HInv, FileBacked
<1> QED
  BY <1>1, <1>4, <1>5, <1>6, Zenon DEF HInv

\* The entries after a step that sends nothing and executes nothing.
LEMMA EntriesKept ==
  ASSUME OInv, owned \subseteq owned', queue' = queue,
         db' \in {db, row}, row' \in {db, row}, dl'.update \subseteq owned',
         \A t \in Task : mail'[t] \subseteq mail[t],
         imp'.at \in {"open", "send"} => ImportedEntry' \in owned',
         ld' = "set" => OwnedEntry \in owned'
  PROVE  OInv'
<1>1. db' \in owned' /\ row' \in owned'
  BY Zenon DEF OInv
<1>2. \A i \in 1..Len(queue') : queue'[i].entry \in owned'
  BY Zenon DEF OInv
<1>3. \A t \in Task : mail'[t] \subseteq owned'
  BY Zenon DEF OInv
<1> QED
  BY <1>1, <1>2, <1>3, Zenon DEF OInv

\* A command with an owned entry is sent.
LEMMA EntrySent ==
  ASSUME OInv, Proto, UNCHANGED <<file, db, row, mail>>, NEW op, NEW e, NEW t, Send(op, e, t),
         e \in owned, Command(op, e, t) \in Msgs, dl'.update \subseteq owned,
         imp'.at \in {"open", "send"} => ImportedEntry' \in owned,
         ld' = "set" => OwnedEntry \in owned
  PROVE  OInv'
<1>1. owned' = owned
  BY Zenon DEF owned
<1>2. queue \in Seq(Msgs) /\ queue' = Append(queue, Command(op, e, t))
  BY Zenon DEF Proto, Send
<1>3. PICK l : /\ queue' \in Seq(Msgs) /\ queue'[l] = Command(op, e, t)
               /\ \A i \in 1..Len(queue) : queue'[i] = queue[i] /\ i # l
               /\ \A i \in 1..Len(queue') : i = l \/ i \in 1..Len(queue)
  BY <1>2, Sent
<1>4. Command(op, e, t).entry = e
  BY DEF Command
<1>5. \A i \in 1..Len(queue') : queue'[i].entry \in owned'
  BY <1>1, <1>3, <1>4, Zenon DEF OInv
<1> QED
  BY <1>1, <1>5, Zenon DEF OInv

\* A command is executed, and answered with an owned entry.
LEMMA EntryHandled ==
  ASSUME OInv, Proto, queue # <<>>, Done, UNCHANGED db, row' \in owned, NEW e \in owned, Answer(e)
  PROVE  OInv'
<1>0. UNCHANGED <<file, ld, imp, dl>> /\ queue' = Tail(queue)
  BY Zenon DEF Done, tasks
<1>1. owned' = owned /\ ImportedEntry' = ImportedEntry
  BY <1>0, Zenon DEF owned, ImportedEntry
<1>2. \A i \in 1..Len(queue') : i + 1 \in 1..Len(queue) /\ queue'[i] = queue[i + 1]
  BY <1>0, Received, Zenon DEF Proto
<1>3. \A i \in 1..Len(queue') : queue'[i].entry \in owned'
  BY <1>1, <1>2, Zenon DEF OInv
<1>4. \A t \in Task : mail'[t] = mail[t] \/ mail'[t] = {e}
  BY Zenon DEF Answer, Proto
<1>5. \A t \in Task : mail'[t] \subseteq owned'
  BY <1>1, <1>4, Zenon DEF OInv
<1> QED
  BY <1>0, <1>1, <1>3, <1>5, Zenon DEF OInv

\* Nobody deletes while no collector runs.
LEMMA NoDelete ==
  ASSUME QInv, gc = "idle", Ready
  PROVE  Cmd.op # "Delete"
<1>1. Cmd \in Msgs /\ Cmd = queue[1] /\ 1 \in 1..Len(queue)
  BY Received, Zenon DEF Cmd, Proto, Ready, QInv
<1>2. Cmd.from \in Task => Cmd.op \in expected[Cmd.from]
  BY <1>1, PendingWaits, Zenon DEF QInv
<1>3. ASSUME Cmd.op = "Delete" PROVE FALSE
  <2>1. Cmd.from \in Task \union {"none"} /\ "Delete" \in Sends(Cmd.from)
    BY <1>1, <1>3, MsgFacts, Zenon
  <2>2. Cmd.from = "gc"
    BY <2>1 DEF Sends, Task
  <2> QED
    BY <1>2, <1>3, <2>2, ExpectedFacts, Zenon DEF Task
<1> QED
  BY <1>3, Zenon

\* The metadata actor executes and commits commands.
LEMMA ActorFrame ==
  ASSUME QInv, FInv, Calm, UNCHANGED scenario,
         \/ HandleGet \/ HandleSnapshot \/ HandleClearProtected \/ HandleUpdate \/ HandleSet
         \/ CommitTx \/ CommitFiles \/ EndTxn
  PROVE  FInv'
<1>0. Undisturbed /\ HInv /\ (PowerStays => OInv) /\ Proto /\ RowTypes
  BY Zenon DEF FInv, QInv
<1>1. UNCHANGED <<file, safe, hd, ld, imp, dl, ex, gc>>
  BY Zenon DEF HandleGet, HandleSnapshot, HandleClearProtected, HandleUpdate, HandleSet,
               CommitTx, CommitFiles, EndTxn, Done, tasks
<1>2. ds' \subseteq ds \union {"sizes", "bitfield"}
  BY Zenon DEF HandleGet, HandleSnapshot, HandleClearProtected, HandleUpdate, HandleSet,
               CommitTx, CommitFiles, EndTxn, meta
<1>3. Undisturbed'
  BY <1>0, <1>1, <1>2, UndisturbedKept, Zenon
<1>4. HInv'
  BY <1>0, <1>1, HandleFrame, Zenon
<1>5. PowerStays' => PowerStays
  BY Zenon DEF PowerStays, Events
<1>6. ASSUME OInv PROVE OInv'
  <2>0. /\ owned' = owned /\ ImportedEntry' = ImportedEntry /\ Now \in owned
        /\ db \in owned /\ row \in owned /\ Absent \in owned
    BY <1>1, <1>6, OwnedFacts, Zenon DEF owned, ImportedEntry, Now, OInv
  <2>1. CASE HandleGet \/ HandleSnapshot \/ HandleClearProtected
    <3>1. /\ queue # <<>> /\ Done /\ db' = db /\ row' = row
          /\ \E e \in {Now, db, Absent} : Answer(e)
      BY <2>1, Zenon DEF HandleGet, HandleSnapshot, HandleClearProtected, meta, Ready
    <3> QED
      BY <1>0, <1>6, <2>0, <3>1, EntryHandled, Zenon
  <2>2. CASE HandleUpdate \/ HandleSet
    <3>1. /\ Ready /\ queue # <<>> /\ Done /\ db' = db /\ Answer(Absent) /\ Cmd.op \in {"Update", "Set"}
          /\ row' \in {Cmd.entry, IF Now = Absent THEN Cmd.entry ELSE Union(Now, Cmd.entry)}
      BY <2>2, Zenon DEF HandleUpdate, HandleSet, InTxn, Ready
    <3>2. Cmd \in Msgs /\ Cmd = queue[1] /\ 1 \in 1..Len(queue)
      BY <1>0, <3>1, Received, Zenon DEF Cmd, Proto
    <3>3. Cmd.entry \in Rows
      BY <3>1, <3>2, MsgFacts, Zenon
    <3>4. Cmd.entry # Absent /\ Cmd.entry \in owned
      BY <1>6, <3>2, <3>3, RowFacts, Zenon DEF OInv
    <3>5. row' \in owned
      BY <2>0, <3>1, <3>4, OwnedUnion, Zenon
    <3> QED
      BY <1>0, <1>6, <2>0, <3>1, <3>5, EntryHandled, Zenon
  <2>3. CASE CommitTx \/ CommitFiles \/ EndTxn
    <3>1. UNCHANGED <<queue, mail>> /\ db' \in {db, row} /\ row' \in {db, row}
      BY <2>3, Zenon DEF CommitTx, CommitFiles, EndTxn
    <3>2. dl'.update \subseteq owned' /\ (ld' = "set" => OwnedEntry \in owned')
            /\ (imp'.at \in {"open", "send"} => ImportedEntry' \in owned')
      BY <1>1, <1>6, <2>0, Zenon DEF OInv
    <3> QED
      BY <1>6, <2>0, <3>1, <3>2, EntriesKept, Zenon
  <2> QED
    BY <2>1, <2>2, <2>3, Zenon
<1> QED
  BY <1>0, <1>3, <1>4, <1>5, <1>6, Zenon DEF FInv

\* The tasks send, wait and end.
LEMMA TaskFrame ==
  ASSUME QInv, FInv, Calm, UNCHANGED scenario,
         \/ LoadGet \/ LoadSet \/ StartDownload \/ DownloadLoaded \/ EndDownload \/ SendUpdate
         \/ StartImport \/ ImportProtects \/ ImportSends \/ ImportAcked \/ DropTempTag
  PROVE  FInv'
<1>0. Undisturbed /\ HInv /\ (PowerStays => OInv) /\ Proto /\ RowTypes /\ imp \in Imports /\ dl \in Downloads
  BY Zenon DEF FInv, QInv, RowTypes
<1>1. UNCHANGED <<file, safe, hd, ex, gc, db, row>>
  BY Zenon DEF LoadGet, LoadSet, StartDownload, DownloadLoaded, EndDownload, SendUpdate,
               StartImport, ImportProtects, ImportSends, ImportAcked, DropTempTag, meta, tasks
<1>2. ds' \subseteq ds
  BY Zenon DEF LoadGet, LoadSet, StartDownload, DownloadLoaded, EndDownload, SendUpdate,
               StartImport, ImportProtects, ImportSends, ImportAcked, DropTempTag, meta, Protect
<1>3. ld' = ld \/ (ld = "set" /\ ld' = "setwait") \/ (ld = "ask" /\ ld' = "wait")
  BY Zenon DEF LoadGet, LoadSet, StartDownload, DownloadLoaded, EndDownload, SendUpdate,
               StartImport, ImportProtects, ImportSends, ImportAcked, DropTempTag
<1>4. imp'.at # "idle" => imp.at # "idle" \/ PowerStays
  <2>1. CASE StartImport
    <3>1. "reference" \in Ops \/ "import" \in Ops
      BY <2>1, Zenon DEF StartImport
    <3> QED
      BY <3>1, Zenon DEF Calm, PowerStays
  <2>2. CASE DropTempTag
    BY <2>2 DEF DropTempTag
  <2>3. CASE ~StartImport /\ ~DropTempTag
    BY <2>3, Zenon DEF LoadGet, LoadSet, StartDownload, DownloadLoaded, EndDownload, SendUpdate,
               ImportProtects, ImportSends, ImportAcked, tasks
  <2> QED
    BY <2>1, <2>2, <2>3, Zenon
<1>5. Undisturbed'
  BY <1>0, <1>1, <1>2, <1>4, UndisturbedKept, Zenon
<1>6. HInv'
  BY <1>0, <1>1, <1>3, HandleFrame, Zenon
<1>7. PowerStays' => PowerStays
  BY Zenon DEF PowerStays, Events
<1>8. ASSUME OInv PROVE OInv'
  <2>0. owned' = owned /\ dl.update \subseteq owned /\ Absent \in owned
    BY <1>1, <1>8, OwnedFacts, ZenonT(60) DEF owned, OInv
  <2>1. CASE LoadGet
    <3>1. Send("Get", Absent, "ld") /\ Command("Get", Absent, "ld") \in Msgs /\ ld' # "set"
      BY <2>1, CommandFacts, Zenon DEF LoadGet
    <3>2. UNCHANGED <<mail, dl, imp>>
      BY <2>1, Zenon DEF LoadGet, tasks
    <3>3. imp'.at \in {"open", "send"} => ImportedEntry' \in owned
      BY <1>8, <3>2, Zenon DEF OInv, ImportedEntry
    <3> QED
      BY <1>0, <1>1, <1>8, <2>0, <3>1, <3>2, <3>3, EntrySent, Zenon
  <2>2. CASE LoadSet
    <3>1. Send("Set", OwnedEntry, "ld") /\ Command("Set", OwnedEntry, "ld") \in Msgs /\ ld' # "set"
      BY <2>2, CommandFacts, Zenon DEF LoadSet
    <3>2. UNCHANGED <<mail, dl, imp>> /\ ld = "set"
      BY <2>2, Zenon DEF LoadSet, tasks
    <3>3. /\ imp'.at \in {"open", "send"} => ImportedEntry' \in owned
          /\ OwnedEntry \in owned
      BY <1>8, <3>2, Zenon DEF OInv, ImportedEntry
    <3> QED
      BY <1>0, <1>1, <1>8, <2>0, <3>1, <3>2, <3>3, EntrySent, Zenon
  <2>3. CASE SendUpdate
    <3>1. PICK e \in dl.update : Send("Update", e, "none")
      BY <2>3, ZenonT(60) DEF SendUpdate
    <3>2. UNCHANGED <<mail, ld, imp>>
      BY <2>3, Zenon DEF SendUpdate
    <3>3. dl'.update = {}
      BY <2>3 DEF SendUpdate
    <3>4. e \in Rows
      BY <1>0 DEF Downloads
    <3>5. Command("Update", e, "none") \in Msgs
      BY <3>4, CommandFacts, Zenon
    <3>6. /\ imp'.at \in {"open", "send"} => ImportedEntry' \in owned
          /\ ld' = "set" => OwnedEntry \in owned
      BY <1>8, <3>2, Zenon DEF OInv, ImportedEntry
    <3> QED
      BY <1>0, <1>1, <1>8, <2>0, <3>1, <3>2, <3>3, <3>5, <3>6, EntrySent, Zenon
  <2>4. CASE ImportSends
    <3>1. /\ Send("Update", ImportedEntry, "imp") /\ imp.at = "send"
          /\ Command("Update", ImportedEntry, "imp") \in Msgs
      BY <2>4, CommandFacts, ZenonT(60) DEF ImportSends, ImportedEntry
    <3>2. UNCHANGED <<mail, ld, dl>>
      BY <2>4, Zenon DEF ImportSends
    <3>3. imp'.at = "wait"
      BY <1>0, <2>4, ImpAt, Zenon DEF ImportSends
    <3>4. ImportedEntry \in owned /\ (ld' = "set" => OwnedEntry \in owned)
      BY <1>8, <3>1, <3>2, Zenon DEF OInv
    <3> QED
      BY <1>0, <1>1, <1>8, <2>0, <3>1, <3>2, <3>3, <3>4, EntrySent, Zenon
  <2>5. CASE \/ StartDownload \/ DownloadLoaded \/ EndDownload
             \/ StartImport \/ ImportProtects \/ ImportAcked \/ DropTempTag
    <3>1. queue' = queue /\ ld' = ld /\ \A t \in Task : mail'[t] \subseteq mail[t]
      BY <1>0, <2>5, Taken, ZenonT(60) DEF StartDownload, DownloadLoaded, EndDownload,
               StartImport, ImportProtects, ImportAcked, DropTempTag, Task
    <3>2. dl'.update = dl.update
      <4>1. dl' = dl \/ \E s \in {"idle", "load", "write"} : dl' = [dl EXCEPT !.at = s]
        BY <2>5, Zenon DEF StartDownload, DownloadLoaded, EndDownload,
               StartImport, ImportProtects, ImportAcked, DropTempTag
      <4> QED
        BY <1>0, <4>1, DlAt, Zenon
    <3>3. imp' = imp \/ imp'.at \notin {"open", "send"}
      <4>1. CASE StartImport \/ DropTempTag
        BY <4>1, SMTT(30) DEF StartImport, DropTempTag
      <4>2. CASE ImportProtects \/ ImportAcked
        BY <1>0, <4>2, ImpAt, Zenon DEF ImportProtects, ImportAcked
      <4> QED
        BY <2>5, <4>1, <4>2, Zenon DEF StartDownload, DownloadLoaded, EndDownload
    <3>4. imp'.at \in {"open", "send"} => ImportedEntry' \in owned'
      BY <1>8, <2>0, <3>3, Zenon DEF OInv, ImportedEntry
    <3>5. ld' = "set" => OwnedEntry \in owned'
      BY <1>8, <2>0, <3>1, Zenon DEF OInv
    <3> QED
      BY <1>1, <1>8, <2>0, <3>1, <3>2, <3>4, <3>5, EntriesKept, Zenon
  <2> QED
    BY <2>1, <2>2, <2>3, <2>4, <2>5, Zenon
<1> QED
  BY <1>0, <1>5, <1>6, <1>7, <1>8, Zenon DEF FInv

-----------------------------------------------------------------------------
(* Steps that change the handle, but no file *)

\* A handle that has nothing.
LEMMA HandleVacant ==
  ASSUME NEW st \in {"Initial", "Loading", "NonExisting", "Poisoned"}, hd' = NoHandle(st),
         ld' \notin {"set", "setwait"}, FileTypes', FileBacked'
  PROVE  HInv'
<1>1. hd' = Handle(st, {}, Closed)
  BY Zenon DEF NoHandle
<1>2. hd'.st = st
  BY <1>1 DEF Handle
<1>3. HandleTypes'
  BY <1>1, ClosedFacts, HandleIn, Zenon DEF HandleTypes
<1>4. WorkBacked' /\ CompleteBacked'
  BY <1>2, Zenon DEF WorkBacked, Working, CompleteBacked
<1> QED
  BY <1>3, <1>4, Zenon DEF HInv

\* A handle that has become complete.
LEMMA HandleComplete ==
  ASSUME NEW fd \in [Opened -> (SUBSET Chunk) \union {Linked}], hd' = Handle("Complete", Chunk, fd),
         fd["sizes"] = {}, ld' \notin {"set", "setwait"}, FileTypes', FileBacked',
         PowerStays' => \A p \in Stock : (IF fd[p] = Linked THEN file'[p] ELSE fd[p]) = Chunk
  PROVE  HInv'
<1>1. hd'.st = "Complete" /\ hd'.fd = fd
  BY DEF Handle
<1>2. Chunk \in SUBSET Chunk
  BY Zenon
<1>3. HandleTypes'
  BY <1>2, HandleIn, Zenon DEF HandleTypes
<1>4. WorkBacked'
  BY <1>1, Zenon DEF WorkBacked, Working
<1>5. \A p \in Stock : Content(p)' = IF fd[p] = Linked THEN file'[p] ELSE fd[p]
  BY <1>1, Zenon DEF Content
<1>6. CompleteBacked'
  BY <1>1, <1>5, Zenon DEF CompleteBacked
<1> QED
  BY <1>3, <1>4, <1>6, Zenon DEF HInv

\* A handle that is partial, or loaded and about to be complete.
LEMMA HandlePartial ==
  ASSUME NEW fd \in [Opened -> (SUBSET Chunk) \union {Linked}], NEW bits \in SUBSET Chunk,
         NEW st \in {"Partial", "Loading"}, hd' = Handle(st, bits, fd),
         FileTypes', FileBacked', ld' # "idle" => bits = Chunk,
         \A p \in Opened : fd[p] = Linked => file'[p] # NoFile,
         \A p \in Stock : fd[p] = Linked => bits \subseteq file'[p],
         \A p \in Stock : fd[p] # Linked => PowerStays' /\ file'[p] = Chunk /\ bits \subseteq fd[p]
  PROVE  HInv'
<1>1. hd'.st = st /\ hd'.bits = bits /\ hd'.fd = fd
  BY DEF Handle
<1>2. HandleTypes'
  BY HandleIn, Zenon DEF HandleTypes
<1>3. WorkBacked'
  BY <1>1, Zenon DEF WorkBacked
<1>4. CompleteBacked'
  BY <1>1, Zenon DEF CompleteBacked
<1> QED
  BY <1>2, <1>3, <1>4, Zenon DEF HInv

\* The files that are opened for an entry that the store has.
LEMMA OpenedFacts ==
  ASSUME NEW e \in owned, e # Absent, IsComplete(e)
  PROVE  /\ OpenFiles(e) \in [Opened -> (SUBSET Chunk) \union {Linked}] /\ OpenFiles(e)["sizes"] = {}
         /\ \A p \in Stock : (IF OpenFiles(e)[p] = Linked THEN file[p] ELSE OpenFiles(e)[p]) = Chunk
<1>1. /\ e.data.at = "Owned" => file["data"] = Chunk
      /\ e.outboard = "Owned" => file["outboard"] = Chunk
  BY Zenon DEF owned
<1>2. /\ OpenFiles(e)["data"] = IF e.data.at = "Owned" THEN Linked ELSE Chunk
      /\ OpenFiles(e)["outboard"] = IF e.outboard = "Owned" THEN Linked ELSE Chunk
      /\ OpenFiles(e)["sizes"] = {} /\ DOMAIN OpenFiles(e) = {"data", "outboard", "sizes"}
      /\ OpenFiles(e) = [p \in {"data", "outboard", "sizes"} |-> OpenFiles(e)[p]]
  BY DEF OpenFiles
<1>3. Opened = {"data", "outboard", "sizes"} /\ {} \in SUBSET Chunk /\ Chunk \in SUBSET Chunk
  BY Zenon DEF Opened
<1>4. \A p \in Opened : OpenFiles(e)[p] \in (SUBSET Chunk) \union {Linked}
  BY <1>2, <1>3, Zenon
<1>5. OpenFiles(e) \in [Opened -> (SUBSET Chunk) \union {Linked}]
  BY <1>2, <1>3, <1>4, Zenon
<1>6. \A p \in Stock : (IF OpenFiles(e)[p] = Linked THEN file[p] ELSE OpenFiles(e)[p]) = Chunk
  BY <1>1, <1>2, Marks, Zenon DEF Stock
<1> QED
  BY <1>2, <1>5, <1>6, Zenon

\* The same without the promise about the content.
LEMMA OpenedTypes ==
  ASSUME NEW e
  PROVE  OpenFiles(e) \in [Opened -> (SUBSET Chunk) \union {Linked}] /\ OpenFiles(e)["sizes"] = {}
<1>1. /\ OpenFiles(e)["data"] \in {Linked, Chunk} /\ OpenFiles(e)["outboard"] \in {Linked, Chunk}
      /\ OpenFiles(e)["sizes"] = {}
      /\ OpenFiles(e) = [p \in {"data", "outboard", "sizes"} |-> OpenFiles(e)[p]]
  BY SMTT(30) DEF OpenFiles
<1>2. Opened = {"data", "outboard", "sizes"} /\ {} \in SUBSET Chunk /\ Chunk \in SUBSET Chunk
  BY Zenon DEF Opened
<1>3. \A p \in Opened : OpenFiles(e)[p] \in (SUBSET Chunk) \union {Linked}
  BY <1>1, <1>2, Zenon
<1> QED
  BY <1>1, <1>2, <1>3, Zenon

\* The handle after into_complete.
LEMMA CompletedFacts ==
  ASSUME NEW h, NEW o \in SUBSET Chunk, h.fd \in [Opened -> (SUBSET Chunk) \union {Linked}]
  PROVE  /\ CompleteFiles(h, o) \in [Opened -> (SUBSET Chunk) \union {Linked}]
         /\ CompleteFiles(h, o)["sizes"] = {} /\ CompleteFiles(h, o)["data"] = h.fd["data"]
         /\ CompleteFiles(h, o)["outboard"] = IF InlineOutboard THEN o ELSE h.fd["outboard"]
<1>1. /\ CompleteFiles(h, o)["sizes"] = {} /\ CompleteFiles(h, o)["data"] = h.fd["data"]
      /\ CompleteFiles(h, o)["outboard"] = IF InlineOutboard THEN o ELSE h.fd["outboard"]
      /\ CompleteFiles(h, o) = [p \in {"data", "outboard", "sizes"} |-> CompleteFiles(h, o)[p]]
  BY SMTT(30) DEF CompleteFiles
<1>2. Opened = {"data", "outboard", "sizes"} /\ {} \in SUBSET Chunk
  BY Zenon DEF Opened
<1>3. h.fd["data"] \in (SUBSET Chunk) \union {Linked} /\ h.fd["outboard"] \in (SUBSET Chunk) \union {Linked}
  BY <1>2, Zenon
<1>4. \A p \in Opened : CompleteFiles(h, o)[p] \in (SUBSET Chunk) \union {Linked}
  BY <1>1, <1>2, <1>3, Zenon
<1> QED
  BY <1>1, <1>2, <1>4, Zenon

\* What the working handle's files contain.
LEMMA WorkContent ==
  ASSUME HInv, Working, NEW p \in Stock
  PROVE  Content(p) \in SUBSET Chunk /\ hd.bits \subseteq Content(p)
<1>1. HandleTypes /\ FileTypes /\ WorkBacked /\ p \in Opened
  BY PartFacts, Zenon DEF HInv
<1>2. CASE hd.fd[p] = Linked
  <2>1. file[p] # NoFile /\ hd.bits \subseteq file[p]
    BY <1>1, <1>2, Zenon DEF WorkBacked
  <2>2. file[p] \in SUBSET Chunk
    BY <1>1, <2>1, FileValues, Zenon
  <2> QED
    BY <1>2, <2>1, <2>2, Zenon DEF Content
<1>3. CASE hd.fd[p] # Linked
  <2>1. hd.bits \subseteq hd.fd[p]
    BY <1>1, <1>3, Zenon DEF WorkBacked
  <2>2. hd.fd[p] \in SUBSET Chunk
    BY <1>1, <1>3, HandleParts, Zenon
  <2> QED
    BY <1>3, <2>1, <2>2, Zenon DEF Content
<1> QED
  BY <1>2, <1>3, Zenon

LEMMA FileFrame ==
  ASSUME UNCHANGED <<file, safe, scenario>>
  PROVE  /\ FileTypes => FileTypes'
         /\ FileBacked => FileBacked'
         /\ owned' = owned /\ (PowerStays' <=> PowerStays)
BY Zenon DEF FileTypes, FileBacked, owned, PowerStays, Events

\* Loading and opening.
LEMMA OpenSteps ==
  ASSUME QInv, FInv, Calm, UNCHANGED scenario,
         StartLoad \/ LoadOpen \/ LoadIsSet \/ ImportOpens
  PROVE  FInv'
<1>0. /\ Undisturbed /\ HInv /\ (PowerStays => OInv) /\ Proto /\ LoadInv
      /\ imp \in Imports /\ dl \in Downloads /\ FileTypes /\ FileBacked
  BY Zenon DEF FInv, QInv, RowTypes, HInv
<1>1. UNCHANGED <<file, safe, db, row, ds, queue, dl, ex, gc>>
  BY Zenon DEF StartLoad, LoadOpen, LoadIsSet, ImportOpens, meta, tasks
<1>2. FileTypes' /\ FileBacked' /\ owned' = owned /\ (PowerStays' <=> PowerStays)
  BY <1>0, <1>1, FileFrame, Zenon
<1>3. CASE StartLoad
  <2>1. UNCHANGED <<imp, mail>> /\ hd' = NoHandle("Loading") /\ ld' = "ask"
    BY <1>3, ZenonT(60) DEF StartLoad, tasks
  <2>2. Undisturbed'
    BY <1>0, <1>1, <2>1, UndisturbedKept, Zenon
  <2>3. HInv'
    BY <1>2, <2>1, HandleVacant, Zenon
  <2>4. ASSUME OInv PROVE OInv'
    <3>1. dl'.update \subseteq owned' /\ (imp'.at \in {"open", "send"} => ImportedEntry' \in owned')
      BY <1>1, <1>2, <2>1, <2>4, ZenonT(60) DEF OInv, ImportedEntry
    <3> QED
      BY <1>1, <1>2, <2>1, <2>4, <3>1, EntriesKept, Zenon
  <2> QED
    BY <1>0, <1>2, <2>2, <2>3, <2>4, Zenon DEF FInv
<1>4. CASE LoadOpen
  <2>1. UNCHANGED imp /\ Take("ld") /\ ld' = "idle" /\ "ld" \in Task
    BY <1>4, ZenonT(60) DEF LoadOpen, tasks, Task
  <2>2. Undisturbed'
    BY <1>0, <1>1, <2>1, UndisturbedKept, Zenon
  <2>3. PICK e \in mail["ld"] :
          /\ e # Absent => IsComplete(e)
          /\ hd' = IF e = Absent THEN NoHandle("NonExisting")
                   ELSE IF CanOpen(e) THEN Handle("Complete", Chunk, OpenFiles(e))
                   ELSE NoHandle("Poisoned")
    BY <1>4, Zenon DEF LoadOpen
  <2>4. HInv'
    <3>1. CASE hd' = NoHandle("NonExisting") \/ hd' = NoHandle("Poisoned")
      BY <1>2, <2>1, <3>1, HandleVacant, Zenon
    <3>2. CASE e # Absent /\ hd' = Handle("Complete", Chunk, OpenFiles(e))
      <4>1. ASSUME PowerStays
            PROVE  \A p \in Stock : (IF OpenFiles(e)[p] = Linked THEN file[p] ELSE OpenFiles(e)[p]) = Chunk
        <5>1. e \in owned
          BY <1>0, <2>1, <4>1, Zenon DEF OInv
        <5> QED
          BY <2>3, <3>2, <5>1, OpenedFacts, ZenonT(60)
      <4>2. OpenFiles(e) \in [Opened -> (SUBSET Chunk) \union {Linked}] /\ OpenFiles(e)["sizes"] = {}
        BY OpenedTypes, Zenon
      <4>3. ld' \notin {"set", "setwait"}
        BY <2>1, Zenon
      <4>4. PowerStays' =>
              \A p \in Stock : (IF OpenFiles(e)[p] = Linked THEN file'[p] ELSE OpenFiles(e)[p]) = Chunk
        BY <1>1, <1>2, <4>1, Zenon
      <4> QED
        BY <1>2, <3>2, <4>2, <4>3, <4>4, HandleComplete, Zenon
    <3> QED
      BY <2>3, <3>1, <3>2, Zenon
  <2>5. ASSUME OInv PROVE OInv'
    <3>1. dl'.update \subseteq owned' /\ (imp'.at \in {"open", "send"} => ImportedEntry' \in owned')
      BY <1>1, <1>2, <2>1, <2>5, Zenon DEF OInv, ImportedEntry
    <3>2. \A t \in Task : mail'[t] \subseteq mail[t]
      BY <1>0, <2>1, Taken, Zenon
    <3> QED
      BY <1>1, <1>2, <2>1, <2>5, <3>1, <3>2, EntriesKept, Zenon
  <2> QED
    BY <1>0, <1>2, <2>2, <2>4, <2>5, Zenon DEF FInv
<1>5. CASE LoadIsSet
  <2>1. /\ UNCHANGED imp /\ Take("ld") /\ ld' = "idle" /\ "ld" \in Task /\ ld = "setwait"
        /\ hd' = Handle("Complete", Chunk, CompleteFiles(hd, Content("outboard")))
    BY <1>5, Zenon DEF LoadIsSet, tasks, Task
  <2>2. Undisturbed'
    BY <1>0, <1>1, <2>1, UndisturbedKept, Zenon
  <2>3. HInv'
    <3> DEFINE fd == CompleteFiles(hd, Content("outboard"))
    <3>1. Working /\ hd.bits = Chunk
      BY <1>0, <2>1, ZenonT(60) DEF Working, HInv, WorkBacked
    <3>2. Content("outboard") \in SUBSET Chunk /\ \A p \in Stock : Content(p) = Chunk
      BY <1>0, <3>1, WorkContent, PartFacts, Zenon
    <3>3. hd.fd \in [Opened -> (SUBSET Chunk) \union {Linked}]
      BY <1>0, HandleParts, Zenon DEF HInv
    <3>4. /\ fd \in [Opened -> (SUBSET Chunk) \union {Linked}] /\ fd["sizes"] = {}
          /\ fd["data"] = hd.fd["data"]
          /\ fd["outboard"] = IF InlineOutboard THEN Content("outboard") ELSE hd.fd["outboard"]
      BY <3>2, <3>3, CompletedFacts, Zenon
    <3> HIDE DEF fd
    <3>5. Content("data") = Chunk /\ Content("outboard") = Chunk
      BY <3>2, PartFacts, Zenon
    <3>6. (IF fd["data"] = Linked THEN file["data"] ELSE fd["data"]) = Chunk
      BY <3>4, <3>5, Zenon DEF Content
    <3>7. (IF fd["outboard"] = Linked THEN file["outboard"] ELSE fd["outboard"]) = Chunk
      BY <3>4, <3>5, Marks, Zenon DEF Content
    <3>8. \A p \in Stock : (IF fd[p] = Linked THEN file'[p] ELSE fd[p]) = Chunk
      BY <1>1, <3>6, <3>7, Zenon DEF Stock
    <3>9. hd' = Handle("Complete", Chunk, fd)
      BY <2>1, Zenon DEF fd
    <3> QED
      BY <1>2, <2>1, <3>4, <3>8, <3>9, HandleComplete, Zenon
  <2>5. ASSUME OInv PROVE OInv'
    <3>1. dl'.update \subseteq owned' /\ (imp'.at \in {"open", "send"} => ImportedEntry' \in owned')
      BY <1>1, <1>2, <2>1, <2>5, ZenonT(60) DEF OInv, ImportedEntry
    <3>2. \A t \in Task : mail'[t] \subseteq mail[t]
      BY <1>0, <2>1, Taken, Zenon
    <3> QED
      BY <1>1, <1>2, <2>1, <2>5, <3>1, <3>2, EntriesKept, Zenon
  <2> QED
    BY <1>0, <1>2, <2>2, <2>3, <2>5, Zenon DEF FInv
<1>6. CASE ImportOpens
  <2>1. UNCHANGED <<mail, ld>> /\ imp.at = "open" /\ PowerStays
    BY <1>0, <1>6, Zenon DEF ImportOpens, Undisturbed
  <2>2. Undisturbed'
    BY <1>0, <1>1, <2>1, UndisturbedKept, Zenon
  <2>3. ImportedEntry \in owned /\ ImportedEntry # Absent /\ IsComplete(ImportedEntry)
    <3>1. ImportedEntry \in {OwnedEntry, ExternalEntry}
      BY Zenon DEF ImportedEntry
    <3> QED
      BY <1>0, <2>1, <3>1, RowFacts, Zenon DEF OInv, Rows
  <2>4. HInv'
    <3>1. CASE hd' = hd
      BY <1>0, <1>1, <2>1, <3>1, HandleFrame, Zenon
    <3>2. CASE /\ hd' = Handle("Complete", Chunk, OpenFiles(ImportedEntry))
               /\ hd.st \in {"NonExisting", "Partial"}
      <4>1. PICK e : e = ImportedEntry
        OBVIOUS
      <4>2. /\ OpenFiles(e) \in [Opened -> (SUBSET Chunk) \union {Linked}] /\ OpenFiles(e)["sizes"] = {}
            /\ \A p \in Stock : (IF OpenFiles(e)[p] = Linked THEN file[p] ELSE OpenFiles(e)[p]) = Chunk
        BY <2>3, <4>1, OpenedFacts, Zenon
      <4>3. \A p \in Stock : (IF OpenFiles(e)[p] = Linked THEN file'[p] ELSE OpenFiles(e)[p]) = Chunk
        BY <1>1, <4>2, Zenon
      <4>4. ld' \notin {"set", "setwait"}
        BY <1>0, <2>1, <3>2, Zenon DEF LoadInv
      <4> QED
        BY <1>2, <3>2, <4>1, <4>2, <4>3, <4>4, HandleComplete, Zenon
    <3> QED
      BY <1>6, <3>1, <3>2, Zenon DEF ImportOpens
  <2>5. imp'.at \in {"open", "send"} => ImportedEntry' = ImportedEntry
    <3>1. CASE CanOpen(ImportedEntry)
      <4>1. imp'.ref = imp.ref
        BY <1>0, <1>6, <3>1, ImpAt, Zenon DEF ImportOpens
      <4> QED
        BY <4>1, Zenon DEF ImportedEntry
    <3>2. CASE ~CanOpen(ImportedEntry)
      <4>1. imp' = [at |-> "idle", ref |-> FALSE]
        BY <1>6, <3>2, Zenon DEF ImportOpens
      <4> QED
        BY <4>1, SMTT(30)
    <3> QED
      BY <3>1, <3>2, Zenon
  <2>6. ASSUME OInv PROVE OInv'
    <3>1. /\ dl'.update \subseteq owned' /\ (imp'.at \in {"open", "send"} => ImportedEntry' \in owned')
          /\ ld' = "set" => OwnedEntry \in owned'
      BY <1>1, <1>2, <2>1, <2>3, <2>5, <2>6, Zenon DEF OInv
    <3> QED
      BY <1>1, <1>2, <2>1, <2>6, <3>1, EntriesKept, Zenon
  <2> QED
    BY <1>0, <1>2, <2>2, <2>4, <2>6, Zenon DEF FInv
<1> QED
  BY <1>3, <1>4, <1>5, <1>6, Zenon

-----------------------------------------------------------------------------
(* Steps that change files *)

\* What the bitfield file claims survives if it stays and the others grow.
LEMMA FilesGrow ==
  ASSUME HInv, scenario' = scenario, file'["bitfield"] = file["bitfield"],
         \A p \in Stock : file[p] # NoFile => file'[p] # NoFile /\ file[p] \subseteq file'[p],
         ~PowerStays => \A p \in Stock : file[p] # NoFile => safe[p] \subseteq safe'[p]
  PROVE  FileBacked'
<1>1. PowerStays' <=> PowerStays
  BY Zenon DEF PowerStays, Events
<1>2. FileBacked
  BY Zenon DEF HInv
<1>3. ASSUME file'["bitfield"] \notin {NoFile, Dirty}, NEW p \in Stock
      PROVE  /\ file'[p] # NoFile /\ file'["bitfield"] \subseteq file'[p]
             /\ ~PowerStays => file'["bitfield"] \subseteq safe'[p]
  <2>1. /\ file[p] # NoFile /\ file["bitfield"] \subseteq file[p]
        /\ ~PowerStays => file["bitfield"] \subseteq safe[p]
    BY <1>2, <1>3, Zenon DEF FileBacked
  <2>2. file["bitfield"] \subseteq file'[p]
    BY <2>1, Zenon
  <2>3. ~PowerStays => file["bitfield"] \subseteq safe'[p]
    BY <2>1, Zenon
  <2> QED
    BY <2>1, <2>2, <2>3, Zenon
<1> QED
  BY <1>1, <1>3, ZenonT(60) DEF FileBacked

\* A complete file that only grows stays complete.
LEMMA ChunkStays ==
  ASSUME FileTypes', NEW p \in Stock, file[p] = Chunk, file'[p] # NoFile, file[p] \subseteq file'[p]
  PROVE  file'[p] = Chunk
<1>1. file'[p] \subseteq Chunk
  BY PartFacts, Zenon DEF FileTypes
<1> QED
  BY <1>1, Zenon

\* Nothing is on its way after a restart.
LEMMA EntriesFresh ==
  ASSUME OInv, Restart, owned \subseteq owned'
  PROVE  OInv'
<1>1. queue' = <<>> /\ mail' = [t \in Task |-> {}] /\ db' = db /\ row' = db /\ ld' = "idle"
  BY Zenon DEF Restart
<1>2. imp'.at = "idle" /\ dl'.update = {} /\ 1..Len(queue') = {}
  BY DEF Restart
<1>3. \A t \in Task : mail'[t] = {}
  BY <1>1, Zenon
<1>4. db' \in owned' /\ row' \in owned'
  BY <1>1, Zenon DEF OInv
<1> QED
  BY <1>1, <1>2, <1>3, <1>4, Zenon DEF OInv

LEMMA UndisturbedFresh == ASSUME Restart PROVE Undisturbed'
<1>1. ex' = "idle" /\ gc' = "idle" /\ ds' = {}
  BY Zenon DEF Restart
<1>2. imp'.at = "idle"
  BY DEF Restart
<1> QED
  BY <1>1, <1>2, Zenon DEF Undisturbed

LEMMA CrashSteps ==
  ASSUME QInv, FInv, Calm, UNCHANGED scenario, Crash \/ PowerLoss
  PROVE  FInv'
<1>0. Undisturbed /\ HInv /\ (PowerStays => OInv) /\ FileTypes /\ FileBacked
  BY Zenon DEF FInv, HInv
<1>1. Restart /\ hd' = NoHandle("Initial") /\ ld' = "idle"
  BY Zenon DEF Crash, PowerLoss, Restart
<1>2. Undisturbed' /\ (PowerStays' <=> PowerStays)
  BY <1>1, UndisturbedFresh, Zenon DEF PowerStays, Events
<1>3. CASE Crash
  <2>1. CASE UNCHANGED <<file, safe>>
    <3>1. FileTypes' /\ FileBacked' /\ owned' = owned
      BY <1>0, <2>1, FileFrame, Zenon
    <3>2. HInv'
      BY <1>1, <3>1, HandleVacant, Zenon
    <3>3. OInv => OInv'
      BY <1>1, <3>1, EntriesFresh, Zenon
    <3> QED
      BY <1>0, <1>2, <3>2, <3>3, Zenon DEF FInv
  <2>2. CASE /\ file' = [file EXCEPT !["bitfield"] = Dirty]
             /\ safe' = [safe EXCEPT !["bitfield"] = Dirty]
    <3>1. /\ file'["bitfield"] = Dirty /\ safe'["bitfield"] = Dirty
          /\ \A p \in Opened : file'[p] = file[p] /\ safe'[p] = safe[p]
          /\ file' = [p \in Part |-> file'[p]] /\ safe' = [p \in Part |-> safe'[p]]
      BY <1>0, <2>2, PartFacts, Zenon DEF FileTypes
    <3>2. FileTypes'
      BY <1>0, <3>1, FileValues, FilesTyped, Zenon
    <3>3. FileBacked'
      BY <3>1, Zenon DEF FileBacked
    <3>4. owned \subseteq owned'
      BY <3>1, OwnedKept, PartFacts, Zenon
    <3>5. HInv'
      BY <1>1, <3>2, <3>3, HandleVacant, Zenon
    <3>6. OInv => OInv'
      BY <1>1, <3>4, EntriesFresh, Zenon
    <3> QED
      BY <1>0, <1>2, <3>5, <3>6, Zenon DEF FInv
  <2> QED
    BY <1>3, <2>1, <2>2, Zenon DEF Crash
<1>4. CASE PowerLoss
  <2>1. ~PowerStays
    BY <1>4, Zenon DEF PowerLoss, PowerStays
  <2>2. PICK P \in SUBSET Opened : file' = [p \in Part |-> IF p \in P THEN safe[p] ELSE file[p]]
    BY <1>4, Zenon DEF PowerLoss
  <2>3. safe' = file'
    BY <1>4, Zenon DEF PowerLoss
  <2>4. /\ file' = [p \in Part |-> file'[p]] /\ file'["bitfield"] = file["bitfield"]
        /\ \A p \in Opened : file'[p] = safe[p] \/ file'[p] = file[p]
    BY <2>2, PartFacts, Zenon
  <2>5. FileTypes'
    <3>1. \A p \in Opened : file'[p] = NoFile \/ file'[p] \in SUBSET Chunk
      BY <1>0, <2>4, FileValues, Zenon
    <3>2. file'["bitfield"] \in (SUBSET Chunk) \union {NoFile, Dirty}
      BY <1>0, <2>4, FileValues, Zenon
    <3> QED
      BY <2>3, <2>4, <3>1, <3>2, FilesTyped, Zenon
  <2>6. FileBacked'
    <3>1. ASSUME file'["bitfield"] \notin {NoFile, Dirty}, NEW p \in Stock
          PROVE  file'[p] # NoFile /\ file'["bitfield"] \subseteq file'[p]
      <4>1. p \in Opened /\ file[p] # NoFile /\ file["bitfield"] \subseteq file[p]
              /\ file["bitfield"] \subseteq safe[p]
        BY <1>0, <2>1, <2>4, <3>1, PartFacts, Zenon DEF FileBacked
      <4>2. safe[p] # NoFile
        BY <1>0, <4>1, FileValues, Zenon
      <4> QED
        BY <2>4, <4>1, <4>2, Zenon
    <3> QED
      BY <2>3, <3>1, Zenon DEF FileBacked
  <2>7. HInv'
    BY <1>1, <2>5, <2>6, HandleVacant, Zenon
  <2> QED
    BY <1>2, <2>1, <2>7, Zenon DEF FInv
<1> QED
  BY <1>3, <1>4, Zenon

\* The last task ends: the bitfield is written after the files are synced.
LEMMA PersistStep ==
  ASSUME QInv, FInv, Calm, UNCHANGED scenario, Persist
  PROVE  FInv'
<1>0. Undisturbed /\ HInv /\ (PowerStays => OInv) /\ HandleTypes /\ FileTypes /\ FileBacked /\ WorkBacked
  BY Zenon DEF FInv, HInv
<1>1. /\ hd' = NoHandle("Initial") /\ ld' = "idle"
      /\ UNCHANGED <<db, row, ds, queue, mail, imp, dl, ex, gc>>
  BY Zenon DEF Persist, meta, tasks
<1>2. Undisturbed' /\ (PowerStays' <=> PowerStays)
  BY <1>0, <1>1, UndisturbedKept, Zenon DEF PowerStays, Events
<1>3. ASSUME OInv, owned \subseteq owned' PROVE OInv'
  <2>1. /\ dl'.update \subseteq owned' /\ (imp'.at \in {"open", "send"} => ImportedEntry' \in owned')
    BY <1>1, <1>3, Zenon DEF OInv, ImportedEntry
  <2> QED
    BY <1>1, <1>3, <2>1, EntriesKept, Zenon
<1>4. CASE UNCHANGED <<file, safe>>
  <2>1. FileTypes' /\ FileBacked' /\ owned' = owned
    BY <1>0, <1>4, FileFrame, Zenon
  <2>2. HInv'
    BY <1>1, <2>1, HandleVacant, Zenon
  <2> QED
    BY <1>0, <1>2, <1>3, <2>1, <2>2, Zenon DEF FInv
<1>5. CASE /\ hd.st = "Partial"
           /\ file' = [file EXCEPT !["bitfield"] = hd.bits]
           /\ safe' = [p \in Part |-> IF p \in Opened /\ hd.fd[p] # Linked THEN safe[p] ELSE file'[p]]
  <2>1. /\ file' = [p \in Part |-> file'[p]] /\ file'["bitfield"] = hd.bits
        /\ \A p \in Opened : file'[p] = file[p]
    BY <1>0, <1>5, PartFacts, Zenon DEF FileTypes
  <2>2. /\ safe' = [p \in Part |-> safe'[p]] /\ safe'["bitfield"] = file'["bitfield"]
        /\ \A p \in Opened : safe'[p] = IF hd.fd[p] # Linked THEN safe[p] ELSE file[p]
    BY <1>5, <2>1, PartFacts, Zenon
  <2>3. hd.bits \in SUBSET Chunk
    BY <1>0, HandleParts, Zenon
  <2>4. FileTypes'
    <3>1. \A p \in Opened : file'[p] = NoFile \/ file'[p] \in SUBSET Chunk
      BY <1>0, <2>1, FileValues, ZenonT(60)
    <3>2. \A p \in Opened : safe'[p] = NoFile \/ safe'[p] \in SUBSET Chunk
      BY <1>0, <2>2, FileValues, Zenon
    <3>3. \A p \in Opened : file'[p] = NoFile <=> safe'[p] = NoFile
      BY <1>0, <2>1, <2>2, FileValues, Zenon
    <3>4. \A p \in Opened : file'[p] # NoFile => safe'[p] \subseteq file'[p]
      BY <1>0, <2>1, <2>2, FileValues, Zenon
    <3> QED
      BY <2>1, <2>2, <2>3, <3>1, <3>2, <3>3, <3>4, FilesTyped, Zenon
  <2>5. ASSUME NEW p \in Stock
        PROVE  /\ file'[p] # NoFile /\ hd.bits \subseteq file'[p]
               /\ ~PowerStays => hd.bits \subseteq safe'[p]
    <3>1. p \in Opened /\ Working
      BY <1>5, PartFacts, Zenon DEF Working
    <3>2. CASE hd.fd[p] = Linked
      BY <1>0, <2>1, <2>2, <3>1, <3>2, Zenon DEF WorkBacked
    <3>3. CASE hd.fd[p] # Linked
      BY <1>0, <2>1, <2>3, <3>1, <3>3, Marks, ZenonT(60) DEF WorkBacked
    <3> QED
      BY <3>2, <3>3, Zenon
  <2>6. FileBacked'
    BY <1>2, <2>1, <2>5, ZenonT(60) DEF FileBacked
  <2>7. owned \subseteq owned'
    BY <2>1, OwnedKept, PartFacts, Zenon
  <2>8. HInv'
    BY <1>1, <2>4, <2>6, HandleVacant, Zenon
  <2> QED
    BY <1>0, <1>2, <1>3, <2>7, <2>8, Zenon DEF FInv
<1> QED
  BY <1>4, <1>5, Zenon DEF Persist

\* Files that lose their path, or get a complete file in their place, stay as
\* they are for the handle that has them open.
LEMMA DetachedKept ==
  ASSUME HInv, LoadInv, UNCHANGED <<ld, scenario>>, NEW P, hd' = Detached(P), FileTypes', FileBacked',
         \A p \in Opened : p \notin P => file'[p] = file[p],
         \A p \in Stock : p \in P => PowerStays /\ file'[p] = Chunk
  PROVE  HInv'
<1> DEFINE open == hd.st \in {"Partial", "Complete"} \/ ld \in {"set", "setwait"}
<1>0. /\ HandleTypes /\ FileTypes /\ WorkBacked /\ CompleteBacked /\ (PowerStays' <=> PowerStays)
      /\ hd.bits \in SUBSET Chunk /\ hd.fd \in [Opened -> (SUBSET Chunk) \union {Linked}]
      /\ hd.st \in {"Initial", "Loading", "NonExisting", "Partial", "Complete", "Poisoned"}
  BY HandleParts, Zenon DEF HInv, PowerStays, Events
<1>1. PICK f : /\ hd' = Handle(hd.st, hd.bits, f) /\ hd'.st = hd.st /\ hd'.bits = hd.bits /\ hd'.fd = f
               /\ f = [p \in Opened |-> IF p \in P /\ hd.fd[p] = Linked /\ open THEN file[p] ELSE hd.fd[p]]
  BY DetachedFields, ZenonT(60)
<1>2. \A p \in Opened : p \in P /\ hd.fd[p] = Linked /\ open => f[p] = file[p]
  BY <1>1, Zenon
<1>3. \A p \in Opened : ~(p \in P /\ hd.fd[p] = Linked /\ open) => f[p] = hd.fd[p]
  BY <1>1, Zenon
<1>4. ASSUME NEW p \in Opened, p \in P, hd.fd[p] = Linked, open PROVE file[p] \in SUBSET Chunk
  <2>1. CASE Working
    BY <1>0, <1>4, <2>1, FileValues, Zenon DEF WorkBacked
  <2>2. CASE hd.st = "Complete"
    <3>1. {} \in SUBSET Chunk /\ Chunk \in SUBSET Chunk
      BY Zenon
    <3>2. p # "sizes"
      BY <1>0, <1>4, <2>2, <3>1, Marks, Zenon DEF CompleteBacked
    <3>3. p \in Stock
      BY <3>2, Zenon DEF Opened, Stock
    <3>4. Content(p) = Chunk
      BY <1>0, <1>4, <2>2, <3>3, Zenon DEF CompleteBacked
    <3> QED
      BY <1>4, <3>1, <3>4, Zenon DEF Content
  <2> QED
    BY <1>4, <2>1, <2>2, Zenon DEF Working
<1>5. \A p \in Opened : f[p] \in (SUBSET Chunk) \union {Linked}
  BY <1>0, <1>2, <1>3, <1>4, Zenon
<1>6. f \in [Opened -> (SUBSET Chunk) \union {Linked}]
  BY <1>1, <1>5, Zenon
<1>7. HandleTypes'
  <2>1. Handle(hd.st, hd.bits, f) \in Handles
    BY <1>0, <1>6, HandleIn
  <2> QED
    BY <1>1, <2>1, Zenon DEF HandleTypes
<1>8. ASSUME NEW p \in Opened, open, f[p] = Linked
      PROVE  hd.fd[p] = Linked /\ file'[p] = file[p]
  <2>1. ~(p \in P /\ hd.fd[p] = Linked)
    BY <1>2, <1>4, <1>8, Marks, Zenon
  <2> QED
    BY <1>3, <1>8, <2>1, Zenon
<1>9. WorkBacked'
  <2>1. ASSUME Working' PROVE Working /\ open
    BY <1>1, <2>1, ZenonT(60) DEF Working
  <2>2. ASSUME Working, open, NEW p \in Stock, f[p] # Linked
        PROVE  PowerStays /\ file'[p] = Chunk /\ hd.bits \subseteq f[p]
    <3>1. p \in Opened
      BY PartFacts, Zenon
    <3>2. CASE hd.fd[p] = Linked
      <4>1. p \in P /\ f[p] = file[p]
        BY <1>2, <1>3, <2>2, <3>1, <3>2, Zenon
      <4> QED
        BY <1>0, <2>2, <3>2, <4>1, Zenon DEF WorkBacked
    <3>3. CASE hd.fd[p] # Linked
      <4>1. f[p] = hd.fd[p] /\ PowerStays /\ file[p] = Chunk /\ hd.bits \subseteq hd.fd[p]
        BY <1>0, <1>3, <2>2, <3>1, <3>3, Zenon DEF WorkBacked
      <4>2. file'[p] = Chunk
        BY <3>1, <4>1, Zenon
      <4> QED
        BY <4>1, <4>2, Zenon
    <3> QED
      BY <3>2, <3>3, Zenon
  <2>3. ASSUME Working, open
        PROVE  /\ \A p \in Opened : f[p] = Linked => file'[p] # NoFile
               /\ \A p \in Stock : f[p] = Linked => hd.bits \subseteq file'[p]
    BY <1>0, <1>8, <2>3, PartFacts, Zenon DEF WorkBacked
  <2>4. Working => (ld' # "idle" => hd.bits = Chunk)
    BY <1>0, Zenon DEF WorkBacked
  <2> QED
    BY <1>0, <1>1, <2>1, <2>2, <2>3, <2>4, ZenonT(60) DEF WorkBacked
<1>10. CompleteBacked'
  <2>1. SUFFICES ASSUME hd.st = "Complete"
                 PROVE  /\ f["sizes"] = {}
                        /\ PowerStays => \A p \in Stock : (IF f[p] = Linked THEN file'[p] ELSE f[p]) = Chunk
    BY <1>0, <1>1, ZenonT(60) DEF CompleteBacked, Content
  <2>2. open /\ {} \in SUBSET Chunk /\ hd.fd["sizes"] = {}
    BY <1>0, <2>1, Zenon DEF CompleteBacked
  <2>3. f["sizes"] = {}
    BY <1>3, <2>2, Marks, PartFacts, Zenon
  <2>4. ASSUME PowerStays, NEW p \in Stock PROVE (IF f[p] = Linked THEN file'[p] ELSE f[p]) = Chunk
    <3>1. p \in Opened /\ Content(p) = Chunk
      BY <1>0, <2>1, <2>4, PartFacts, Zenon DEF CompleteBacked
    <3>2. CASE f[p] = Linked
      BY <1>8, <2>2, <3>1, <3>2, Zenon DEF Content
    <3>3. CASE f[p] # Linked
      BY <1>2, <1>3, <2>2, <3>1, <3>3, Zenon DEF Content
    <3> QED
      BY <3>2, <3>3, Zenon
  <2> QED
    BY <2>3, <2>4, Zenon
<1> QED
  BY <1>7, <1>9, <1>10, Zenon DEF HInv

\* ftx.commit() removes a sizes or a bitfield file.
LEMMA UnlinkStep ==
  ASSUME QInv, FInv, Calm, UNCHANGED scenario, Unlink
  PROVE  FInv'
<1>0. /\ Undisturbed /\ HInv /\ (PowerStays => OInv) /\ FileTypes /\ FileBacked /\ LoadInv
      /\ UNCHANGED <<db, row, queue, mail, ld, imp, dl, ex, gc>> /\ (PowerStays' <=> PowerStays)
  BY Zenon DEF FInv, HInv, QInv, Unlink, tasks, PowerStays, Events
<1>1. PICK p \in ds : /\ ds' = ds \ {p} /\ hd' = Detached({p})
                      /\ file' = [file EXCEPT ![p] = NoFile] /\ safe' = [safe EXCEPT ![p] = NoFile]
  BY Zenon DEF Unlink
<1>2. p \in {"sizes", "bitfield"} /\ p \in Part
  BY <1>0, Zenon DEF Undisturbed, Part
<1>3. /\ file' = [q \in Part |-> file'[q]] /\ safe' = [q \in Part |-> safe'[q]]
      /\ file'[p] = NoFile /\ safe'[p] = NoFile
      /\ \A q \in Part : q # p => file'[q] = file[q] /\ safe'[q] = safe[q]
  BY <1>0, <1>1, <1>2, Zenon DEF FileTypes
<1>4. Undisturbed'
  BY <1>0, <1>1, UndisturbedKept, Zenon
<1>5. \A q \in Opened : (file'[q] = file[q] /\ safe'[q] = safe[q]) \/ (file'[q] = NoFile /\ safe'[q] = NoFile)
  BY <1>3, PartFacts, Zenon
<1>6. (file'["bitfield"] = file["bitfield"] /\ safe'["bitfield"] = safe["bitfield"])
        \/ (file'["bitfield"] = NoFile /\ safe'["bitfield"] = NoFile)
  BY <1>3, PartFacts, Zenon
<1>7. FileTypes'
  <2>1. \A q \in Opened : file'[q] = NoFile \/ file'[q] \in SUBSET Chunk
    BY <1>0, <1>5, FileValues, ZenonT(60)
  <2>2. \A q \in Opened : safe'[q] = NoFile \/ safe'[q] \in SUBSET Chunk
    BY <1>0, <1>5, FileValues, Zenon
  <2>3. \A q \in Opened : file'[q] = NoFile <=> safe'[q] = NoFile
    BY <1>0, <1>5, FileValues, Zenon
  <2>4. \A q \in Opened : file'[q] # NoFile => safe'[q] \subseteq file'[q]
    BY <1>0, <1>5, FileValues, Zenon
  <2>5. file'["bitfield"] \in (SUBSET Chunk) \union {NoFile, Dirty}
    BY <1>0, <1>6, FileValues, Zenon
  <2>6. safe'["bitfield"] = file'["bitfield"]
    <3>1. safe["bitfield"] = file["bitfield"]
      BY <1>0, Zenon DEF FileTypes
    <3> QED
      BY <1>6, <3>1, Zenon
  <2> QED
    BY <1>3, <2>1, <2>2, <2>3, <2>4, <2>5, <2>6, FilesTyped, Zenon
<1>8. \A q \in Stock : q \in Part /\ q # p /\ file'[q] = file[q] /\ safe'[q] = safe[q]
  BY <1>2, <1>3, PartFacts, Zenon
<1>9. FileBacked'
  <2>1. CASE p = "bitfield"
    BY <1>3, <2>1, Zenon DEF FileBacked
  <2>2. CASE p # "bitfield"
    <3>1. file'["bitfield"] = file["bitfield"]
      BY <1>3, <2>2, PartFacts, Zenon
    <3> QED
      BY <1>0, <1>8, <3>1, Zenon DEF FileBacked
  <2> QED
    BY <2>1, <2>2, Zenon
<1>10. HInv'
  <2>1. \A q \in Opened : q \notin {p} => file'[q] = file[q]
    BY <1>3, PartFacts, ZenonT(60)
  <2>2. \A q \in Stock : q \notin {p}
    BY <1>8, Zenon
  <2> QED
    BY <1>0, <1>1, <1>7, <1>9, <2>1, <2>2, DetachedKept, Zenon
<1>11. owned \subseteq owned'
  BY <1>8, OwnedKept, Zenon
<1>12. ASSUME OInv PROVE OInv'
  <2>1. /\ dl'.update \subseteq owned' /\ (imp'.at \in {"open", "send"} => ImportedEntry' \in owned')
        /\ ld' = "set" => OwnedEntry \in owned'
    BY <1>0, <1>11, <1>12, Zenon DEF OInv, ImportedEntry
  <2> QED
    BY <1>0, <1>11, <1>12, <2>1, EntriesKept, Zenon
<1> QED
  BY <1>0, <1>4, <1>10, <1>12, Zenon DEF FInv

\* An import puts its files in their place.
LEMMA RenameStep ==
  ASSUME QInv, FInv, Calm, UNCHANGED scenario, ImportRenames
  PROVE  FInv'
<1>0. /\ Undisturbed /\ HInv /\ (PowerStays => OInv) /\ FileTypes /\ FileBacked /\ LoadInv /\ imp \in Imports
      /\ UNCHANGED <<db, row, ds, queue, mail, ld, dl, ex, gc>> /\ (PowerStays' <=> PowerStays)
      /\ imp.at = "rename" /\ PowerStays
  BY Zenon DEF FInv, HInv, QInv, RowTypes, ImportRenames, meta, PowerStays, Events, Undisturbed
<1>1. PICK P : /\ P = Moved /\ hd' = Detached(P)
               /\ file' = [p \in Part |-> IF p \in P THEN Chunk ELSE file[p]]
               /\ safe' = [p \in Part |-> IF p \in P THEN {} ELSE safe[p]]
  BY Zenon DEF ImportRenames, Calm
<1>2. P \subseteq Stock
  BY <1>1, Zenon DEF Moved, Stock
<1>3. /\ file' = [p \in Part |-> file'[p]] /\ safe' = [p \in Part |-> safe'[p]]
      /\ file'["bitfield"] = file["bitfield"] /\ safe'["bitfield"] = safe["bitfield"]
      /\ \A p \in Opened : IF p \in P THEN file'[p] = Chunk /\ safe'[p] = {}
                           ELSE file'[p] = file[p] /\ safe'[p] = safe[p]
  BY <1>1, <1>2, PartFacts, Zenon
<1>4. Chunk \in SUBSET Chunk /\ {} \in SUBSET Chunk /\ {} \subseteq Chunk
  BY Zenon
<1>5. FileTypes'
  <2>1. \A q \in Opened : file'[q] = NoFile \/ file'[q] \in SUBSET Chunk
    BY <1>0, <1>3, <1>4, FileValues, ZenonT(60)
  <2>2. \A q \in Opened : safe'[q] = NoFile \/ safe'[q] \in SUBSET Chunk
    BY <1>0, <1>3, <1>4, FileValues, Zenon
  <2>3. \A q \in Opened : file'[q] = NoFile <=> safe'[q] = NoFile
    BY <1>0, <1>3, <1>4, Marks, FileValues, Zenon
  <2>4. \A q \in Opened : file'[q] # NoFile => safe'[q] \subseteq file'[q]
    BY <1>0, <1>3, <1>4, FileValues, Zenon
  <2> QED
    BY <1>0, <1>3, <2>1, <2>2, <2>3, <2>4, FileValues, FilesTyped, Zenon
<1>6. ASSUME NEW p \in Stock, file[p] # NoFile PROVE file'[p] # NoFile /\ file[p] \subseteq file'[p]
  <2>1. p \in Opened /\ file[p] \subseteq Chunk
    BY <1>0, <1>6, FileValues, PartFacts, Zenon
  <2> QED
    BY <1>3, <1>6, <2>1, Marks, Zenon
<1>7. FileBacked'
  BY <1>0, <1>3, <1>6, FilesGrow, Zenon
<1>8. HInv'
  <2>1. \A p \in Opened : p \notin P => file'[p] = file[p]
    BY <1>3, Zenon
  <2>2. \A p \in Stock : p \in P => file'[p] = Chunk
    BY <1>3, PartFacts, Zenon
  <2> QED
    BY <1>0, <1>1, <1>5, <1>7, <2>1, <2>2, DetachedKept, Zenon
<1>9. imp' \in Imports /\ imp'.at = "open" /\ imp'.ref = imp.ref
  BY <1>0, ImpAt, Zenon DEF ImportRenames
<1>10. Undisturbed'
  BY <1>0, <1>9, UndisturbedKept, Zenon
<1>11. owned \subseteq owned'
  <2>1. \A p \in Stock : file[p] = Chunk => file'[p] = Chunk
    BY <1>5, <1>6, Marks, ChunkStays, Zenon
  <2> QED
    BY <2>1, OwnedKept, Zenon
<1>12. ImportedEntry' \in owned'
  <2>1. /\ ~imp.ref => file'["data"] = Chunk
        /\ ~InlineOutboard => file'["outboard"] = Chunk
    BY <1>1, <1>3, PartFacts, Zenon DEF Moved
  <2> QED
    BY <1>9, <2>1, OwnedNext, Zenon DEF ImportedEntry
<1>13. OInv'
  <2>1. dl'.update \subseteq owned' /\ (ld' = "set" => OwnedEntry \in owned')
    BY <1>0, <1>11, Zenon DEF OInv
  <2> QED
    BY <1>0, <1>11, <1>12, <2>1, EntriesKept, Zenon
<1> QED
  BY <1>8, <1>10, <1>13, Zenon DEF FInv

\* BaoFileStorage::open of a partial entry.
LEMMA LoadPartialStep ==
  ASSUME QInv, FInv, Calm, UNCHANGED scenario, LoadPartial
  PROVE  FInv'
<1>0. /\ Undisturbed /\ HInv /\ (PowerStays => OInv) /\ FileTypes /\ FileBacked /\ Proto
      /\ UNCHANGED <<db, row, ds, queue, imp, dl, ex, gc>> /\ (PowerStays' <=> PowerStays)
      /\ Take("ld") /\ "ld" \in Task
  BY Zenon DEF FInv, HInv, QInv, LoadPartial, meta, tasks, PowerStays, Events, Task
<1>1. /\ file' = [p \in Part |-> file'[p]] /\ safe' = [p \in Part |-> safe'[p]]
      /\ \A p \in Opened : file'[p] = Created(p)
      /\ \A p \in Opened : safe'[p] = IF safe[p] = NoFile THEN {} ELSE safe[p]
      /\ file'["bitfield"] \in {NoFile, Dirty} /\ safe'["bitfield"] = file'["bitfield"]
  <2>1. file' = [file EXCEPT !["data"] = Created("data"), !["outboard"] = Created("outboard"),
                             !["sizes"] = Created("sizes"),
                             !["bitfield"] = IF file["bitfield"] = NoFile THEN NoFile ELSE Dirty]
    BY SMTT(30) DEF LoadPartial
  <2>2. file \in [Part -> (SUBSET Chunk) \union {NoFile, Dirty}]
    BY <1>0, Zenon DEF FileTypes
  <2>3. /\ file' = [p \in Part |-> file'[p]] /\ file'["bitfield"] \in {NoFile, Dirty}
        /\ file'["data"] = Created("data") /\ file'["outboard"] = Created("outboard")
        /\ file'["sizes"] = Created("sizes")
    BY <2>1, <2>2, ZenonT(60) DEF Part
  <2>4. \A p \in Opened : file'[p] = Created(p)
    BY <2>3, Zenon DEF Opened
  <2>5. safe' = [p \in Part |-> IF p \in Opened THEN (IF safe[p] = NoFile THEN {} ELSE safe[p])
                                ELSE file'[p]]
    BY Zenon DEF LoadPartial
  <2> QED
    BY <2>3, <2>4, <2>5, PartFacts, Zenon
<1>2. \A p \in Opened : file'[p] \in SUBSET Chunk /\ file'[p] # NoFile
  BY <1>0, <1>1, FileValues, Marks, ZenonT(60)
<1>3. FileTypes'
  <2>1. ASSUME NEW p \in Opened
        PROVE  safe'[p] \in SUBSET Chunk /\ safe'[p] # NoFile /\ safe'[p] \subseteq file'[p]
    <3>1. CASE safe[p] = NoFile
      <4>1. safe'[p] = {}
        BY <1>1, <3>1, Zenon
      <4>2. {} \in SUBSET Chunk /\ {} \subseteq file'[p]
        BY Zenon
      <4> QED
        BY <4>1, <4>2, Marks, Zenon
    <3>2. CASE safe[p] # NoFile
      <4>1. file[p] # NoFile /\ safe'[p] = safe[p]
        BY <1>0, <1>1, <3>2, FileValues, ZenonT(60)
      <4> QED
        BY <1>0, <1>1, <3>2, <4>1, FileValues, Zenon
    <3> QED
      BY <3>1, <3>2, Zenon
  <2>2. file'["bitfield"] \in (SUBSET Chunk) \union {NoFile, Dirty}
    BY <1>1, Zenon
  <2> QED
    BY <1>1, <1>2, <2>1, <2>2, FilesTyped, Zenon
<1>4. FileBacked'
  BY <1>1, Zenon DEF FileBacked
<1>5. LoadBits \in SUBSET Chunk /\ \A p \in Stock : LoadBits \subseteq file'[p]
  <2>1. CASE file["bitfield"] \in {NoFile, Dirty}
    <3>1. LoadBits = Reconstructed
      BY <2>1, Zenon DEF LoadBits
    <3>2. \A p \in Stock : Reconstructed \subseteq Created(p)
      BY Zenon DEF Reconstructed, Stock
    <3> QED
      BY <1>1, <1>2, <3>1, <3>2, PartFacts, ZenonT(60)
  <2>2. CASE file["bitfield"] \notin {NoFile, Dirty}
    <3>1. LoadBits = file["bitfield"] /\ file["bitfield"] \in SUBSET Chunk
      BY <1>0, <2>2, FileValues, Zenon DEF LoadBits
    <3>2. \A p \in Stock : file[p] # NoFile /\ file["bitfield"] \subseteq file[p]
      BY <1>0, <2>2, Zenon DEF FileBacked
    <3>3. \A p \in Stock : file'[p] = file[p]
      BY <1>0, <1>1, <3>2, FileValues, PartFacts, Zenon
    <3> QED
      BY <3>1, <3>2, <3>3, Zenon
  <2> QED
    BY <2>1, <2>2, Zenon
<1>6. PICK b : b = LoadBits
  OBVIOUS
<1>7. \/ b = Chunk /\ hd' = Handle("Loading", b, Closed) /\ ld' = "set"
      \/ hd' = Handle("Partial", b, Closed) /\ ld' = "idle"
  BY <1>6, Zenon DEF LoadPartial
<1>8. HInv'
  <2>1. /\ b \in SUBSET Chunk
        /\ \A p \in Opened : Closed[p] = Linked => file'[p] # NoFile
        /\ \A p \in Stock : Closed[p] = Linked => b \subseteq file'[p]
        /\ \A p \in Stock : ~(Closed[p] # Linked)
    BY <1>2, <1>5, <1>6, ClosedFacts, PartFacts, ZenonT(60)
  <2> QED
    BY <1>3, <1>4, <1>7, <2>1, ClosedFacts, HandlePartial, Zenon
<1>9. Undisturbed'
  BY <1>0, UndisturbedKept, Zenon
<1>10. owned \subseteq owned'
  <2>1. \A p \in Stock : file[p] = Chunk => file'[p] = Chunk
    BY <1>0, <1>1, FileValues, PartFacts, Marks, Zenon
  <2> QED
    BY <2>1, OwnedKept, Zenon
<1>11. ld' = "set" => OwnedEntry \in owned'
  <2>1. ASSUME ld' = "set" PROVE \A p \in Stock : file'[p] = Chunk
    <3>1. b = Chunk
      BY <1>7, <2>1, Zenon
    <3>2. \A p \in Stock : Chunk \subseteq file'[p] /\ file'[p] \subseteq Chunk
      BY <1>2, <1>5, <1>6, <3>1, PartFacts, Zenon
    <3> QED
      BY <3>2, Zenon
  <2> QED
    BY <2>1, OwnedNext, PartFacts, Zenon
<1>12. ASSUME OInv PROVE OInv'
  <2>1. /\ dl'.update \subseteq owned' /\ (imp'.at \in {"open", "send"} => ImportedEntry' \in owned')
    BY <1>0, <1>10, <1>12, Zenon DEF OInv, ImportedEntry
  <2>2. \A t \in Task : mail'[t] \subseteq mail[t]
    BY <1>0, Taken, Zenon
  <2> QED
    BY <1>0, <1>10, <1>11, <1>12, <2>1, <2>2, EntriesKept, Zenon
<1> QED
  BY <1>0, <1>8, <1>9, <1>12, Zenon DEF FInv

\* It fails: files may have been created, and the bitfield file truncated.
LEMMA LoadFailsStep ==
  ASSUME QInv, FInv, Calm, UNCHANGED scenario, LoadFails
  PROVE  FInv'
<1>0. /\ Undisturbed /\ HInv /\ (PowerStays => OInv) /\ FileTypes /\ FileBacked /\ Proto
      /\ UNCHANGED <<db, row, ds, queue, imp, dl, ex, gc>> /\ (PowerStays' <=> PowerStays)
      /\ Take("ld") /\ "ld" \in Task /\ hd' = NoHandle("Poisoned") /\ ld' = "idle"
  BY Zenon DEF FInv, HInv, QInv, LoadFails, meta, tasks, PowerStays, Events, Task
<1>1. PICK P \in {{}, {"data"}, {"data", "outboard"}, Opened} :
        /\ file' = [p \in Part |-> IF p \in P THEN Created(p)
                                   ELSE IF P = Opened /\ file[p] # NoFile THEN Dirty ELSE file[p]]
        /\ safe' = [p \in Part |-> IF p \notin Opened THEN file'[p]
                                   ELSE IF p \in P /\ safe[p] = NoFile THEN {} ELSE safe[p]]
  BY Zenon DEF LoadFails
<1>2. P \subseteq Opened
  BY <1>1, Zenon DEF Opened
<1>3. /\ file' = [p \in Part |-> file'[p]] /\ safe' = [p \in Part |-> safe'[p]]
      /\ file'["bitfield"] \in {file["bitfield"], NoFile, Dirty} /\ safe'["bitfield"] = file'["bitfield"]
      /\ \A p \in Opened : file'[p] = IF p \in P THEN Created(p) ELSE file[p]
      /\ \A p \in Opened : safe'[p] = IF p \in P /\ safe[p] = NoFile THEN {} ELSE safe[p]
  <2>1. "bitfield" \notin Opened /\ "bitfield" \in Part /\ Opened \subseteq Part
    BY PartFacts, Zenon DEF Part, Opened
  <2>2. ASSUME NEW p \in Opened, p \notin P PROVE P # Opened
    BY <2>2, Zenon
  <2> QED
    BY <1>1, <1>2, <2>1, <2>2, ZenonT(60)
<1>4. ASSUME NEW p \in Opened, file[p] # NoFile
      PROVE  file'[p] = file[p] /\ safe'[p] = safe[p] /\ safe[p] # NoFile
  BY <1>0, <1>3, <1>4, FileValues, Zenon
<1>5. ASSUME NEW p \in Opened, file[p] = NoFile
      PROVE  \/ file'[p] = {} /\ safe'[p] = {}
             \/ file'[p] = NoFile /\ safe'[p] = NoFile
  <2>1. safe[p] = NoFile
    BY <1>0, <1>5, FileValues, Zenon
  <2> QED
    BY <1>3, <1>5, <2>1, Zenon DEF Created
<1>6. {} \in SUBSET Chunk /\ {} \subseteq {} /\ {} # NoFile
  BY Marks, Zenon
<1>7. FileTypes'
  <2>1. ASSUME NEW p \in Opened
        PROVE  /\ file'[p] = NoFile \/ file'[p] \in SUBSET Chunk
               /\ safe'[p] = NoFile \/ safe'[p] \in SUBSET Chunk
               /\ file'[p] = NoFile <=> safe'[p] = NoFile
               /\ file'[p] # NoFile => safe'[p] \subseteq file'[p]
    <3>1. CASE file[p] # NoFile
      BY <1>0, <1>4, <3>1, FileValues, Zenon
    <3>2. CASE file[p] = NoFile
      BY <1>5, <1>6, <3>2, Zenon
    <3> QED
      BY <3>1, <3>2, Zenon
  <2>2. file'["bitfield"] \in (SUBSET Chunk) \union {NoFile, Dirty}
    BY <1>0, <1>3, FileValues, Zenon
  <2> QED
    BY <1>3, <2>1, <2>2, FilesTyped, Zenon
<1>8. FileBacked'
  <2>1. CASE file'["bitfield"] \in {NoFile, Dirty}
    BY <2>1, Zenon DEF FileBacked
  <2>2. CASE file'["bitfield"] = file["bitfield"]
    <3>1. ASSUME NEW p \in Stock, file[p] # NoFile
          PROVE  file'[p] # NoFile /\ file[p] \subseteq file'[p] /\ safe[p] \subseteq safe'[p]
      BY <1>4, <3>1, PartFacts, Zenon
    <3> QED
      BY <1>0, <2>2, <3>1, FilesGrow, Zenon
  <2> QED
    BY <1>3, <2>1, <2>2, Zenon
<1>9. HInv'
  BY <1>0, <1>7, <1>8, HandleVacant, Zenon
<1>10. Undisturbed'
  BY <1>0, UndisturbedKept, Zenon
<1>11. owned \subseteq owned'
  <2>1. \A p \in Stock : file[p] = Chunk => file'[p] = Chunk
    BY <1>4, PartFacts, Marks, Zenon
  <2> QED
    BY <2>1, OwnedKept, Zenon
<1>12. ASSUME OInv PROVE OInv'
  <2>1. dl'.update \subseteq owned' /\ (imp'.at \in {"open", "send"} => ImportedEntry' \in owned')
    BY <1>0, <1>11, <1>12, Zenon DEF OInv, ImportedEntry
  <2>2. \A t \in Task : mail'[t] \subseteq mail[t]
    BY <1>0, Taken, Zenon
  <2> QED
    BY <1>0, <1>11, <1>12, <2>1, <2>2, EntriesKept, Zenon
<1> QED
  BY <1>0, <1>9, <1>10, <1>12, Zenon DEF FInv

-----------------------------------------------------------------------------
(* Writes of a download *)

\* A write that gives the handle bits, and leaves its files with content.
LEMMA Written ==
  ASSUME HInv, NEW bits \in SUBSET Chunk, NEW fd \in [Opened -> (SUBSET Chunk) \union {Linked}],
         NEW old, AfterWrite(bits, fd, old), ld' = "idle", FileTypes', FileBacked',
         \A p \in Opened : fd[p] = Linked => file'[p] # NoFile,
         \A p \in Stock : fd[p] = Linked => bits \subseteq file'[p],
         \A p \in Stock : fd[p] # Linked => PowerStays' /\ file'[p] = Chunk /\ bits \subseteq fd[p]
  PROVE  HInv' /\ (dl' = dl \/ dl'.update \subseteq owned')
<1>1. CASE bits = Chunk
  <2> DEFINE h == Handle("Partial", bits, fd)
             o == IF fd["outboard"] = Linked THEN file'["outboard"] ELSE fd["outboard"]
  <2>1. /\ hd' = Handle("Complete", Chunk, CompleteFiles(h, o))
        /\ dl' = [at |-> "send", update |-> {OwnedEntry}]
    BY <1>1, Zenon DEF AfterWrite
  <2>2. ASSUME NEW p \in Stock PROVE (IF fd[p] = Linked THEN file'[p] ELSE fd[p]) = Chunk
    <3>1. p \in Opened /\ fd[p] \in (SUBSET Chunk) \union {Linked}
      BY PartFacts, Zenon
    <3>2. CASE fd[p] = Linked
      <4>1. file'[p] # NoFile /\ file'[p] # Dirty /\ file'[p] \in (SUBSET Chunk) \union {NoFile, Dirty}
        BY <3>1, <3>2, PartFacts, Zenon DEF FileTypes
      <4>2. file'[p] \subseteq Chunk /\ Chunk \subseteq file'[p]
        BY <1>1, <3>2, <4>1, Zenon
      <4> QED
        BY <3>2, <4>2, Zenon
    <3>3. CASE fd[p] # Linked
      <4>1. fd[p] \subseteq Chunk /\ Chunk \subseteq fd[p]
        BY <1>1, <3>1, <3>3, Zenon
      <4> QED
        BY <3>3, <4>1, Zenon
    <3> QED
      BY <3>2, <3>3, Zenon
  <2>3. o = Chunk /\ (IF fd["data"] = Linked THEN file'["data"] ELSE fd["data"]) = Chunk
    BY <2>2, PartFacts, Zenon
  <2>4. h.fd = fd
    BY DEF Handle
  <2>5. PICK c : /\ c = CompleteFiles(h, o) /\ c \in [Opened -> (SUBSET Chunk) \union {Linked}]
                 /\ c["sizes"] = {} /\ c["data"] = fd["data"]
                 /\ c["outboard"] = IF InlineOutboard THEN Chunk ELSE fd["outboard"]
    <3>1. Chunk \in SUBSET Chunk
      BY Zenon
    <3> HIDE DEF h, o
    <3> QED
      BY <2>3, <2>4, <3>1, CompletedFacts
  <2>6. (IF c["outboard"] = Linked THEN file'["outboard"] ELSE c["outboard"]) = Chunk
    BY <2>3, <2>5, Marks, Zenon
  <2>7. (IF c["data"] = Linked THEN file'["data"] ELSE c["data"]) = Chunk
    BY <2>3, <2>5, Zenon
  <2>8. \A p \in Stock : (IF c[p] = Linked THEN file'[p] ELSE c[p]) = Chunk
    BY <2>6, <2>7, Zenon DEF Stock
  <2>9. hd' = Handle("Complete", Chunk, c) /\ ld' \notin {"set", "setwait"}
    BY <2>1, <2>5, Zenon
  <2>10. HInv'
    BY <2>5, <2>8, <2>9, HandleComplete, Zenon
  <2>11. \A p \in Stock : file'[p] = Chunk
    BY <2>2, Zenon
  <2>12. OwnedEntry \in owned'
    BY <2>11, OwnedNext, PartFacts, Zenon
  <2>13. dl'.update = {OwnedEntry}
    BY <2>1
  <2> QED
    BY <2>10, <2>12, <2>13, Zenon
<1>2. CASE bits # Chunk
  <2>1. hd' = Handle("Partial", bits, fd)
    BY <1>2, Zenon DEF AfterWrite
  <2>2. HInv'
    BY <2>1, HandlePartial, Zenon
  <2>3. dl' = dl \/ dl' = [at |-> "send", update |-> {Partial(Known(bits))}]
    BY <1>2, Zenon DEF AfterWrite
  <2>4. Partial(Known(bits)) \in owned'
    BY OwnedNext, Zenon DEF Known
  <2>5. dl' = dl \/ dl'.update = {Partial(Known(bits))}
    BY <2>3
  <2> QED
    BY <2>2, <2>4, <2>5, Zenon
<1> QED
  BY <1>1, <1>2, Zenon

\* write_batch, with or without an error.
LEMMA WriteSteps ==
  ASSUME QInv, FInv, Calm, UNCHANGED scenario, NEW B \in (SUBSET Chunk) \ {{}},
         WriteNew(B) \/ WritePartial(B) \/ WriteFails(B)
  PROVE  FInv'
<1>0. /\ Undisturbed /\ HInv /\ (PowerStays => OInv) /\ FileTypes /\ FileBacked /\ HandleTypes
      /\ LoadInv /\ dl \in Downloads /\ B \in SUBSET Chunk
      /\ UNCHANGED <<db, row, queue, mail, ld, imp, ex, gc>> /\ (PowerStays' <=> PowerStays)
      /\ hd.st \in {"NonExisting", "Partial"} /\ ds' \subseteq ds
  BY Zenon DEF FInv, HInv, QInv, RowTypes, WriteNew, WritePartial, WriteFails, Protect, meta,
               PowerStays, Events
<1>1. ld' = "idle" /\ ld = "idle"
  BY <1>0, Zenon DEF LoadInv
<1>2. Undisturbed'
  BY <1>0, UndisturbedKept, Zenon
<1>3. ASSUME FileTypes',
             \A p \in Stock : file[p] # NoFile => file'[p] # NoFile /\ file[p] \subseteq file'[p],
             dl' = dl \/ dl'.update \subseteq dl.update \/ dl'.update \subseteq owned', OInv
      PROVE  OInv'
  <2>1. \A p \in Stock : file[p] = Chunk => file'[p] = Chunk
    BY <1>3, Marks, ChunkStays, Zenon
  <2>2. owned \subseteq owned'
    BY <2>1, OwnedKept, Zenon
  <2>3. dl'.update \subseteq owned' /\ (imp'.at \in {"open", "send"} => ImportedEntry' \in owned')
    BY <1>0, <1>3, <2>2, Zenon DEF OInv, ImportedEntry
  <2> QED
    BY <1>0, <1>1, <1>3, <2>2, <2>3, EntriesKept, Zenon
<1>4. CASE WriteNew(B)
  <2>1. /\ file' = [p \in Part |-> IF p \in Opened THEN Created(p) \union B ELSE file[p]]
        /\ AfterWrite(B, Closed, "NonExisting")
    BY <1>4, ZenonT(60) DEF WriteNew
  <2>2. PICK S \in {B, {}} :
          safe' = [p \in Part |-> IF p \in Opened THEN Created(p) \union S ELSE safe[p]]
    BY <1>4, Zenon DEF WriteNew
  <2>3. /\ file' = [p \in Part |-> file'[p]] /\ file'["bitfield"] = file["bitfield"]
        /\ \A p \in Opened : file'[p] = Created(p) \union B
    BY <2>1, PartFacts, Zenon
  <2>4. /\ safe' = [p \in Part |-> safe'[p]] /\ safe'["bitfield"] = safe["bitfield"]
        /\ \A p \in Opened : safe'[p] = Created(p) \union S
    BY <2>2, PartFacts, Zenon
  <2>5. ASSUME NEW p \in Opened
        PROVE  /\ file'[p] \in SUBSET Chunk /\ file'[p] # NoFile /\ B \subseteq file'[p]
               /\ safe'[p] \in SUBSET Chunk /\ safe'[p] # NoFile /\ safe'[p] \subseteq file'[p]
               /\ Created(p) \subseteq file'[p] /\ Created(p) \subseteq safe'[p]
    <3>1. Created(p) \in SUBSET Chunk
      BY <1>0, FileValues, Zenon
    <3>2. S \subseteq B /\ S \subseteq Chunk
      BY <1>0, Zenon
    <3>3. file'[p] \in SUBSET Chunk /\ safe'[p] \in SUBSET Chunk
      BY <1>0, <2>3, <2>4, <3>1, <3>2, Zenon
    <3>4. B \subseteq file'[p] /\ safe'[p] \subseteq file'[p]
          /\ Created(p) \subseteq file'[p] /\ Created(p) \subseteq safe'[p]
      BY <2>3, <2>4, <3>2, Zenon
    <3> QED
      BY <3>3, <3>4, Marks, Zenon
  <2>6. FileTypes'
    <3>1. file'["bitfield"] \in (SUBSET Chunk) \union {NoFile, Dirty} /\ safe'["bitfield"] = file'["bitfield"]
      BY <1>0, <2>3, <2>4, FileValues, Zenon
    <3> QED
      BY <2>3, <2>4, <2>5, <3>1, FilesTyped, Zenon
  <2>7. ASSUME NEW p \in Stock, file[p] # NoFile
        PROVE  file'[p] # NoFile /\ file[p] \subseteq file'[p] /\ safe[p] \subseteq safe'[p]
    <3>1. p \in Opened
      BY PartFacts, Zenon
    <3>2. Created(p) = file[p] /\ safe[p] \subseteq file[p]
      BY <1>0, <2>7, <3>1, FileValues, Zenon
    <3>3. file'[p] # NoFile /\ file[p] \subseteq file'[p] /\ file[p] \subseteq safe'[p]
      BY <2>5, <3>1, <3>2, Zenon
    <3> QED
      BY <3>2, <3>3, Zenon
  <2>8. FileBacked'
    BY <1>0, <2>3, <2>7, FilesGrow, Zenon
  <2>9. HInv' /\ (dl' = dl \/ dl'.update \subseteq owned')
    <3>1. /\ \A p \in Opened : Closed[p] = Linked => file'[p] # NoFile
          /\ \A p \in Stock : Closed[p] = Linked => B \subseteq file'[p]
          /\ \A p \in Stock : Closed[p] # Linked => PowerStays' /\ file'[p] = Chunk /\ B \subseteq Closed[p]
      BY <2>5, ClosedFacts, PartFacts, ZenonT(60)
    <3>2. HInv /\ B \in SUBSET Chunk /\ Closed \in [Opened -> (SUBSET Chunk) \union {Linked}]
      BY <1>0, ClosedFacts, Zenon
    <3> QED
      BY <1>1, <2>1, <2>6, <2>8, <3>1, <3>2, Written, ZenonT(60)
  <2> QED
    BY <1>0, <1>2, <1>3, <2>6, <2>7, <2>9, Zenon DEF FInv
<1>5. CASE WritePartial(B)
  <2> DEFINE fd == [p \in Opened |-> IF hd.fd[p] = Linked THEN Linked ELSE hd.fd[p] \union B]
  <2>0. /\ Working /\ WorkBacked /\ hd.bits \in SUBSET Chunk /\ safe' = safe
        /\ hd.fd \in [Opened -> (SUBSET Chunk) \union {Linked}]
    BY <1>0, <1>5, HandleParts, ZenonT(60) DEF WritePartial, Working, HInv
  <2>1. /\ file' = [p \in Part |-> IF p \in Opened /\ hd.fd[p] = Linked THEN file[p] \union B ELSE file[p]]
        /\ AfterWrite(hd.bits \union B, fd, "Partial")
    BY <1>5, Zenon DEF WritePartial
  <2>2. /\ file' = [p \in Part |-> file'[p]] /\ file'["bitfield"] = file["bitfield"]
        /\ \A p \in Opened : file'[p] = IF hd.fd[p] = Linked THEN file[p] \union B ELSE file[p]
    BY <2>1, PartFacts, Zenon
  <2>3. ASSUME NEW p \in Opened, hd.fd[p] = Linked
        PROVE  /\ file[p] # NoFile /\ file'[p] \in SUBSET Chunk /\ file'[p] # NoFile
               /\ B \subseteq file'[p] /\ file[p] \subseteq file'[p] /\ safe[p] \in SUBSET Chunk
               /\ safe[p] # NoFile /\ safe[p] \subseteq file'[p]
    <3>1. file[p] # NoFile
      BY <2>0, <2>3, Zenon DEF WorkBacked
    <3>2. file[p] \in SUBSET Chunk /\ safe[p] \in SUBSET Chunk /\ safe[p] # NoFile /\ safe[p] \subseteq file[p]
      BY <1>0, <3>1, FileValues, Zenon
    <3>3. file'[p] = file[p] \union B
      BY <2>2, <2>3, Zenon
    <3>4. file'[p] \in SUBSET Chunk /\ B \subseteq file'[p] /\ file[p] \subseteq file'[p]
      BY <1>0, <3>2, <3>3, Zenon
    <3> QED
      BY <3>1, <3>2, <3>4, Marks, Zenon
  <2>4. \A p \in Opened : hd.fd[p] # Linked => file'[p] = file[p]
    BY <2>2, Zenon
  <2>5. FileTypes'
    <3>0. safe' = [p \in Part |-> safe'[p]]
      BY <1>0, <2>0, ZenonT(60) DEF FileTypes
    <3>1. \A p \in Opened : file'[p] = NoFile \/ file'[p] \in SUBSET Chunk
      BY <1>0, <2>3, <2>4, FileValues, Zenon
    <3>2. \A p \in Opened : safe'[p] = NoFile \/ safe'[p] \in SUBSET Chunk
      BY <1>0, <2>0, FileValues, Zenon
    <3>3. \A p \in Opened : file'[p] = NoFile <=> safe'[p] = NoFile
      BY <1>0, <2>0, <2>3, <2>4, FileValues, Zenon
    <3>4. \A p \in Opened : file'[p] # NoFile => safe'[p] \subseteq file'[p]
      BY <1>0, <2>0, <2>3, <2>4, FileValues, ZenonT(60)
    <3>5. file'["bitfield"] \in (SUBSET Chunk) \union {NoFile, Dirty} /\ safe'["bitfield"] = file'["bitfield"]
      BY <1>0, <2>0, <2>2, FileValues, Zenon
    <3> QED
      BY <2>2, <3>0, <3>1, <3>2, <3>3, <3>4, <3>5, FilesTyped, Zenon
  <2>6. ASSUME NEW p \in Stock, file[p] # NoFile
        PROVE  file'[p] # NoFile /\ file[p] \subseteq file'[p] /\ safe[p] \subseteq safe'[p]
    BY <2>0, <2>3, <2>4, <2>6, PartFacts, Zenon
  <2>7. FileBacked'
    BY <1>0, <2>2, <2>6, FilesGrow, ZenonT(60)
  <2>8. HInv' /\ (dl' = dl \/ dl'.update \subseteq owned')
    <3>1. PICK b : b = hd.bits \union B
      OBVIOUS
    <3>2. PICK f : f = fd
      OBVIOUS
    <3>3. b \in SUBSET Chunk
      BY <1>0, <2>0, <3>1, Zenon
    <3>4. \A p \in Opened : f[p] = IF hd.fd[p] = Linked THEN Linked ELSE hd.fd[p] \union B
      BY <3>2, Zenon
    <3>5. \A p \in Opened : hd.fd[p] # Linked => hd.fd[p] \union B \in SUBSET Chunk
      BY <1>0, <2>0, Zenon
    <3>6. f \in [Opened -> (SUBSET Chunk) \union {Linked}]
      <4>1. \A p \in Opened : f[p] \in (SUBSET Chunk) \union {Linked}
        BY <3>4, <3>5, Zenon
      <4> QED
        BY <3>2, <4>1, Zenon
    <3>7. \A p \in Opened : f[p] = Linked <=> hd.fd[p] = Linked
      BY <3>4, <3>5, Marks, Zenon
    <3>8. \A p \in Opened : f[p] = Linked => file'[p] # NoFile
      BY <2>3, <3>7, Zenon
    <3>9. ASSUME NEW p \in Stock, f[p] = Linked PROVE b \subseteq file'[p]
      <4>1. p \in Opened /\ hd.fd[p] = Linked
        BY <3>7, <3>9, PartFacts, Zenon
      <4>2. hd.bits \subseteq file[p]
        BY <2>0, <4>1, Zenon DEF WorkBacked
      <4>3. B \subseteq file'[p] /\ file[p] \subseteq file'[p]
        BY <2>3, <4>1, Zenon
      <4> QED
        BY <3>1, <4>2, <4>3, Zenon
    <3>10. ASSUME NEW p \in Stock, f[p] # Linked PROVE PowerStays' /\ file'[p] = Chunk /\ b \subseteq f[p]
      <4>1. p \in Opened /\ hd.fd[p] # Linked
        BY <3>7, <3>10, PartFacts, ZenonT(60)
      <4>2. PowerStays /\ file[p] = Chunk /\ hd.bits \subseteq hd.fd[p]
        BY <2>0, <4>1, Zenon DEF WorkBacked
      <4>3. f[p] = hd.fd[p] \union B
        BY <3>4, <4>1, Zenon
      <4>4. b \subseteq f[p]
        BY <3>1, <4>2, <4>3, Zenon
      <4> QED
        BY <1>0, <2>4, <4>1, <4>2, <4>4, Zenon
    <3>11. AfterWrite(b, f, "Partial")
      BY <2>1, <3>1, <3>2, Zenon
    <3> QED
      BY <1>0, <1>1, <2>5, <2>7, <3>3, <3>6, <3>8, <3>9, <3>10, <3>11, Written, Zenon
  <2> QED
    BY <1>0, <1>2, <1>3, <2>5, <2>6, <2>8, Zenon DEF FInv
<1>6. CASE WriteFails(B)
  <2>1. PICK P \in SUBSET {p \in Opened : hd.fd[p] = Linked} :
          /\ file' = [p \in Part |-> IF p \in P THEN Created(p) \union B ELSE file[p]]
          /\ safe' = [p \in Part |-> IF p \in P /\ safe[p] = NoFile THEN {} ELSE safe[p]]
    BY <1>6, ZenonT(60) DEF WriteFails
  <2>2. P \subseteq Opened
    BY <2>1, Zenon
  <2>3. /\ file' = [p \in Part |-> file'[p]] /\ file'["bitfield"] = file["bitfield"]
        /\ safe' = [p \in Part |-> safe'[p]] /\ safe'["bitfield"] = safe["bitfield"]
        /\ \A p \in Opened : IF p \in P THEN file'[p] = Created(p) \union B
                             ELSE file'[p] = file[p] /\ safe'[p] = safe[p]
        /\ \A p \in Opened : p \in P => safe'[p] = IF safe[p] = NoFile THEN {} ELSE safe[p]
    BY <2>1, <2>2, PartFacts, Zenon
  <2>4. ASSUME NEW p \in Opened, p \in P
        PROVE  /\ file'[p] \in SUBSET Chunk /\ file'[p] # NoFile /\ Created(p) \subseteq file'[p]
               /\ safe'[p] \in SUBSET Chunk /\ safe'[p] # NoFile /\ safe'[p] \subseteq file'[p]
    <3>1. Created(p) \in SUBSET Chunk /\ file'[p] = Created(p) \union B
      BY <1>0, <2>3, <2>4, FileValues, Zenon
    <3>2. file'[p] \in SUBSET Chunk /\ Created(p) \subseteq file'[p]
      BY <1>0, <3>1, Zenon
    <3>3. CASE safe[p] = NoFile
      <4>1. safe'[p] = {}
        BY <2>3, <2>4, <3>3, Zenon
      <4>2. {} \in SUBSET Chunk /\ {} \subseteq file'[p]
        BY Zenon
      <4> QED
        BY <3>2, <4>1, <4>2, Marks, Zenon
    <3>4. CASE safe[p] # NoFile
      <4>1. file[p] # NoFile /\ safe'[p] = safe[p]
        BY <1>0, <2>3, <2>4, <3>4, FileValues, ZenonT(60)
      <4>2. safe[p] \in SUBSET Chunk /\ safe[p] \subseteq file[p] /\ Created(p) = file[p]
        BY <1>0, <4>1, FileValues, Zenon
      <4>3. safe[p] \subseteq file'[p]
        BY <3>2, <4>2, Zenon
      <4> QED
        BY <3>2, <4>1, <4>2, <4>3, Marks, Zenon
    <3> QED
      BY <3>3, <3>4, ZenonT(60)
  <2>5. FileTypes'
    <3>1. \A p \in Opened : file'[p] = NoFile \/ file'[p] \in SUBSET Chunk
      BY <1>0, <2>3, <2>4, FileValues, ZenonT(60)
    <3>2. \A p \in Opened : safe'[p] = NoFile \/ safe'[p] \in SUBSET Chunk
      BY <1>0, <2>3, <2>4, FileValues, ZenonT(60)
    <3>3. \A p \in Opened : file'[p] = NoFile <=> safe'[p] = NoFile
      BY <1>0, <2>3, <2>4, FileValues, ZenonT(60)
    <3>4. \A p \in Opened : file'[p] # NoFile => safe'[p] \subseteq file'[p]
      BY <1>0, <2>3, <2>4, FileValues, Zenon
    <3>5. file'["bitfield"] \in (SUBSET Chunk) \union {NoFile, Dirty} /\ safe'["bitfield"] = file'["bitfield"]
      BY <1>0, <2>3, FileValues, Zenon
    <3> QED
      BY <2>3, <3>1, <3>2, <3>3, <3>4, <3>5, FilesTyped, Zenon
  <2>6. ASSUME NEW p \in Stock, file[p] # NoFile
        PROVE  file'[p] # NoFile /\ file[p] \subseteq file'[p] /\ safe[p] \subseteq safe'[p]
    <3>1. p \in Opened /\ Created(p) = file[p] /\ safe[p] # NoFile
      BY <1>0, <2>6, FileValues, PartFacts, Zenon
    <3>2. safe'[p] = safe[p]
      BY <2>3, <3>1, ZenonT(60)
    <3>3. file'[p] # NoFile /\ file[p] \subseteq file'[p]
      BY <2>3, <2>4, <2>6, <3>1, Zenon
    <3> QED
      BY <3>2, <3>3, Zenon
  <2>7. FileBacked'
    BY <1>0, <2>3, <2>6, FilesGrow, Zenon
  <2>8. HInv'
    <3>1. hd' = NoHandle("Poisoned")
      BY <1>6, ZenonT(60) DEF WriteFails
    <3> QED
      BY <1>1, <2>5, <2>7, <3>1, HandleVacant, Zenon
  <2>9. dl'.update = dl.update
    BY <1>0, <1>6, DlAt, Zenon DEF WriteFails
  <2> QED
    BY <1>0, <1>2, <1>3, <2>5, <2>6, <2>8, <2>9, Zenon DEF FInv
<1> QED
  BY <1>4, <1>5, <1>6, Zenon

-----------------------------------------------------------------------------
(* The invariant *)

LEMMA FInitial == ASSUME Init PROVE FInv
<1>1. /\ file = [p \in Part |-> NoFile] /\ safe = file /\ hd = NoHandle("Initial") /\ ld = "idle"
      /\ ex = "idle" /\ gc = "idle" /\ ds = {} /\ db = Absent /\ row = Absent
      /\ queue = <<>> /\ mail = [t \in Task |-> {}]
  BY ZenonT(60) DEF Init
<1>2. imp.at = "idle" /\ dl.update = {} /\ 1..Len(queue) = {}
  BY DEF Init
<1>3. \A p \in Part : file[p] = NoFile /\ safe[p] = NoFile
  BY <1>1, Zenon
<1>4. FileTypes
  <2>1. file \in [Part -> (SUBSET Chunk) \union {NoFile, Dirty}]
    BY <1>1, ZenonT(60)
  <2>2. \A p \in Opened : file[p] # Dirty /\ safe[p] # Dirty
    BY <1>3, Marks, PartFacts, Zenon
  <2> QED
    BY <1>1, <1>3, <2>1, <2>2, PartFacts, Zenon DEF FileTypes
<1>5. FileBacked
  BY <1>3, PartFacts, Zenon DEF FileBacked
<1>6. hd = Handle("Initial", {}, Closed) /\ hd.st = "Initial"
  BY <1>1, SMTT(30) DEF NoHandle, Handle
<1>7. HandleTypes
  <2>1. {} \in SUBSET Chunk
    BY Zenon
  <2> QED
    BY <1>6, <2>1, ClosedFacts, HandleIn, Zenon DEF HandleTypes
<1>8. WorkBacked /\ CompleteBacked
  BY <1>1, <1>6, Zenon DEF WorkBacked, Working, CompleteBacked
<1>9. OInv
  BY <1>1, <1>2, OwnedFacts, Zenon DEF OInv
<1> QED
  BY <1>1, <1>2, <1>4, <1>5, <1>7, <1>8, <1>9, Zenon DEF FInv, Undisturbed, HInv

LEMMA FStutter == ASSUME QInv, FInv, Calm, UNCHANGED vars PROVE FInv'
<1>1. UNCHANGED <<file, safe, hd, ld, db, row, ds, queue, mail, imp, dl, ex, gc, scenario>>
  BY Zenon DEF vars, work, meta, tasks
<1>2. Undisturbed /\ HInv /\ (PowerStays => OInv) /\ (PowerStays' <=> PowerStays)
  BY <1>1, Zenon DEF FInv, PowerStays, Events
<1>3. Undisturbed'
  BY <1>1, <1>2, UndisturbedKept, Zenon
<1>4. HInv'
  BY <1>1, <1>2, HandleFrame, Zenon
<1>5. ASSUME OInv PROVE OInv'
  <2>1. owned' = owned
    BY <1>1, ZenonT(60) DEF owned
  <2>2. /\ dl'.update \subseteq owned' /\ (imp'.at \in {"open", "send"} => ImportedEntry' \in owned')
        /\ ld' = "set" => OwnedEntry \in owned'
    BY <1>1, <1>5, <2>1, Zenon DEF OInv, ImportedEntry
  <2> QED
    BY <1>1, <1>5, <2>1, <2>2, EntriesKept, Zenon
<1> QED
  BY <1>2, <1>3, <1>4, <1>5, Zenon DEF FInv

\* In a calm scenario nobody deletes or exports.
LEMMA CalmSteps ==
  ASSUME QInv, FInv, Calm
  PROVE  /\ ~HandleDelete /\ ~StartExport /\ ~ExportGets /\ ~ExportFails /\ ~ExportMoves /\ ~ExportSets
         /\ ~ExportDone /\ ~GcClears /\ ~GcMarks /\ ~GcLists /\ ~GcSweeps /\ ~GcDone
<1>1. ex = "idle" /\ gc = "idle" /\ "export" \notin Ops /\ "delete" \notin Ops
  BY Zenon DEF FInv, Undisturbed, Calm
<1>2. ~HandleDelete
  BY <1>1, NoDelete, Zenon DEF HandleDelete
<1> QED
  BY <1>1, <1>2, Zenon DEF StartExport, ExportGets, ExportFails, ExportMoves, ExportSets, ExportDone,
                           GcClears, GcMarks, GcLists, GcSweeps, GcDone

LEMMA FStep == ASSUME QInv, FInv, [Next]_vars PROVE FInv'
<1>1. scenario' = scenario
  BY Zenon DEF Next, vars
<1>2. CASE ~Calm
  BY <1>1, <1>2, Zenon DEF FInv, Calm, Ops, Events
<1>3. CASE Calm
  <2>1. CASE MetaStep
    BY <1>1, <1>3, <2>1, CalmSteps, ActorFrame, UnlinkStep, ZenonT(60) DEF MetaStep
  <2>2. CASE TaskStep
    BY <1>1, <1>3, <2>2, CalmSteps, TaskFrame, OpenSteps, LoadPartialStep, LoadFailsStep, RenameStep,
       Zenon DEF TaskStep
  <2>3. CASE UserStep
    BY <1>1, <1>3, <2>3, CalmSteps, TaskFrame, WriteSteps, ZenonT(60) DEF UserStep
  <2>4. CASE Persist
    BY <1>1, <1>3, <2>4, PersistStep, Zenon
  <2>5. CASE Crash \/ PowerLoss
    BY <1>1, <1>3, <2>5, CrashSteps, Zenon
  <2>6. CASE UNCHANGED vars
    BY <1>3, <2>6, FStutter, Zenon
  <2> QED
    BY <2>1, <2>2, <2>3, <2>4, <2>5, <2>6, Zenon DEF Next
<1> QED
  BY <1>2, <1>3, Zenon

\* While blobs are imported and downloaded, with crashes and failing writes at
\* any point, the handle, the files and every entry that is committed or on its
\* way agree; so they do for downloads alone when the machine goes down.
THEOREM FilesAgree == Spec => []FInv
<1>1. Init => FInv
  BY FInitial
<1>2. QInv /\ FInv /\ [Next]_vars => FInv'
  BY FStep
<1> QED
  BY <1>1, <1>2, CommandsAnswered, PTL DEF Spec

\* In those scenarios a committed entry that says its files are in the data
\* directory is right at every moment, so after a crash too.
THEOREM OwnedFilesInPlace == Spec => [](Calm => OwnedInPlace)
<1>1. FInv => (Calm => OwnedInPlace)
  BY Zenon DEF FInv, OInv, owned, OwnedInPlace
<1> QED
  BY <1>1, FilesAgree, PTL

\* Whatever the handle says it has can be read through the files it has open,
\* while imports replace them and deletions of old sizes and bitfield files run.
THEOREM HandleBacked == Spec => [](Calm => BitsBacked)
<1>1. ASSUME FInv, Calm PROVE BitsBacked
  <2>1. HInv /\ HandleTypes /\ CompleteBacked
    BY <1>1, Zenon DEF FInv, HInv
  <2>2. CASE hd.st = "Partial"
    <3>1. Working
      BY <2>2, Zenon DEF Working
    <3>2. \A p \in Stock : hd.bits \subseteq Content(p)
      BY <2>1, <3>1, WorkContent, Zenon
    <3> QED
      BY <3>2, PartFacts, Zenon DEF BitsBacked
  <2>3. CASE hd.st = "Complete"
    <3>1. hd.bits \subseteq Chunk
      BY <2>1, HandleParts, Zenon
    <3>2. PowerStays => Content("data") = Chunk /\ Content("outboard") = Chunk
      BY <2>1, <2>3, PartFacts, Zenon DEF CompleteBacked
    <3> QED
      BY <3>1, <3>2, Zenon DEF BitsBacked
  <2> QED
    BY <2>2, <2>3, Zenon DEF BitsBacked
<1>2. FInv => (Calm => BitsBacked)
  BY <1>1
<1> QED
  BY <1>2, FilesAgree, PTL

\* A bitfield file that a restart would trust claims only what data and outboard
\* hold: persist syncs them first, and no power failure takes it back.
THEOREM BitfieldFileBacked == Spec => [](Calm => BitfieldBacked)
<1>1. FInv => (Calm => BitfieldBacked)
  BY PartFacts, Zenon DEF FInv, HInv, FileBacked, BitfieldBacked
<1> QED
  BY <1>1, FilesAgree, PTL
=============================================================================
