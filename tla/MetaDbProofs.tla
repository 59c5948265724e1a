----------------------------- MODULE MetaDbProofs -----------------------------
(***************************************************************************)
(* Proofs about the metadata database actor, for every set of hashes,      *)
(* clients, entries, sizes and paths, and every batch and queue size.      *)
(***************************************************************************)
EXTENDS MetaDb, TLAPS

(***************************************************************************)
(* EntryState::union                                                       *)
(***************************************************************************)

\* The shape of an entry: what its fields are in each of its states.
LEMMA EntryShape ==
  ASSUME NEW e \in EntryStates
  PROVE  \/ IsPartial(e) /\ ~ IsComplete(e)
            /\ e = Partial(e.size) /\ (e.size = {} \/ \E s \in Size : e.size = {s})
         \/ IsComplete(e) /\ ~ IsPartial(e)
            /\ e = Complete(e.data, e.outboard)
            /\ e.data \in DataLocation /\ e.outboard \in OutboardLocation
BY DEF EntryStates, PartialEntry, CompleteEntry, Partial, Complete, IsPartial, IsComplete

\* The shape of a data location.
LEMMA DataShape ==
  ASSUME NEW d \in DataLocation
  PROVE  \/ d.at = "Inline" /\ d = InlineData
         \/ d.at = "Owned" /\ \E s \in Size : d = OwnedData(s)
         \/ d.at = "External" /\ d.paths \in (SUBSET Path) \ {{}}
            /\ \E s \in Size : d.size = {s} /\ d = ExternalData(d.paths, s)
BY DEF DataLocation, InlineData, OwnedData, ExternalData

\* DataLocation::union gives a location, keeps what is inline readable, does
\* not give up a file the store owns, and forgets no external path.
LEMMA DataUnionType ==
  ASSUME NEW a \in DataLocation, NEW b \in DataLocation
  PROVE  /\ DataUnion(a, b) \in DataLocation
         /\ DataUnion(a, b).at = "Inline" <=>
              (a.at = "Inline" /\ b.at # "Owned") \/ (b.at = "Inline" /\ a.at # "Owned")
         /\ DataUnion(a, b).at = "Owned" <=> a.at = "Owned" \/ b.at = "Owned"
         /\ DataUnion(a, b).at = "External" => 
              a.at = "External" /\ a.paths \subseteq DataUnion(a, b).paths
<1>1. CASE a.at = "External" /\ b.at = "External"
  <2>1. PICK s \in Size : a = ExternalData(a.paths, s)
    BY <1>1, DataShape, Zenon
  <2>2. a.paths \in (SUBSET Path) \ {{}} /\ b.paths \in (SUBSET Path) \ {{}}
    BY <1>1, DataShape, Zenon
  <2>3. DataUnion(a, b) = ExternalData(a.paths \union b.paths, s)
    BY <1>1, <2>1 DEF DataUnion, ExternalData
  <2>4. a.paths \union b.paths \in (SUBSET Path) \ {{}}
    BY <2>2, Zenon
  <2> QED
    <3>1. DataUnion(a, b) \in DataLocation
      BY <2>3, <2>4 DEF DataLocation
    <3> QED
      BY <1>1, <2>3, <3>1 DEF ExternalData
<1>2. CASE ~ (a.at = "External" /\ b.at = "External")
  <2>1. DataUnion(a, b) = IF b.at = "Owned" THEN b ELSE IF a.at = "Owned" THEN a
                          ELSE IF b.at = "Inline" THEN b ELSE a
    BY <1>2, DataShape, Zenon DEF DataUnion
  <2> QED
    BY <1>2, <2>1, DataShape, Zenon
<1> QED
  BY <1>1, <1>2, Zenon

\* Where EntryState::union does not fail it gives an entry.
LEMMA UnionType ==
  ASSUME NEW old \in EntryStates, NEW new \in EntryStates, ~ UnionFails(old, new)
  PROVE  /\ Union(old, new) \in EntryStates
         /\ IsComplete(Union(old, new)) <=> IsComplete(old) \/ IsComplete(new)
<1>1. CASE IsComplete(old) /\ IsComplete(new)
  BY <1>1, EntryShape, DataUnionType DEF Union, EntryStates, CompleteEntry, IsComplete, Complete
<1>2. CASE IsComplete(old) /\ IsPartial(new)
  BY <1>2, EntryShape, Zenon DEF Union
<1>3. CASE IsPartial(old) /\ IsComplete(new)
  BY <1>3, EntryShape, Zenon DEF Union
<1>4. CASE IsPartial(old) /\ IsPartial(new)
  <2>1. Union(old, new) = Partial(old.size \union new.size)
    BY <1>4, EntryShape, Zenon DEF Union
  <2>2. old.size \union new.size = {} \/ \E s \in Size : old.size \union new.size = {s}
    BY <1>4, EntryShape, Zenon DEF UnionFails
  <2> QED
    BY <1>4, <2>1, <2>2, EntryShape, Zenon DEF EntryStates, PartialEntry, Partial, IsComplete
<1> QED
  BY <1>1, <1>2, <1>3, <1>4, EntryShape, Zenon

\* Content addressing gives a hash one size; then union never fails.
LEMMA OneSizeUnion ==
  ASSUME \A s, t \in Size : s = t, NEW old \in EntryStates, NEW new \in EntryStates
  PROVE  ~ UnionFails(old, new)
<1>1. CASE IsPartial(old) /\ IsPartial(new)
  BY <1>1, EntryShape, Zenon DEF UnionFails
<1>2. CASE ~ (IsPartial(old) /\ IsPartial(new))
  BY <1>2, EntryShape, DataShape, ZenonT(60) DEF UnionFails
<1> QED
  BY <1>1, <1>2, Zenon

(***************************************************************************)
(* The inductive invariant                                                 *)
(***************************************************************************)

\* An entry that says its data or outboard is inline has the row it points to.
RowsExist(t) ==
  \A h \in Hash : t.blobs[h] # Absent =>
    /\ HasInlineData(t.blobs[h]) => h \in t.data
    /\ HasInlineOutboard(t.blobs[h]) => h \in t.outboard

\* An inline row belongs to an entry that says so, and a complete entry is
\* inline exactly as all entries that are written.
NoOrphans(t) ==
  \A h \in Hash :
    /\ h \in t.data => t.blobs[h] # Absent /\ HasInlineData(t.blobs[h])
    /\ h \in t.outboard => t.blobs[h] # Absent /\ HasInlineOutboard(t.blobs[h])
    /\ \A e \in Entry : t.blobs[h] # Absent /\ IsComplete(t.blobs[h]) /\ IsComplete(e) =>
         /\ HasInlineData(t.blobs[h]) = HasInlineData(e)
         /\ HasInlineOutboard(t.blobs[h]) = HasInlineOutboard(e)

TablesOK(t) == t \in Tables /\ RowsExist(t) /\ (FixedThresholds => NoOrphans(t))

\* A queued command with at most one client that awaits its answer.
Messages ==
  [cmd : Command[usage], from : {{}} \union {{c} : c \in Client}]

Replies ==
  [kind : {"none", "pending", "failed", "rows", "ok", "synced", "snapshot"},
   table : SUBSET (Hash \X EntryStates)]

\* The tables are consistent, as committed and as the open transaction sees
\* them, and without a transaction they are the same.
DbInv ==
  /\ usage \in Usages
  /\ TablesOK(disk) /\ TablesOK(tables)
  /\ txn \in BOOLEAN /\ (~ txn => tables = disk)
  /\ queue \in Seq(Messages)
  /\ reply \in [Client -> Replies]

(***************************************************************************)
(* What the handlers do to the tables                                      *)
(***************************************************************************)

\* What the crate writes: complete or partial entries of the store's usage.
LEMMA CommandShape ==
  ASSUME usage \in Usages, NEW cmd \in Command[usage]
  PROVE  /\ cmd.hashes \subseteq Hash
         /\ cmd.op = "Update" => cmd.entry \in Entry
         /\ cmd.op = "Set" => cmd.entry \in Entry
         /\ Entry \subseteq EntryStates
BY EntryAssumption DEF Command, ReadWriteCommand, ReadOnlyCommand, TopLevelCommand,
   Write, Read, Entry

\* handle_update and handle_set keep the tables consistent: the row that is
\* written is inline only where its inline rows are.
LEMMA PutRowOK ==
  ASSUME NEW t, TablesOK(t), NEW h \in Hash, NEW e \in Entry, NEW row \in EntryStates,
         Entry \subseteq EntryStates,
         \/ row = e
         \/ /\ t.blobs[h] # Absent
            /\ HasInlineData(row) => HasInlineData(e) \/ HasInlineData(t.blobs[h])
            /\ HasInlineOutboard(row) => HasInlineOutboard(e) \/ HasInlineOutboard(t.blobs[h]),
         FixedThresholds => /\ HasInlineData(e) => HasInlineData(row)
                            /\ HasInlineOutboard(e) => HasInlineOutboard(row)
                            /\ h \in t.data => HasInlineData(row)
                            /\ h \in t.outboard => HasInlineOutboard(row)
                            /\ \A f \in Entry : IsComplete(row) /\ IsComplete(f) =>
                                 /\ HasInlineData(row) = HasInlineData(f)
                                 /\ HasInlineOutboard(row) = HasInlineOutboard(f)
  PROVE  TablesOK(PutRow(t, h, row, e))
<1> DEFINE u == PutRow(t, h, row, e)
<1>1. /\ t \in Tables /\ u \in Tables
      /\ u.blobs = [t.blobs EXCEPT ![h] = row]
      /\ u.data = IF HasInlineData(e) THEN t.data \union {h} ELSE t.data
      /\ u.outboard = IF HasInlineOutboard(e) THEN t.outboard \union {h} ELSE t.outboard
  BY Zenon DEF PutRow, Tables, BlobsRow, TablesOK
<1>2. /\ u.blobs[h] = row
      /\ \A g \in Hash \ {h} : u.blobs[g] = t.blobs[g]
  BY <1>1, Zenon DEF Tables
<1>3. RowsExist(u)
  BY <1>1, <1>2, Zenon DEF RowsExist, TablesOK
<1>4. row # Absent
  BY EntryAssumption, Zenon
<1>5. ASSUME FixedThresholds PROVE NoOrphans(u)
  BY <1>1, <1>2, <1>4, <1>5 DEF NoOrphans, TablesOK
<1> QED
  BY <1>1, <1>3, <1>5, Zenon DEF TablesOK

\* How a union is inline.
LEMMA UnionInline ==
  ASSUME NEW old \in EntryStates, NEW new \in EntryStates, ~ UnionFails(old, new)
  PROVE  /\ HasInlineData(Union(old, new)) => HasInlineData(new) \/ HasInlineData(old)
         /\ HasInlineOutboard(Union(old, new)) => HasInlineOutboard(new) \/ HasInlineOutboard(old)
         /\ IsComplete(old) /\ IsComplete(new)
              /\ HasInlineData(old) = HasInlineData(new)
              /\ HasInlineOutboard(old) = HasInlineOutboard(new) =>
              /\ HasInlineData(Union(old, new)) = HasInlineData(old)
              /\ HasInlineOutboard(Union(old, new)) = HasInlineOutboard(old)
<1>1. CASE IsComplete(old) /\ IsComplete(new)
  <2>1. /\ Union(old, new) = Complete(DataUnion(old.data, new.data), old.outboard)
        /\ old.data \in DataLocation /\ new.data \in DataLocation
    BY <1>1, EntryShape, Zenon DEF Union
  <2>2. /\ IsComplete(Union(old, new))
        /\ Union(old, new).data = DataUnion(old.data, new.data)
        /\ Union(old, new).outboard = old.outboard
    BY <2>1 DEF Complete, IsComplete
  <2> QED
    BY <1>1, <2>1, <2>2, DataUnionType, DataShape DEF HasInlineData, HasInlineOutboard
<1>2. CASE ~ (IsComplete(old) /\ IsComplete(new))
  BY <1>2, EntryShape, UnionType, Zenon DEF Union, HasInlineData, HasInlineOutboard
<1> QED
  BY <1>1, <1>2, Zenon

\* handle_update keeps the tables consistent.
LEMMA UpdateOK ==
  ASSUME NEW t, TablesOK(t), NEW h \in Hash, NEW e \in Entry, Entry \subseteq EntryStates,
         t.blobs[h] # Absent => ~ UnionFails(t.blobs[h], e)
  PROVE  TablesOK(UpdateTables(t, h, e))
<1>1. CASE t.blobs[h] = Absent
  <2>1. UpdateTables(t, h, e) = PutRow(t, h, e, e)
    BY <1>1, Zenon DEF UpdateTables
  <2> QED
    BY <1>1, <2>1, PutRowOK DEF FixedThresholds, TablesOK, NoOrphans
<1>2. CASE t.blobs[h] # Absent
  <2> DEFINE old == t.blobs[h]
             row == Union(old, e)
  <2>1. UpdateTables(t, h, e) = PutRow(t, h, row, e)
    BY <1>2, Zenon DEF UpdateTables
  <2>2. old \in EntryStates /\ e \in EntryStates
    BY <1>2, Zenon DEF TablesOK, Tables, BlobsRow
  <2>3. row \in EntryStates
    BY <1>2, <2>2, UnionType, Zenon
  <2>4. /\ HasInlineData(row) => HasInlineData(e) \/ HasInlineData(old)
        /\ HasInlineOutboard(row) => HasInlineOutboard(e) \/ HasInlineOutboard(old)
    BY <1>2, <2>2, UnionInline, Zenon
  <2>5. ASSUME FixedThresholds
        PROVE  /\ HasInlineData(e) => HasInlineData(row)
               /\ HasInlineOutboard(e) => HasInlineOutboard(row)
               /\ h \in t.data => HasInlineData(row)
               /\ h \in t.outboard => HasInlineOutboard(row)
               /\ \A f \in Entry : IsComplete(row) /\ IsComplete(f) =>
                    /\ HasInlineData(row) = HasInlineData(f)
                    /\ HasInlineOutboard(row) = HasInlineOutboard(f)
    <3>0. NoOrphans(t)
      BY <2>5, Zenon DEF TablesOK
    <3>1. CASE IsComplete(old) /\ IsComplete(e)
      <4>1. HasInlineData(old) = HasInlineData(e) /\ HasInlineOutboard(old) = HasInlineOutboard(e)
        BY <1>2, <3>0, <3>1, Zenon DEF NoOrphans
      <4>2. HasInlineData(row) = HasInlineData(old) /\ HasInlineOutboard(row) = HasInlineOutboard(old)
        BY <1>2, <2>2, <3>1, <4>1, UnionInline, Zenon
      <4> QED
        BY <1>2, <3>0, <3>1, <4>1, <4>2, Zenon DEF NoOrphans
    <3>2. CASE IsComplete(old) /\ ~ IsComplete(e)
      <4>1. row = old
        BY <2>2, <3>2, EntryShape, Zenon DEF Union
      <4> QED
        BY <1>2, <3>0, <3>2, <4>1, Zenon DEF NoOrphans, HasInlineData, HasInlineOutboard
    <3>3. CASE ~ IsComplete(old) /\ IsComplete(e)
      <4>1. row = e
        BY <2>2, <3>3, EntryShape, Zenon DEF Union
      <4> QED
        BY <1>2, <2>5, <3>0, <3>3, <4>1, Zenon DEF NoOrphans, HasInlineData, HasInlineOutboard, FixedThresholds
    <3>4. CASE ~ IsComplete(old) /\ ~ IsComplete(e)
      <4>1. ~ IsComplete(row)
        BY <1>2, <2>2, <3>4, UnionType, Zenon
      <4> QED
        BY <1>2, <3>0, <3>4, <4>1, Zenon DEF NoOrphans, HasInlineData, HasInlineOutboard
    <3> QED
      BY <3>1, <3>2, <3>3, <3>4, Zenon
  <2> HIDE DEF row
  <2> QED
    BY <1>2, <2>1, <2>3, <2>4, <2>5, PutRowOK, Zenon
<1> QED
  BY <1>1, <1>2, Zenon

\* handle_set keeps the tables consistent; it is given complete entries only.
LEMMA SetOK ==
  ASSUME NEW t, TablesOK(t), NEW h \in Hash, NEW e \in Entry, Entry \subseteq EntryStates,
         IsComplete(e)
  PROVE  TablesOK(PutRow(t, h, e, e))
<1>1. ASSUME FixedThresholds
      PROVE  /\ h \in t.data => HasInlineData(e)
             /\ h \in t.outboard => HasInlineOutboard(e)
             /\ \A f \in Entry : IsComplete(e) /\ IsComplete(f) =>
                  /\ HasInlineData(e) = HasInlineData(f)
                  /\ HasInlineOutboard(e) = HasInlineOutboard(f)
  BY <1>1, Zenon DEF FixedThresholds, TablesOK, NoOrphans, HasInlineData, HasInlineOutboard
<1> QED
  BY <1>1, PutRowOK, Zenon

\* Actor::delete keeps the tables consistent: with an entry go its inline rows.
LEMMA DeleteOK ==
  ASSUME NEW t, TablesOK(t), NEW H \in SUBSET Hash
  PROVE  TablesOK(DeleteTables(t, H))
<1> DEFINE gone == {h \in H : t.blobs[h] # Absent}
           u == DeleteTables(t, H)
<1>1. /\ t \in Tables
      /\ u.blobs = [h \in Hash |-> IF h \in gone THEN Absent ELSE t.blobs[h]]
      /\ u.data = t.data \ {h \in gone : HasInlineData(t.blobs[h])}
      /\ u.outboard = t.outboard \ {h \in gone : HasInlineOutboard(t.blobs[h])}
      /\ u = [blobs |-> u.blobs, data |-> u.data, outboard |-> u.outboard]
  BY Zenon DEF DeleteTables, TablesOK
<1>2. u \in Tables
  BY <1>1 DEF Tables, BlobsRow
<1>3. RowsExist(u)
  BY <1>1, Zenon DEF RowsExist, TablesOK
<1>4. ASSUME FixedThresholds PROVE NoOrphans(u)
  <2>1. NoOrphans(t)
    BY <1>4, Zenon DEF TablesOK
  <2> QED
    BY <1>1, <2>1, Zenon DEF NoOrphans
<1> HIDE DEF u
<1> QED
  BY <1>2, <1>3, <1>4, Zenon DEF TablesOK, u

\* A read never finds an entry without its inline rows.
LEMMA ReadsConsistent ==
  ASSUME NEW t, TablesOK(t), Cmd.hashes \subseteq Hash
  PROVE  ~ Inconsistent(t)
BY Zenon DEF TablesOK, RowsExist, Inconsistent

(***************************************************************************)
(* Every step preserves the invariant                                      *)
(***************************************************************************)

\* What the head of the queue is.
LEMMA HeadShape ==
  ASSUME DbInv, queue # <<>>
  PROVE  /\ Head1 \in Messages /\ Cmd \in Command[usage]
         /\ Head1.from = {} \/ \E c \in Client : Head1.from = {c}
         /\ Tail(queue) \in Seq(Messages)
         /\ Cmd.hashes \subseteq Hash
         /\ Cmd.op = "Update" => Cmd.entry \in Entry
         /\ Cmd.op = "Set" => Cmd.entry \in Entry /\ IsComplete(Cmd.entry)
         /\ Entry \subseteq EntryStates
<1>1. Head1 \in Messages /\ Tail(queue) \in Seq(Messages)
  BY DEF DbInv, Head1
<1>2. Cmd \in Command[usage] /\ usage \in Usages
  BY <1>1, Zenon DEF Messages, Cmd, DbInv
<1>3. Cmd.op = "Set" => IsComplete(Cmd.entry)
  BY <1>2 DEF Command, ReadWriteCommand, ReadOnlyCommand, TopLevelCommand, Write, Read
<1> QED
  BY <1>1, <1>2, <1>3, CommandShape, Zenon DEF Messages

\* The answers are rows of the tables.
LEMMA RowsType ==
  ASSUME NEW t, TablesOK(t), NEW H \in SUBSET Hash
  PROVE  Rows(t, H) \in SUBSET (Hash \X EntryStates)
BY DEF Rows, TablesOK, Tables, BlobsRow

\* Sending an answer keeps the type of replies.
LEMMA SendType ==
  ASSUME DbInv, NEW to, NEW a \in Replies
  PROVE  Send(to, a) \in [Client -> Replies]
BY Zenon DEF Send, DbInv

\* What a table is worth does not change while the usage stays the same.
LEMMA TablesKept ==
  ASSUME DbInv, UNCHANGED usage
  PROVE  /\ TablesOK(disk) /\ disk' = disk => TablesOK(disk)'
         /\ TablesOK(tables) /\ disk' = tables => TablesOK(disk)'
         /\ TablesOK(tables) /\ tables' = tables => TablesOK(tables)'
         /\ TablesOK(disk) /\ tables' = disk => TablesOK(tables)'
         /\ Messages' = Messages
BY SMTT(30) DEF TablesOK, RowsExist, NoOrphans, FixedThresholds, Entry, Messages

\* The end of the actor keeps the invariant.
LEMMA EndKeeps ==
  ASSUME DbInv, NEW why, EndWith(why), UNCHANGED usage
  PROVE  DbInv'
<1>1. TablesOK(disk)' /\ TablesOK(tables)'
  BY TablesKept, Zenon DEF DbInv, EndWith
<1>2. reply' \in [Client -> Replies]
  BY Zenon DEF DbInv, EndWith, Replies, Answer, Pending
<1>3. queue' \in Seq(Messages')
  BY DEF EndWith
<1>4. txn' = FALSE /\ tables' = disk /\ disk' = disk /\ usage' \in Usages
  BY Zenon DEF DbInv, EndWith
<1> QED
  BY <1>1, <1>2, <1>3, <1>4, Zenon DEF DbInv

\* A step of a handler that succeeds: it takes its command from the queue,
\* answers it, and leaves the tables consistent.
LEMMA HandledKeeps ==
  ASSUME DbInv, UNCHANGED <<usage, disk>>, queue # <<>>, queue' = Tail(queue),
         NEW a \in Replies, reply' = Send(Head1.from, a),
         TablesOK(tables)', txn' = txn, txn \/ tables' = tables
  PROVE  DbInv'
<1>1. TablesOK(disk)' /\ Messages' = Messages
  BY TablesKept, Zenon DEF DbInv
<1>2. queue' \in Seq(Messages)'
  BY <1>1, HeadShape, Zenon
<1>3. reply' \in [Client -> Replies]
  BY SendType, Zenon
<1> QED
  BY <1>1, <1>2, <1>3, Zenon DEF DbInv

\* Reads change no table.
LEMMA ReadKeeps ==
  ASSUME DbInv, UNCHANGED usage, queue # <<>>, NEW t, t = disk \/ t = tables, HandleReadOnly(t)
  PROVE  DbInv' /\ status' = status
<1>1. TablesOK(t)
  BY Zenon DEF DbInv
<1>2. ~ Inconsistent(t)
  BY <1>1, HeadShape, ReadsConsistent, Zenon
<1>3. Answer("rows", Rows(t, Cmd.hashes)) \in Replies
  BY <1>1, HeadShape, RowsType, Zenon DEF Answer, Replies
<1>4. TablesOK(tables)'
  BY <1>2, TablesKept, Zenon DEF HandleReadOnly, DbInv
<1> QED
  BY <1>2, <1>3, <1>4, HandledKeeps, Zenon DEF HandleReadOnly

\* Every step keeps the invariant.
LEMMA DbInvStep == DbInv /\ [Next]_<<usage, vars>> => DbInv'
<1> SUFFICES ASSUME DbInv, [Next]_<<usage, vars>> PROVE DbInv'
  BY Zenon
<1>1. UNCHANGED usage
  BY Zenon DEF Next
<1>2. ASSUME NEW c \in Client, Ask(c) PROVE DbInv'
  <2>1. PICK cmd \in Command[usage] : queue' = Append(queue, Message(cmd, {c}))
    BY <1>2, Zenon DEF Ask
  <2>2. Message(cmd, {c}) \in Messages
    BY Zenon DEF Message, Messages
  <2>3. queue' \in Seq(Messages)
    BY <2>1, <2>2 DEF DbInv
  <2>4. reply' \in [Client -> Replies]
    BY <1>2, Zenon DEF Ask, DbInv, Pending, Replies
  <2> QED
    BY <1>1, <1>2, <2>3, <2>4, TablesKept, Zenon DEF Ask, DbInv
<1>3. ASSUME Notify PROVE DbInv'
  <2>1. PICK h \in Hash, e \in Entry :
          queue' = Append(queue, Message(Write("Update", {h}, e), {}))
    BY <1>3, Zenon DEF Notify
  <2>2. Write("Update", {h}, e) \in Command[usage]
    <3>1. Write("Update", {h}, e) \in ReadWriteCommand(usage.entries)
      <4> DEFINE U == {Write("Update", {g}, f) : g \in Hash, f \in usage.entries}
      <4>1. Write("Update", {h}, e) \in U
        BY DEF Entry
      <4>2. U \subseteq ReadWriteCommand(usage.entries)
        BY DEF ReadWriteCommand, Write
      <4> HIDE DEF U
      <4> QED
        BY <4>1, <4>2, Zenon
    <3> QED
      BY <3>1, Zenon DEF Command, DbInv
  <2>3. Message(Write("Update", {h}, e), {}) \in Messages
    BY <2>2, Zenon DEF Message, Messages
  <2>4. queue' \in Seq(Messages)
    BY <2>1, <2>3 DEF DbInv
  <2> QED
    BY <1>1, <1>3, <2>4, TablesKept, Zenon DEF Notify, DbInv
<1>4. ASSUME ReadTransaction \/ ReadInBatch PROVE DbInv'
  BY <1>1, <1>4, ReadKeeps, Zenon DEF ReadTransaction, ReadInBatch, InBatch
<1>5. ASSUME BeginWrite PROVE DbInv'
  BY <1>1, <1>5, TablesKept, Zenon DEF BeginWrite, DbInv
<1>6. ASSUME HandleUpdate PROVE DbInv'
  <2>0. InBatch /\ queue # <<>> /\ txn /\ Cmd.op = "Update"
    BY <1>6, Zenon DEF HandleUpdate, InBatch
  <2>1. PICK h \in Cmd.hashes :
          IF tables.blobs[h] # Absent /\ UnionFails(tables.blobs[h], Cmd.entry)
          THEN EndWith("inconsistent")
          ELSE tables' = UpdateTables(tables, h, Cmd.entry) /\ Wrote
    BY <1>6, Zenon DEF HandleUpdate
  <2>2. CASE EndWith("inconsistent")
    BY <1>1, <2>2, EndKeeps, Zenon
  <2>3. CASE /\ ~ (tables.blobs[h] # Absent /\ UnionFails(tables.blobs[h], Cmd.entry))
             /\ tables' = UpdateTables(tables, h, Cmd.entry) /\ Wrote
    <3>1. TablesOK(UpdateTables(tables, h, Cmd.entry))
      BY <2>0, <2>3, HeadShape, UpdateOK, Zenon DEF DbInv
    <3>2. TablesOK(tables)'
      BY <1>1, <2>3, <3>1, Zenon DEF TablesOK, RowsExist, NoOrphans, FixedThresholds, Entry
    <3>3. Answer("ok", {}) \in Replies
      BY Zenon DEF Answer, Replies
    <3> QED
      BY <1>1, <2>0, <2>3, <3>2, <3>3, HandledKeeps, Zenon DEF Wrote
  <2> QED
    BY <2>1, <2>2, <2>3, Zenon
<1>7. ASSUME HandleSet PROVE DbInv'
  <2>0. InBatch /\ queue # <<>> /\ txn /\ Cmd.op = "Set" /\ Wrote
    BY <1>7, Zenon DEF HandleSet, InBatch
  <2>1. PICK h \in Cmd.hashes : tables' = PutRow(tables, h, Cmd.entry, Cmd.entry)
    BY <1>7, Zenon DEF HandleSet
  <2>2. TablesOK(PutRow(tables, h, Cmd.entry, Cmd.entry))
    BY <2>0, HeadShape, SetOK, Zenon DEF DbInv
  <2>3. TablesOK(tables)'
    BY <1>1, <2>1, <2>2, Zenon DEF TablesOK, RowsExist, NoOrphans, FixedThresholds, Entry
  <2>4. Answer("ok", {}) \in Replies
    BY Zenon DEF Answer, Replies
  <2> QED
    BY <1>1, <2>0, <2>3, <2>4, HandledKeeps, Zenon DEF Wrote
<1>8. ASSUME HandleDelete PROVE DbInv'
  <2>0. InBatch /\ queue # <<>> /\ txn /\ Wrote
    BY <1>8, Zenon DEF HandleDelete, InBatch
  <2>1. tables' = DeleteTables(tables, Cmd.hashes \ protected)
    BY <1>8, Zenon DEF HandleDelete
  <2>2. TablesOK(DeleteTables(tables, Cmd.hashes \ protected))
    BY <2>0, HeadShape, DeleteOK, Zenon DEF DbInv
  <2>3. TablesOK(tables)'
    BY <1>1, <2>1, <2>2, Zenon DEF TablesOK, RowsExist, NoOrphans, FixedThresholds, Entry
  <2>4. Answer("ok", {}) \in Replies
    BY Zenon DEF Answer, Replies
  <2> QED
    BY <1>1, <2>0, <2>3, <2>4, HandledKeeps, Zenon DEF Wrote
<1>9. ASSUME Commit PROVE DbInv'
  BY <1>1, <1>9, TablesKept, Zenon DEF Commit, DbInv
<1>10. ASSUME TopLevel PROVE DbInv'
  <2>1. queue # <<>> /\ queue' = Tail(queue) /\ UNCHANGED <<disk, tables, txn>>
    BY <1>10, Zenon DEF TopLevel
  <2>2. TablesOK(tables)'
    BY <1>1, <2>1, TablesKept, Zenon DEF DbInv
  <2>3. PICK a \in {Answer("synced", {}), Answer("snapshot", Rows(disk, Hash))} :
          reply' = Send(Head1.from, a)
    BY <1>10, Zenon DEF TopLevel
  <2>4. a \in Replies
    <3>1. Rows(disk, Hash) \in SUBSET (Hash \X EntryStates)
      BY RowsType, Zenon DEF DbInv
    <3> QED
      BY <2>3, <3>1 DEF Answer, Replies
  <2> QED
    BY <1>1, <2>1, <2>2, <2>3, <2>4, HandledKeeps, Zenon
<1>11. ASSUME Shutdown PROVE DbInv'
  <2>1. reply' \in [Client -> Replies]
    BY <1>11, Zenon DEF Shutdown, DbInv, Answer, Replies
  <2>2. queue' \in Seq(Messages)'
    BY <1>11 DEF Shutdown
  <2> QED
    BY <1>1, <1>11, <2>1, <2>2, TablesKept, Zenon DEF Shutdown, DbInv
<1>12. ASSUME IoError PROVE DbInv'
  BY <1>1, <1>12, EndKeeps, Zenon DEF IoError
<1>13. ASSUME Crash PROVE DbInv'
  <2>1. reply' \in [Client -> Replies]
    BY <1>13, Zenon DEF Crash, Idle, Replies
  <2>2. queue' \in Seq(Messages)'
    BY <1>13 DEF Crash
  <2> QED
    BY <1>1, <1>13, <2>1, <2>2, TablesKept, Zenon DEF Crash, DbInv
<1>14. ASSUME UNCHANGED vars PROVE DbInv'
  BY <1>1, <1>14, TablesKept, Zenon DEF vars, DbInv
<1> QED
  <2>1. usage.clients \subseteq Client
    BY EntryAssumption, Zenon DEF DbInv
  <2> QED
    BY <1>2, <1>3, <1>4, <1>5, <1>6, <1>7, <1>8, <1>9, <1>10, <1>11, <1>12, <1>13, <1>14, <2>1, Zenon
       DEF Next, ActorStep

\* The actor starts with empty tables and an empty queue.
LEMMA DbInvInit == Init => DbInv
<1> SUFFICES ASSUME Init PROVE DbInv
  BY Zenon
<1>1. EmptyTables \in Tables
  BY Zenon DEF EmptyTables, Tables, BlobsRow
<1>2. TablesOK(EmptyTables)
  BY <1>1, Zenon DEF EmptyTables, TablesOK, RowsExist, NoOrphans
<1>3. reply \in [Client -> Replies]
  BY Zenon DEF Init, Idle, Replies
<1>4. queue \in Seq(Messages) /\ usage \in Usages
  BY DEF Init
<1>5. TablesOK(disk) /\ TablesOK(tables) /\ txn \in BOOLEAN /\ tables = disk
  BY <1>2, Zenon DEF Init
<1> QED
  BY <1>3, <1>4, <1>5, Zenon DEF DbInv

\* The tables stay consistent under every mix of commands, errors and crashes.
THEOREM Consistent == Spec => []DbInv
BY DbInvInit, DbInvStep, PTL DEF Spec

(***************************************************************************)
(* The properties                                                          *)
(***************************************************************************)

\* No inline row outlives its entry while the thresholds stay as they are
\* (Actor::delete removes the rows it finds in the entry).
THEOREM NoOrphan == Spec => []NoOrphanRows
<1>1. DbInv => NoOrphanRows
  BY Zenon DEF DbInv, TablesOK, NoOrphans, NoOrphanRows
<1> QED
  BY <1>1, Consistent, PTL

\* No handler returns an inconsistency, if a hash has one size, as content
\* addressing gives it: reads find the inline rows of every entry, and unions
\* agree on the size.
THEOREM HandlersConsistent ==
  ASSUME \A s, t \in Size : s = t
  PROVE  Spec => []NeverInconsistent
<1>1. Init => NeverInconsistent
  BY Zenon DEF Init, NeverInconsistent
<1>2. DbInv /\ NeverInconsistent /\ [Next]_<<usage, vars>> => NeverInconsistent'
  <2> SUFFICES ASSUME DbInv, NeverInconsistent, [Next]_<<usage, vars>>
               PROVE  NeverInconsistent'
    BY Zenon
  <2>1. UNCHANGED usage
    BY Zenon DEF Next
  <2>2. ASSUME ReadTransaction \/ ReadInBatch PROVE NeverInconsistent'
    BY <2>1, <2>2, ReadKeeps, Zenon DEF ReadTransaction, ReadInBatch, InBatch, NeverInconsistent
  <2>3. ASSUME HandleUpdate PROVE NeverInconsistent'
    <3>0. queue # <<>> /\ Cmd.op = "Update"
      BY <2>3, Zenon DEF HandleUpdate, InBatch
    <3>1. PICK h \in Cmd.hashes :
            \/ tables.blobs[h] # Absent /\ UnionFails(tables.blobs[h], Cmd.entry)
            \/ Wrote
      BY <2>3, Zenon DEF HandleUpdate
    <3>2. tables.blobs[h] # Absent => tables.blobs[h] \in EntryStates
      BY <3>0, HeadShape, Zenon DEF DbInv, TablesOK, Tables, BlobsRow
    <3>3. Cmd.entry \in EntryStates
      BY <3>0, HeadShape, Zenon
    <3> QED
      BY <3>1, <3>2, <3>3, OneSizeUnion, Zenon DEF Wrote, NeverInconsistent
  <2>4. ASSUME ~ (ReadTransaction \/ ReadInBatch \/ HandleUpdate) PROVE NeverInconsistent'
    BY <2>4, Zenon DEF Next, ActorStep, Ask, Notify, BeginWrite, HandleSet, HandleDelete, Wrote, Commit,
       TopLevel, Shutdown, IoError, EndWith, Crash, vars, NeverInconsistent
  <2> QED
    BY <2>2, <2>3, <2>4, Zenon
<1> QED
  BY <1>1, <1>2, Consistent, PTL DEF Spec

\* EntryState::union never goes back, and forgets no external path.
LEMMA UnionRank ==
  ASSUME NEW old \in EntryStates, NEW new \in EntryStates, ~ UnionFails(old, new)
  PROVE  /\ Rank(Union(old, new)) >= Rank(old)
         /\ Rank(old) = 3 /\ Rank(Union(old, new)) = 3 =>
              old.data.paths \subseteq Union(old, new).data.paths
<1>0. old # Absent /\ Union(old, new) # Absent
  BY EntryAssumption, UnionType, Zenon
<1>1. CASE IsComplete(old) /\ IsComplete(new)
  <2>1. /\ Union(old, new) = Complete(DataUnion(old.data, new.data), old.outboard)
        /\ old.data \in DataLocation /\ new.data \in DataLocation
    BY <1>1, EntryShape, Zenon DEF Union
  <2>2. /\ IsComplete(Union(old, new)) /\ ~ IsPartial(Union(old, new))
        /\ Union(old, new).data = DataUnion(old.data, new.data)
    BY <2>1 DEF Complete, IsComplete, IsPartial
  <2>3. ~ IsPartial(old)
    BY <1>1, EntryShape, Zenon
  <2>4. /\ DataUnion(old.data, new.data) \in DataLocation
        /\ old.data.at = "Owned" => DataUnion(old.data, new.data).at = "Owned"
        /\ DataUnion(old.data, new.data).at = "External" =>
             old.data.at = "External" /\ old.data.paths \subseteq DataUnion(old.data, new.data).paths
    BY <2>1, DataUnionType, Zenon
  <2>5. /\ old.data.at \in {"External", "Inline", "Owned"}
        /\ DataUnion(old.data, new.data).at \in {"External", "Inline", "Owned"}
    BY <2>1, <2>4, DataShape, Zenon
  <2> QED
    BY <1>0, <2>2, <2>3, <2>4, <2>5 DEF Rank
<1>2. CASE IsComplete(old) /\ IsPartial(new)
  <2>1. Union(old, new) = old /\ ~ IsPartial(old) /\ old.data \in DataLocation
    BY <1>2, EntryShape, Zenon DEF Union
  <2>2. old.data.at \in {"External", "Inline", "Owned"}
    BY <2>1, DataShape, Zenon
  <2> QED
    BY <1>0, <2>1, <2>2 DEF Rank
<1>3. CASE IsPartial(old) /\ IsComplete(new)
  <2>1. Union(old, new) = new /\ ~ IsPartial(new) /\ new.data \in DataLocation
    BY <1>3, EntryShape, Zenon DEF Union
  <2>2. new.data.at \in {"External", "Inline", "Owned"}
    BY <2>1, DataShape, Zenon
  <2> QED
    BY <1>0, <1>3, <2>1, <2>2 DEF Rank
<1>4. CASE IsPartial(old) /\ IsPartial(new)
  <2>1. /\ Union(old, new) = Partial(old.size \union new.size)
        /\ IsPartial(Union(old, new))
        /\ Union(old, new).size = old.size \union new.size
    BY <1>4, EntryShape, Zenon DEF Union, Partial, IsPartial
  <2> QED
    BY <1>0, <1>4, <2>1 DEF Rank
<1> QED
  BY <1>1, <1>2, <1>3, <1>4, EntryShape, Zenon

\* An update that comes late never takes an entry back (handle_update).
THEOREM NeverDowngrades == Spec => UpdateNeverDowngrades
<1> DEFINE A == \A h \in Hash :
        txn /\ txn' /\ queue # <<>> /\ Cmd.op = "Update" =>
          /\ Rank(tables'.blobs[h]) >= Rank(tables.blobs[h])
          /\ Rank(tables.blobs[h]) = 3 /\ Rank(tables'.blobs[h]) = 3 =>
               tables.blobs[h].data.paths \subseteq tables'.blobs[h].data.paths
<1>1. DbInv /\ [Next]_<<usage, vars>> => [A]_tables
  <2> SUFFICES ASSUME DbInv, [Next]_<<usage, vars>>, tables' # tables,
                      txn, txn', queue # <<>>, Cmd.op = "Update", NEW h \in Hash
               PROVE  /\ Rank(tables'.blobs[h]) >= Rank(tables.blobs[h])
                      /\ Rank(tables.blobs[h]) = 3 /\ Rank(tables'.blobs[h]) = 3 =>
                           tables.blobs[h].data.paths \subseteq tables'.blobs[h].data.paths
    BY Zenon
  <2>1. HandleUpdate
    BY Zenon DEF Next, ActorStep, Ask, Notify, ReadTransaction, BeginWrite, HandleSet, HandleDelete,
       ReadInBatch, HandleReadOnly, Commit, TopLevel, Shutdown, IoError, EndWith, Crash, vars
  <2>2. PICK g \in Cmd.hashes :
          /\ tables.blobs[g] # Absent => ~ UnionFails(tables.blobs[g], Cmd.entry)
          /\ tables' = UpdateTables(tables, g, Cmd.entry)
    BY <2>1, Zenon DEF HandleUpdate, EndWith
  <2>3. tables \in Tables /\ g \in Hash /\ Cmd.entry \in EntryStates
    BY HeadShape, Zenon DEF DbInv, TablesOK
  <2>4. tables'.blobs = [tables.blobs EXCEPT ![g] =
          IF tables.blobs[g] = Absent THEN Cmd.entry ELSE Union(tables.blobs[g], Cmd.entry)]
    BY <2>2, Zenon DEF UpdateTables, PutRow
  <2>5. tables.blobs[h] = Absent \/ tables.blobs[h] \in EntryStates
    BY <2>3, Zenon DEF Tables, BlobsRow
  <2>6. \A r : Rank(r) \in 0..5 \/ ~ (r = Absent \/ r \in EntryStates)
    <3> SUFFICES ASSUME NEW r, r = Absent \/ r \in EntryStates PROVE Rank(r) \in 0..5
      BY Zenon
    <3>1. r \in EntryStates /\ IsComplete(r) =>
            ~ IsPartial(r) /\ r.data.at \in {"External", "Inline", "Owned"}
      BY EntryShape, DataShape, Zenon
    <3> QED
      BY <3>1, EntryShape DEF Rank
  <2>7. CASE h # g \/ tables.blobs[h] # Absent
    <3>1. CASE h # g
      <4>1. tables'.blobs[h] = tables.blobs[h]
        BY <2>3, <2>4, <3>1, Zenon DEF Tables
      <4> QED
        BY <2>5, <2>6, <4>1
    <3>2. CASE h = g /\ tables.blobs[h] # Absent
      <4>1. tables'.blobs[h] = Union(tables.blobs[h], Cmd.entry)
        BY <2>3, <2>4, <3>2, Zenon DEF Tables
      <4> QED
        BY <2>2, <2>3, <2>5, <3>2, <4>1, UnionRank, Zenon
    <3> QED
      BY <2>7, <3>1, <3>2, Zenon
  <2>8. CASE h = g /\ tables.blobs[h] = Absent
    <3>1. tables'.blobs[h] = Cmd.entry /\ Rank(tables.blobs[h]) = 0
      BY <2>3, <2>4, <2>8, Zenon DEF Tables, Rank
    <3> QED
      BY <2>3, <2>6, <3>1
  <2> QED
    BY <2>7, <2>8, Zenon
<1>2. UpdateNeverDowngrades <=> [][A]_tables
  BY Zenon DEF UpdateNeverDowngrades
<1> HIDE DEF A
<1> QED
  BY <1>1, <1>2, Consistent, PTL DEF Spec

(***************************************************************************)
(* The actor implements MetaStore                                          *)
(***************************************************************************)

\* The last answers of the clients, as MetaStore has them.
Answers ==
  [c \in Client |-> IF reply[c].kind \in {"pending", "failed"} THEN Idle ELSE reply[c]]

\* The types of the mapped variables.
LEMMA MappedType ==
  ASSUME DbInv
  PROVE  /\ Rows(tables, Hash) \subseteq Hash \X EntryStates
         /\ Rows(disk, Hash) \subseteq Hash \X EntryStates
         /\ Answers \in [Client -> Replies]
<1>1. Answers \in [Client -> Replies]
  BY Zenon DEF DbInv, Answers, Idle, Replies
<1> QED
  BY <1>1, RowsType, Zenon DEF DbInv

\* An answer reaches the client that awaits it and no other.
LEMMA AnswerSent ==
  ASSUME DbInv, queue # <<>>, NEW a \in Replies, a.kind \notin {"pending", "failed"},
         reply' = Send(Head1.from, a)
  PROVE  Answers' = Answers \/ \E c \in Client : Answers' = [Answers EXCEPT ![c] = a]
<1>1. Head1.from = {} \/ \E c \in Client : Head1.from = {c}
  BY HeadShape, Zenon
<1>2. CASE Head1.from = {}
  BY <1>2, Zenon DEF Send, Answers, DbInv
<1>3. ASSUME NEW c \in Client, Head1.from = {c} PROVE Answers' = [Answers EXCEPT ![c] = a]
  BY <1>3, Zenon DEF Send, Answers
<1> QED
  BY <1>1, <1>2, <1>3, Zenon

\* A write that is answered, or not awaited, is a MetaStore!Write.
LEMMA WroteIsWrite ==
  ASSUME DbInv, DbInv', queue # <<>>, reply' = Send(Head1.from, Answer("ok", {})), disk' = disk
  PROVE  Promise!Write
<1>1. Answer("ok", {}) \in Replies /\ Answer("ok", {}).kind \notin {"pending", "failed"}
  BY Zenon DEF Answer, Replies
<1>2. Answers' = Answers \/ \E c \in Client : Answers' = [Answers EXCEPT ![c] = Answer("ok", {})]
  BY <1>1, AnswerSent, Zenon
<1>3. tables' \in Tables
  BY Zenon DEF DbInv, TablesOK
<1>4. Rows(tables, Hash)' \subseteq Hash \X EntryStates
  BY <1>3 DEF Rows, Tables, BlobsRow
<1>5. Rows(disk, Hash)' = Rows(disk, Hash)
  BY Zenon DEF Rows
<1> QED
  BY <1>2, <1>4, <1>5, Zenon DEF Promise!Write, Answers, Answer

\* A read that succeeds is a MetaStore!Read of the current table.
LEMMA ReadIsRead ==
  ASSUME DbInv, UNCHANGED usage, queue # <<>>, HandleReadOnly(tables)
  PROVE  [Promise!Next]_(Promise!vars)
<1>1. ~ Inconsistent(tables)
  BY HeadShape, ReadsConsistent, Zenon DEF DbInv
<1>2. /\ reply' = Send(Head1.from, Answer("rows", Rows(tables, Cmd.hashes)))
      /\ UNCHANGED <<disk, tables>>
  BY <1>1, Zenon DEF HandleReadOnly
<1> DEFINE a == Answer("rows", Rows(tables, Cmd.hashes))
<1>3. a \in Replies /\ a.kind \notin {"pending", "failed"}
  BY HeadShape, RowsType, Zenon DEF DbInv, Answer, Replies
<1>4. Rows(tables, Cmd.hashes) \subseteq Rows(tables, Hash)
  BY HeadShape, Zenon DEF Rows
<1>5. Answers' = Answers \/ \E c \in Client : Answers' = [Answers EXCEPT ![c] = a]
  BY <1>2, <1>3, AnswerSent, Zenon
<1>6. Rows(tables, Hash)' = Rows(tables, Hash) /\ Rows(disk, Hash)' = Rows(disk, Hash)
  BY <1>2, Zenon DEF Rows
<1>7. CASE Answers' = Answers
  BY <1>6, <1>7, Zenon DEF Promise!vars, Answers
<1>8. ASSUME NEW c \in Client, Answers' = [Answers EXCEPT ![c] = a] PROVE Promise!Read(c)
  BY <1>4, <1>6, <1>8, Zenon DEF Promise!Read, Answers, Answer
<1> QED
  BY <1>5, <1>7, <1>8, Zenon DEF Promise!Next

\* The end of the actor takes the table back and answers nobody.
LEMMA EndIsCrash ==
  ASSUME DbInv, NEW why, EndWith(why)
  PROVE  Promise!Crash
<1>1. Answers' = Answers
  BY DEF EndWith, Answers, Answer, Pending, DbInv, Replies
<1>2. Rows(tables, Hash)' = Rows(disk, Hash) /\ Rows(disk, Hash)' = Rows(disk, Hash)
  BY Zenon DEF EndWith, Rows
<1> QED
  BY <1>1, <1>2, Zenon DEF Promise!Crash, Answers

\* The initial states map to initial states.
LEMMA PromiseInit == Init => Promise!Init
<1> SUFFICES ASSUME Init PROVE Promise!Init
  BY Zenon
<1>1. Rows(EmptyTables, Hash) = {}
  BY Zenon DEF Rows, EmptyTables
<1>2. Answers = [c \in Client |-> Idle]
  BY Zenon DEF Init, Answers, Idle
<1> QED
  BY <1>1, <1>2, Zenon DEF Init, Promise!Init, Promise!Nothing, Idle, Answers

\* Every step maps to a step or a stutter.
LEMMA PromiseStep ==
  DbInv /\ DbInv' /\ [Next]_<<usage, vars>> => [Promise!Next]_(Promise!vars)
<1> SUFFICES ASSUME DbInv, DbInv', [Next]_<<usage, vars>>
             PROVE  [Promise!Next]_(Promise!vars)
  BY Zenon
<1> DEFINE Same == UNCHANGED <<Rows(tables, Hash), Rows(disk, Hash)>>
<1>0. UNCHANGED usage
  BY Zenon DEF Next
<1>s. UNCHANGED <<tables, disk>> => Same
  BY Zenon DEF Rows
<1>1. ASSUME NEW c \in Client, Ask(c) PROVE Promise!Ask(c)
  <2>1. Answers' = [Answers EXCEPT ![c] = Idle]
    BY <1>1, Zenon DEF Ask, Answers, Pending, DbInv
  <2> QED
    BY <1>1, <1>s, <2>1, Zenon DEF Ask, Promise!Ask, Promise!Nothing, Idle, Answers
<1>2. ASSUME Notify \/ BeginWrite \/ UNCHANGED vars PROVE UNCHANGED Promise!vars
  <2>1. UNCHANGED <<tables, disk, reply>>
    BY <1>2, Zenon DEF Notify, BeginWrite, vars, DbInv
  <2> QED
    BY <2>1, <1>s, Zenon DEF Promise!vars
<1>3. ASSUME ReadTransaction \/ ReadInBatch PROVE [Promise!Next]_(Promise!vars)
  <2>1. HandleReadOnly(tables) /\ queue # <<>>
    BY <1>3, Zenon DEF ReadTransaction, ReadInBatch, InBatch, DbInv
  <2> QED
    BY <1>0, <2>1, ReadIsRead, Zenon
<1>4. ASSUME HandleUpdate \/ HandleSet \/ HandleDelete PROVE Promise!Write \/ Promise!Crash
  <2>1. queue # <<>> /\ (EndWith("inconsistent") \/ Wrote)
    BY <1>4, Zenon DEF HandleUpdate, HandleSet, HandleDelete, InBatch
  <2> QED
    BY <2>1, WroteIsWrite, EndIsCrash, Zenon DEF Wrote
<1>5. ASSUME Commit PROVE Promise!Persist
  <2>1. Rows(disk, Hash)' = Rows(tables, Hash) /\ Rows(tables, Hash)' = Rows(tables, Hash)
    BY <1>5, Zenon DEF Commit, Rows
  <2> QED
    BY <1>5, <2>1, Zenon DEF Commit, Promise!Persist
<1>6. ASSUME TopLevel PROVE [Promise!Next]_(Promise!vars)
  <2>1. queue # <<>> /\ UNCHANGED <<tables, disk>> /\ tables = disk
    BY <1>6, Zenon DEF TopLevel, DbInv
  <2>2. PICK a \in {Answer("synced", {}), Answer("snapshot", Rows(disk, Hash))} :
          reply' = Send(Head1.from, a)
    BY <1>6, Zenon DEF TopLevel
  <2>3. a \in Replies /\ a.kind \notin {"pending", "failed"}
    BY <2>2, MappedType DEF Answer, Replies
  <2>4. CASE Answers' = Answers
    BY <1>s, <2>1, <2>4, Zenon DEF Promise!vars, Answers
  <2>5. ASSUME NEW c \in Client, Answers' = [Answers EXCEPT ![c] = a]
        PROVE  Promise!Sync(c) \/ Promise!Snapshot(c)
    BY <1>s, <2>1, <2>2, <2>5, Zenon DEF Promise!Sync, Promise!Snapshot, Answers, Answer
  <2> QED
    BY <2>1, <2>2, <2>3, <2>4, <2>5, AnswerSent, Zenon DEF Promise!Next
<1>7. ASSUME Shutdown PROVE Promise!Write \/ UNCHANGED Promise!vars
  <2>1. queue # <<>> /\ UNCHANGED <<tables, disk>>
    BY <1>7, Zenon DEF Shutdown
  <2>2. CASE Head1.from = {}
    <3>1. Answers' = Answers
      BY <1>7, <2>2 DEF Shutdown, Answers, Answer, Pending, DbInv, Replies
    <3> QED
      BY <1>s, <2>1, <3>1, Zenon DEF Promise!vars, Answers
  <2>3. ASSUME NEW c \in Client, Head1.from = {c} PROVE Promise!Write
    <3>1. Answers' = [Answers EXCEPT ![c] = Answer("ok", {})]
      <4>1. reply' = [d \in Client |-> IF d = c THEN Answer("ok", {})
                       ELSE IF reply[d] = Pending THEN Answer("failed", {}) ELSE reply[d]]
        BY <1>7, <2>3, Zenon DEF Shutdown
      <4>2. Answers'[c] = Answer("ok", {})
        BY <4>1, Zenon DEF Answers, Answer
      <4>3. \A d \in Client \ {c} : Answers'[d] = Answers[d]
        BY <4>1 DEF Answers, Answer, Pending
      <4>4. /\ Answers' = [d \in Client |-> Answers'[d]]
            /\ Answers = [d \in Client |-> Answers[d]]
        BY Zenon DEF Answers
      <4> QED
        BY <4>2, <4>3, <4>4, Zenon
    <3> QED
      BY <1>s, <2>1, <3>1, MappedType, Zenon DEF Promise!Write, Answers, Answer
  <2> QED
    BY <2>1, <2>2, <2>3, HeadShape, Zenon
<1>8. ASSUME IoError PROVE Promise!Crash
  BY <1>8, EndIsCrash, Zenon DEF IoError
<1>9. ASSUME Crash PROVE Promise!Crash
  <2>1. Rows(tables, Hash)' = Rows(disk, Hash) /\ Rows(disk, Hash)' = Rows(disk, Hash)
    BY <1>9, Zenon DEF Crash, Rows
  <2>2. Answers' = [c \in Client |-> Idle]
    BY <1>9, Zenon DEF Crash, Answers, Idle
  <2> QED
    BY <2>1, <2>2, Zenon DEF Promise!Crash, Promise!Nothing, Idle, Answers
<1> QED
  <2>1. usage.clients \subseteq Client
    BY EntryAssumption, Zenon DEF DbInv
  <2> QED
    BY <1>1, <1>2, <1>3, <1>4, <1>5, <1>6, <1>7, <1>8, <1>9, <2>1, Zenon
       DEF Next, ActorStep, Promise!Next

\* Every answer reflects all commands handled before it, a sync or snapshot
\* only what is committed, and a crash takes back what is not (Actor::run).
THEOREM Refines == Spec => KeepsPromise
BY PromiseInit, PromiseStep, Consistent, PTL DEF Spec, KeepsPromise, Promise!Spec
===============================================================================
