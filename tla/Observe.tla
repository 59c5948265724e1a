-------------------------------- MODULE Observe --------------------------------
(***************************************************************************)
(* Watching a blob from another node.  The store keeps the blob's bitfield *)
(* in a watch channel; the forwarding task of an observe call copies its   *)
(* value into a bounded channel whenever it changes (store/mem.rs,         *)
(* store/fs/bao_file.rs); the provider's handle_observe sends the first    *)
(* value and then differences over the stream (provider.rs); the observer  *)
(* turns every item into a bitfield (api/remote.rs) and combines them.     *)
(*                                                                         *)
(* Beside each item on the stream the model keeps the store's value it     *)
(* stands for; the code has no such field.                                 *)
(***************************************************************************)
EXTENDS Bitfield, Sequences

CONSTANTS Size,      \* the size of the blob
          Leaves,    \* the sets of chunks a leaf of an import can bring
          Capacity   \* items the forwarding channel and the stream hold (32)

ASSUME SizeAssumption ==
  /\ Size \in BlobSize \ {0}
  /\ Leaves \subseteq SUBSET (0 .. Chunks(Size) - 1)
  /\ Capacity \in Nat \ {0}

VARIABLES stored,    \* the bitfield in the entry's watch channel
          changed,   \* the forwarding task has not seen the latest value
          forwarder, \* "start", "wait" or "done"
          values,    \* bitfields on their way to handle_observe
          old,       \* the value handle_observe sent last; {} before the first
          wire,      \* items on the stream, each with the value it stands for
          seen,      \* what the observer has combined
          base,      \* the store's value the observer should have by now
          stopped    \* the observer stopped the stream

vars == <<stored, changed, forwarder, values, old, wire, seen, base, stopped>>

Item == [item : BitfieldType, value : BitfieldType]

TypeOK ==
  /\ stored \in BitfieldType
  /\ changed \in BOOLEAN
  /\ forwarder \in {"start", "wait", "done"}
  /\ values \in Seq(BitfieldType)
  /\ old \in SUBSET BitfieldType
  /\ wire \in Seq(Item)
  /\ seen \in BitfieldType
  /\ base \in BitfieldType
  /\ stopped \in BOOLEAN

Init ==
  /\ stored = EmptyBitfield
  /\ changed = FALSE
  /\ forwarder = "start"
  /\ values = <<>>
  /\ old = {}
  /\ wire = <<>>
  /\ seen = EmptyBitfield
  /\ base = EmptyBitfield
  /\ stopped = FALSE

\* A leaf of some import is written and the watch channel notified if the
\* bitfield changed.
WriteLeaf(leaf) ==
  LET update == Update(stored, NewBitfield(leaf, Size)) IN
  /\ stored' = update.value
  /\ changed' = (changed \/ update.result # "NoChange")
  /\ UNCHANGED <<forwarder, values, old, wire, seen, base, stopped>>

\* A local import of the whole blob completes the entry.
CompleteEntry ==
  /\ stored' = CompleteBitfield(Size)
  /\ changed' = TRUE
  /\ UNCHANGED <<forwarder, values, old, wire, seen, base, stopped>>

\* forward: the current value first.
ForwardFirst ==
  /\ forwarder = "start"
  /\ values' = Append(values, stored)
  /\ forwarder' = "wait"
  /\ UNCHANGED <<stored, changed, old, wire, seen, base, stopped>>

\* Faulty ForwardChange: the change is marked seen although the channel is full.
FaultyForwardDrops ==
  /\ forwarder = "wait" /\ changed
  /\ changed' = FALSE
  /\ values' = IF Len(values) < Capacity THEN Append(values, stored) ELSE values
  /\ UNCHANGED <<stored, forwarder, old, wire, seen, base, stopped>>

\* forward: a change, then the value there is by the time there is room for it.
ForwardChange ==
  /\ forwarder = "wait" /\ changed
  /\ Len(values) < Capacity
  /\ changed' = FALSE
  /\ values' = Append(values, stored)
  /\ UNCHANGED <<stored, forwarder, old, wire, seen, base, stopped>>

\* update_or_closed: the handler has gone, the forwarding task ends.
ForwardClosed ==
  /\ forwarder = "wait" /\ stopped
  /\ forwarder' = "done"
  /\ UNCHANGED <<stored, changed, values, old, wire, seen, base, stopped>>

Send(b, value) == wire' = Append(wire, [item |-> b, value |-> value])

\* handle_observe: the initial bitfield as it is.
HandleFirst ==
  /\ old = {} /\ values # <<>> /\ ~stopped
  /\ Send(Head(values), Head(values))
  /\ old' = {Head(values)}
  /\ values' = Tail(values)
  /\ UNCHANGED <<stored, changed, forwarder, seen, base, stopped>>

\* handle_observe: a later value as its difference from the last one sent;
\* an empty difference is skipped and the last value kept.
HandleNext ==
  /\ old # {} /\ values # <<>> /\ ~stopped
  /\ Len(wire) < Capacity
  /\ \E prev \in old :
       LET new == Head(values)
           diff == Diff(prev, new)
       IN IF IsEmptyBitfield(diff)
            THEN UNCHANGED <<wire, old>>
            ELSE Send(diff, new) /\ old' = {new}
  /\ values' = Tail(values)
  /\ UNCHANGED <<stored, changed, forwarder, seen, base, stopped>>

\* observe_impl reads the next item and its caller combines it.
Receive ==
  /\ wire # <<>> /\ ~stopped
  /\ seen' = Combine(seen, Head(wire).item)
  /\ base' = Head(wire).value
  /\ wire' = Tail(wire)
  /\ UNCHANGED <<stored, changed, forwarder, values, old, stopped>>

\* The observer drops the stream; handle_observe sees it stopped and returns.
Stop ==
  /\ ~stopped
  /\ stopped' = TRUE
  /\ values' = <<>>
  /\ wire' = <<>>
  /\ UNCHANGED <<stored, changed, forwarder, old, seen, base>>

Forward == ForwardFirst \/ ForwardChange \/ ForwardClosed
Handle == HandleFirst \/ HandleNext

Next ==
  \/ \E leaf \in Leaves : WriteLeaf(leaf)
  \/ CompleteEntry
  \/ ForwardFirst
  \/ ForwardChange
  \/ ForwardClosed
  \/ HandleFirst
  \/ HandleNext
  \/ Receive
  \/ Stop

Spec == Init /\ [][Next]_vars

LiveSpec == Spec /\ WF_vars(Forward) /\ WF_vars(Handle) /\ WF_vars(Receive)

(***************************************************************************)
(* Properties                                                              *)
(***************************************************************************)

\* What an observer gets by combining the items of an observe stream is a
\* value the store really had: exactly the one the last item read stands for,
\* never a mixture of two and never a size or a range the store did not have
\* (Bitfield::diff, "an inverse of the combine operation").
SeenIsStored == seen = base

\* An observer that keeps reading learns of completion: once the blob is
\* complete it ends up with the store's own complete bitfield, whatever
\* values were skipped or overtaken on the way (ObserveProgress::stream).
CompletionSeen == (IsComplete(stored) ~> (seen = stored \/ stopped))

(***************************************************************************)
(* The inductive invariant behind SeenIsStored                             *)
(***************************************************************************)

\* A value the store can have: nothing at all, or ranges in normal form
\* with the blob's size.
Canonical(b) ==
  b = EmptyBitfield \/ (b.size = Size /\ b = NewBitfield(b.ranges, Size))

\* The store only ever learns more.
Within(a, b) == a.ranges \subseteq b.ranges /\ (a.size # 0 => b.size # 0)

\* Every value in the pipeline is canonical; from what handle_observe sent
\* last, through the values on their way to it, to what is stored, each one
\* is within the next; and each item on the stream leads from the value
\* before it to the value it stands for.
Pipeline ==
  /\ TypeOK
  /\ seen = base
  /\ Canonical(stored) /\ Canonical(base)
  /\ \A o \in old : Canonical(o) /\ Within(o, stored)
  /\ \A i \in 1..Len(values) :
       /\ Canonical(values[i]) /\ Within(values[i], stored)
       /\ \A o \in old : Within(o, values[i])
       /\ \A j \in i..Len(values) : Within(values[i], values[j])
  /\ \A i \in 1..Len(wire) :
       /\ Canonical(wire[i].value)
       /\ Combine(IF i = 1 THEN base ELSE wire[i - 1].value, wire[i].item)
            = wire[i].value
  /\ ~stopped =>
       /\ old = {} => wire = <<>> /\ base = EmptyBitfield
       /\ \A o \in old :
            o = IF wire = <<>> THEN base ELSE wire[Len(wire)].value
  /\ stopped => wire = <<>>

===============================================================================
