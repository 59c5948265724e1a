------------------------------ MODULE EntryState ------------------------------
(***************************************************************************)
(* The entry of a hash in the blobs table (store/fs/entry_state.rs): where *)
(* the data and the outboard of a complete blob are, or what is known of   *)
(* the size of a partial one, and the union of an old and a new entry.     *)
(* The bytes of inline data are left out: what matters is that they are    *)
(* there.  A size that may be unknown is a set with at most one element.   *)
(***************************************************************************)
EXTENDS Naturals

CONSTANTS Size,  \* sizes of blobs
          Path   \* paths of external files

\* DataLocation
InlineData == [at |-> "Inline", paths |-> {}, size |-> {}]
OwnedData(s) == [at |-> "Owned", paths |-> {}, size |-> {s}]
ExternalData(ps, s) == [at |-> "External", paths |-> ps, size |-> {s}]

DataLocation ==
  {InlineData} \union {OwnedData(s) : s \in Size}
    \union {ExternalData(ps, s) : ps \in (SUBSET Path) \ {{}}, s \in Size}

\* OutboardLocation
OutboardLocation == {"Inline", "Owned", "NotNeeded"}

\* EntryState
Partial(size) == [state |-> "Partial", size |-> size]
Complete(data, outboard) ==
  [state |-> "Complete", data |-> data, outboard |-> outboard]

PartialEntry == {Partial({})} \union {Partial({s}) : s \in Size}
CompleteEntry == {Complete(d, o) : d \in DataLocation, o \in OutboardLocation}
EntryStates == PartialEntry \union CompleteEntry

IsComplete(e) == e.state = "Complete"
IsPartial(e) == e.state = "Partial"

\* split_inline_data: which inline tables get a row when e is written.
HasInlineData(e) == IsComplete(e) /\ e.data.at = "Inline"
HasInlineOutboard(e) == IsComplete(e) /\ e.outboard = "Inline"

-----------------------------------------------------------------------------
\* DataLocation::union; the error of the External/External case is UnionFails.
DataUnion(a, b) ==
  CASE a.at = "External" /\ b.at = "External" ->
         [a EXCEPT !.paths = a.paths \union b.paths]
    [] b.at = "Owned" -> b
    [] b.at # "Owned" /\ a.at = "Owned" -> a
    [] b.at = "Inline" /\ a.at # "Owned" -> b
    [] b.at = "External" /\ a.at = "Inline" -> a

\* The sizes that union compares, and refuses when they differ.
UnionFails(old, new) ==
  \/ /\ IsPartial(old) /\ IsPartial(new)
     /\ old.size # {} /\ new.size # {} /\ old.size # new.size
  \/ /\ IsComplete(old) /\ IsComplete(new)
     /\ old.data.at = "External" /\ new.data.at = "External"
     /\ old.data.size # new.data.size

\* EntryState::union(old, new), where it does not fail.
Union(old, new) ==
  CASE IsComplete(old) /\ IsComplete(new) ->
         Complete(DataUnion(old.data, new.data), old.outboard)
    [] IsComplete(old) /\ IsPartial(new) -> old
    [] IsPartial(old) /\ IsComplete(new) -> new
    [] IsPartial(old) /\ IsPartial(new) -> Partial(old.size \union new.size)
=============================================================================
