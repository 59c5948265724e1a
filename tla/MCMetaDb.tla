------------------------------- MODULE MCMetaDb -------------------------------
(* Instances of MetaDb for TLC. *)
EXTENDS MetaDb

\* One of each kind of entry, with the outboard that goes with it.
AllEntries ==
  {Partial({}), Partial({1}), Complete(InlineData, "NotNeeded"),
   Complete(OwnedData(1), "Inline"), Complete(OwnedData(1), "Owned"),
   Complete(ExternalData({"p"}, 1), "Inline")}

\* The same, when the data of the hash is above the inline threshold and its
\* outboard below.
FixedEntries ==
  {Partial({}), Complete(OwnedData(1), "Inline"), Complete(ExternalData({"p"}, 1), "Inline")}

\* Thresholds that change, and two clients with thresholds that do not.
MCUsages ==
  {[entries |-> AllEntries, clients |-> {CHOOSE c \in Client : TRUE}],
   [entries |-> FixedEntries, clients |-> Client]}

=============================================================================
