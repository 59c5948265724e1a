------------------------------- MODULE Requests -------------------------------
(***************************************************************************)
(* A client puts a request together with a builder, chunks of the blobs    *)
(* arrive in any order, from anywhere, and a fetch asks a provider that    *)
(* has everything for what is missing.                                     *)
(***************************************************************************)
EXTENDS LocalInfo

CONSTANTS RangeChoices, \* the range sets a client asks for
          Offsets,      \* the offsets a client names
          MaxAdds       \* calls of a builder

VARIABLES builder,   \* the request builder's map
          adds,      \* how often it was called
          request,   \* the ranges of the request, once there is one
          built,     \* "no", "closed", "open" or "preset"
          outcome    \* of the last fetch: "none", "ok" or "failed"

vars == <<builder, adds, request, built, store, outcome>>

Init ==
  /\ builder = EmptyBuilder /\ adds = 0
  /\ request = EmptySeq /\ built = "no"
  /\ store = [h \in Blobs |-> EmptyBitfield]
  /\ outcome = "none"

\* GetRequestBuilder::{offset, root, child}.
AddRange(offset, ranges) ==
  /\ built = "no" /\ adds < MaxAdds
  /\ builder' = AtOffset(builder, offset, ranges)
  /\ adds' = adds + 1
  /\ UNCHANGED <<request, built, store, outcome>>

\* GetRequestBuilder::next.
NextRange(ranges) ==
  /\ built = "no" /\ adds < MaxAdds
  /\ builder' = AtOffset(builder, NextOffsetValue(builder), ranges)
  /\ adds' = adds + 1
  /\ UNCHANGED <<request, built, store, outcome>>

\* GetRequestBuilder::{build, build_open}.
Build ==
  /\ built = "no"
  /\ \/ request' = BuilderBuild(builder) /\ built' = "closed"
     \/ request' = BuilderBuildOpen(builder) /\ built' = "open"
  /\ UNCHANGED <<builder, adds, store, outcome>>

\* GetRequest::{all, blob}, and ChunkRangesSeq::{verified_size,
\* verified_child_sizes}.
Preset ==
  /\ built = "no" /\ adds = 0
  /\ request' \in {AllSeq, RootSeq, VerifiedSizeSeq, VerifiedChildSizesSeq}
  /\ built' = "preset"
  /\ UNCHANGED <<builder, adds, store, outcome>>

Got(b, h, chunks) == Combine(b, NewBitfield(chunks, BlobSizeOf(h)))

\* A chunk arrives, from some import of the blob.
Arrive(h, chunk) ==
  /\ built # "no" /\ outcome = "none"
  /\ store' = [store EXCEPT ![h] = Got(@, h, {chunk})]
  /\ UNCHANGED <<builder, adds, request, built, outcome>>

Fetched(h, ranges) ==
  IF ranges = {} \/ BlobSizeOf(h) = 0 THEN store[h]
  ELSE Got(store[h], h, Selected(h, ranges))

\* fetch_sink, then execute_get_sink against a provider that has everything:
\* nothing if the request is complete; otherwise the root first; then, if
\* children were asked for, the store must have the whole root.
Fetch ==
  LET info == LocalForRequest(request)
      missing == FromWire(ToWire(Missing(info)))
      root == Fetched(Root, At(missing, 0))
      wanted(h) == UNION {At(missing, i + 1) :
                            i \in {j \in 0 .. NumChildren - 1 : ChildHash(j) = h}}
  IN
  /\ built # "no" /\ outcome = "none"
  /\ IF IsLocal(info)
       THEN outcome' = "ok" /\ UNCHANGED store
     ELSE IF \A k \in DOMAIN Items(missing) : Items(missing)[k].offset = 0
       THEN outcome' = "ok" /\ store' = [store EXCEPT ![Root] = root]
     ELSE IF ~IsComplete(root)
       THEN outcome' = "failed" /\ store' = [store EXCEPT ![Root] = root]
     ELSE /\ outcome' = "ok"
          /\ store' = [h \in Blobs |-> IF h = Root THEN root
                                       ELSE Fetched(h, wanted(h))]
  /\ UNCHANGED <<builder, adds, request, built>>

Next ==
  \/ \E offset \in Offsets, ranges \in RangeChoices : AddRange(offset, ranges)
  \/ \E ranges \in RangeChoices : NextRange(ranges)
  \/ Build
  \/ Preset
  \/ \E h \in Blobs : \E chunk \in ChunksOf(h) : Arrive(h, chunk)
  \/ Fetch

Spec == Init /\ [][Next]_vars

(***************************************************************************)
(* Properties                                                              *)
(***************************************************************************)

\* The ranges the builder was told for an offset, the last ones going on
\* forever in an open request.
Told(offset) ==
  LET given == {o \in DOMAIN builder : builder[o] # {}} IN
  IF offset \in given THEN builder[offset]
  ELSE IF built = "open" /\ given # {} /\ offset > Max(given)
    THEN builder[Max(given)]
  ELSE {}

\* A built request says, after being sent over the wire and in whichever way
\* it is read (by index, by either infinite iterator, by the finite one as
\* far as it goes), exactly what the builder was told.
RequestExact ==
  built \in {"closed", "open"} =>
    LET seq == FromWire(ToWire(request))
        items == IterNonEmptyInfinite(seq)
    IN /\ seq = request
       /\ \A o \in 0 .. MaxOffset - 1 :
            /\ At(seq, o) = Told(o)
            /\ Told(o) # {} <=> \E k \in DOMAIN items : items[k].offset = o
            /\ o + 1 \in DOMAIN Iter(seq) => Iter(seq)[o + 1] = Told(o)
       /\ \A k \in DOMAIN items : items[k].ranges = Told(items[k].offset)

\* What a request asks of a blob is here.
HereOf(h, ranges) ==
  BlobSizeOf(h) = 0 \/ Selected(h, ranges) \subseteq store[h].ranges

\* is_complete says yes exactly when a provider has nothing to add: every
\* requested chunk of the root is here, and of every requested child the
\* hash sequence really has, both its hash and its chunks; ranges past the
\* end count as the last chunk.  A request for more children than there are
\* needs the size of the root to be validated, which says how many there are.
CompleteExact ==
  built # "no" =>
    (IsLocal(LocalForRequest(request)) <=>
       /\ At(request, 0) # {} => HereOf(Root, At(request, 0))
       /\ \A i \in 0 .. NumChildren - 1 :
            At(request, i + 1) # {} =>
              i \in ByIndex /\ HereOf(ChildHash(i), At(request, i + 1))
       /\ (\E o \in NumChildren + 1 .. MaxOffset - 1 : At(request, o) # {}) =>
            IsValidated(Observed(Root)))

\* A fetch that ends well leaves nothing of the request missing, and only a
\* request for children without their whole hash sequence fails; yet missing
\* never asks again for a chunk of the root, or of a child whose hash is
\* known, that the store already has.
FetchExact ==
  /\ outcome = "ok" => IsLocal(LocalForRequest(request))
  /\ outcome = "failed" => ~IsComplete(Observed(Root))
  /\ built # "no" =>
       LET missing == Missing(LocalForRequest(request)) IN
       /\ At(missing, 0) \cap store[Root].ranges = {}
       /\ \A i \in ByIndex : ~IsBlob(request) =>
            At(missing, i + 1) \cap Observed(ChildHash(i)).ranges = {}

\* local_bytes is "the number of bytes we have locally" of the request: the
\* bytes of the requested chunks that are here.
LocalBytesExact ==
  built # "no" =>
    LET Here(h, ranges) == ranges \cap store[h].ranges \cap ChunksOf(h)
        BytesOf(h, c) == (IF (c + 1) * ChunkSize < BlobSizeOf(h)
                            THEN (c + 1) * ChunkSize ELSE BlobSizeOf(h)) - c * ChunkSize
        Total(h, ranges) == MapThenSumSet(LAMBDA c : BytesOf(h, c), Here(h, ranges))
    IN LocalBytes(LocalForRequest(request)) =
         Total(Root, At(request, 0)) +
         (IF IsBlob(request) THEN 0
          ELSE MapThenSumSet(LAMBDA i : Total(ChildHash(i), At(request, i + 1)),
                             ByIndex))

===============================================================================
