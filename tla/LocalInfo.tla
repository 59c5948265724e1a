------------------------------- MODULE LocalInfo -------------------------------
(***************************************************************************)
(* How much of a request is already here, and what is still to be asked    *)
(* for (LocalInfo in api/remote.rs).                                       *)
(***************************************************************************)
EXTENDS Content

VARIABLE store       \* the bitfield the store has of every blob

\* Hash::EMPTY is always there.
Observed(h) ==
  IF BlobSizeOf(h) = 0 THEN CompleteBitfield(0) ELSE store[h]

-------------------------------------------------------------------------------
(* local_for_request *)

\* hashes_with_index over the chunks the store has: the children whose hash
\* is in them, by position.
ByIndex ==
  {i \in 0 .. NumChildren - 1 :
     (i * HashSize) \div ChunkSize \in Observed(Root).ranges}

\* The children asked for whose hash is known; a request for a single blob
\* has none.  The loop ends past the last known position.
HashSeqOf(req) ==
  LET last == IF ByIndex = {} THEN 0 ELSE Max(ByIndex) + 1
  IN {i \in ByIndex :
        /\ i <= last
        /\ \E k \in DOMAIN Items(req) : Items(req)[k].offset = i + 1}

LocalForRequest(req) ==
  [request  |-> req,
   bitfield |-> Observed(Root),
   children |-> IF IsBlob(req) THEN {} ELSE {HashSeqOf(req)}]

\* The same for a request of another blob, which asks for nothing else.
LocalForBlob(h, req) == [request |-> req, bitfield |-> Observed(h), children |-> {}]

\* requested_root_ranges: a set of at most one range set; none for an empty
\* request.
RequestedRootRanges(req) == IF Iter(req) = <<>> THEN {} ELSE {Iter(req)[1]}

-------------------------------------------------------------------------------
(* LocalInfo *)

\* Bitfield::total_bytes: for each range, the bytes from its start to its
\* end or to the size, whichever is less.
TotalBytes(b) ==
  LET starts == {c \in b.ranges : c - 1 \notin b.ranges}
      EndOf(c) == Max({d \in b.ranges : c..d \subseteq b.ranges}) + 1
      Bytes(c) == IF EndOf(c) > MaxChunk THEN b.size - c * ChunkSize
                  ELSE (IF EndOf(c) * ChunkSize < b.size
                          THEN EndOf(c) * ChunkSize ELSE b.size) - c * ChunkSize
  IN MapThenSumSet(Bytes, starts)

Clip(b, ranges) == [b EXCEPT !.ranges = @ \cap ranges]

\* local_bytes.
LocalBytes(info) ==
  IF RequestedRootRanges(info.request) = {} THEN 0
  ELSE LET root == CHOOSE r \in RequestedRootRanges(info.request) : TRUE
           items == Items(info.request)
           known == {k \in DOMAIN items :
                       \E hashes \in info.children : items[k].offset - 1 \in hashes}
           Bytes(k) == TotalBytes(Clip(Observed(ChildHash(items[k].offset - 1)),
                                       items[k].ranges))
       IN TotalBytes(Clip(info.bitfield, root)) + MapThenSumSet(Bytes, known)

\* The number of children, if the root's size is proved.
MaxChild(info) == {size \div HashSize : size \in ValidatedSize(info.bitfield)}

\* Faulty IsLocal: a child whose hash is not known ends the search with success.
FaultyUnknownChildComplete(info) ==
  \A root \in RequestedRootRanges(info.request) :
    /\ root \subseteq info.bitfield.ranges
    /\ \A hashes \in info.children :
         LET items == Items(info.request) IN
         \A k \in DOMAIN items :
           items[k].offset - 1 \in hashes =>
             items[k].ranges \subseteq Observed(ChildHash(items[k].offset - 1)).ranges

\* is_complete: the first child that is not there decides; it does not
\* count if it lies past the end of a hash sequence of proved size.
IsLocal(info) ==
  \A root \in RequestedRootRanges(info.request) :
    /\ root \subseteq info.bitfield.ranges
    /\ \A hashes \in info.children :
         LET items == Items(info.request)
             child(k) == items[k].offset - 1
             lacking == {k \in DOMAIN items :
                           /\ items[k].offset # 0
                           /\ child(k) \in hashes =>
                                ~(items[k].ranges \subseteq
                                    Observed(ChildHash(child(k))).ranges)}
         IN lacking # {} =>
              /\ child(Min(lacking)) \notin hashes
              /\ \E n \in MaxChild(info) : child(Min(lacking)) >= n

\* What missing asks of one child: what is lacking of it if its hash is
\* known, all that was requested otherwise.
MissingOf(item, hashes) ==
  IF item.offset - 1 \in hashes
    THEN item.ranges \ Observed(ChildHash(item.offset - 1)).ranges
    ELSE item.ranges

\* Faulty Missing: an open request of unknown length is closed at the end of
\* what is known.
FaultyMissingClosed(info) ==
  IF RequestedRootRanges(info.request) = {} THEN EmptySeq
  ELSE LET root == CHOOSE r \in RequestedRootRanges(info.request) : TRUE
           items == SelectSeq(Items(info.request), LAMBDA i : i.offset # 0)
           hashes == UNION info.children
           known == {k \in DOMAIN items : items[k].offset - 1 \in hashes}
           Add(b, k) == AtOffset(b, items[k].offset, MissingOf(items[k], hashes))
       IN BuilderBuild(FoldSet(LAMBDA k, b : Add(b, k),
            AtOffset(EmptyBuilder, 0, root \ info.bitfield.ranges), known))

\* missing.  The first loop takes the children up to the last known hash;
\* the second one the rest: up to the proved end, or, when the end is not
\* known, up to where the request only repeats itself.
Missing(info) ==
  IF RequestedRootRanges(info.request) = {} THEN EmptySeq
  ELSE
  LET root == CHOOSE r \in RequestedRootRanges(info.request) : TRUE
      rootOnly == AtOffset(EmptyBuilder, 0, root \ info.bitfield.ranges)
      items == SelectSeq(Items(info.request), LAMBDA i : i.offset # 0)
      hashes == UNION info.children
      maxLocal == IF hashes = {} THEN 0 ELSE Max(hashes) + 1
      atLimit == {k \in DOMAIN items : items[k].offset >= maxLocal}
      loop1 == IF atLimit = {} THEN Len(items) ELSE Min(atLimit)
      rest == {k \in DOMAIN items : k > loop1}
      ended == {k \in rest : items[k].atEnd}
      loop2 == IF MaxChild(info) # {}
                 THEN {k \in rest : \A n \in MaxChild(info) : items[k].offset - 1 < n}
                 ELSE {k \in rest : ended = {} \/ k <= Min(ended)}
      Open == MaxChild(info) = {} /\ ended # {} /\ Min(ended) < Len(items)
      Add(k, b) == AtOffset(b, items[k].offset,
                            IF k <= loop1 THEN MissingOf(items[k], hashes)
                                          ELSE items[k].ranges)
      all == FoldSet(Add, rootOnly, 1..loop1 \cup loop2)
  IN IF info.children = {} THEN BuilderBuild(rootOnly)
     ELSE IF Open THEN BuilderBuildOpen(all)
     ELSE BuilderBuild(all)

===============================================================================
