------------------------------- MODULE RangeSpec -------------------------------
(***************************************************************************)
(* What a request asks for: for each blob of a sequence, the root at       *)
(* offset 0 and its children after it, a set of chunk ranges.  A           *)
(* ChunkRangesSeq lists only the offsets at which the ranges change        *)
(* (protocol/range_spec.rs); it is put together by a builder (protocol.rs),*)
(* read by index or by one of three iterators, and sent as differences.    *)
(***************************************************************************)
EXTENDS Bitfield, Sequences, SequencesExt

CONSTANT MaxOffset    \* u64::MAX as the offset of a blob in a sequence

\* A ChunkRangesSeq: pairs of an offset and the ranges from it on.
OffsetOf(pair) == pair[1]
RangesOf(pair) == pair[2]

EmptySeq == <<>>
RootSeq == << <<0, AllRanges>>, <<1, {}>> >>
AllSeq == << <<0, AllRanges>> >>
VerifiedSizeSeq == << <<0, LastChunk>>, <<1, {}>> >>
VerifiedChildSizesSeq == << <<0, AllRanges>>, <<1, LastChunk>> >>

\* Index: the last change at or before the offset, found by binary search.
At(seq, offset) ==
  LET before == {k \in DOMAIN seq : OffsetOf(seq[k]) <= offset}
  IN IF before = {} THEN {} ELSE RangesOf(seq[Max(before)])

\* as_single: one blob only; its offset and ranges as a set of at most one.
AsSingle(seq) ==
  IF /\ Len(seq) = 2
     /\ OffsetOf(seq[1]) = OffsetOf(seq[2]) - 1
     /\ RangesOf(seq[2]) = {}
    THEN {seq[1]} ELSE {}

IsBlob(seq) == \E pair \in AsSingle(seq) : OffsetOf(pair) = 0

IsInfinite(seq) == seq # <<>> /\ RangesOf(Last(seq)) # {}

\* Faulty FromRangesInner: compares with the first range set, not the last.
FaultyComparesFirst(ranges) ==
  LET at == SelectSeq([i \in DOMAIN ranges |-> i],
                      LAMBDA i : i = 1 \/ ranges[i] # ranges[1])
  IN [k \in DOMAIN at |-> <<at[k] - 1, ranges[at[k]]>>]

\* from_ranges_inner: an entry wherever the ranges differ from those before;
\* before the first they are empty.
FromRangesInner(ranges) ==
  LET before(i) == IF i = 1 THEN {} ELSE ranges[i - 1]
      at == SelectSeq([i \in DOMAIN ranges |-> i],
                      LAMBDA i : ranges[i] # before(i))
  IN [k \in DOMAIN at |-> <<at[k] - 1, ranges[at[k]]>>]

\* from_ranges_infinite: the last ranges go on forever.
FromRangesInfinite(ranges) == FromRangesInner(ranges)

\* from_ranges: ends after the last ranges.
FromRanges(ranges) ==
  LET seq == FromRangesInner(ranges)
  IN IF IsInfinite(seq) THEN Append(seq, <<Len(ranges), {}>>) ELSE seq

-------------------------------------------------------------------------------
(* Iterators *)

StartIter == [current |-> {}, offset |-> 0, next |-> 1]

AtEnd(seq, it) == it.next > Len(seq)

\* ChunkRangesSeqIterInfinite::next: take the changes that are due, then
\* give the current ranges once more.
RECURSIVE IterInfiniteNext(_, _)
IterInfiniteNext(seq, it) ==
  IF AtEnd(seq, it) \/ it.offset < OffsetOf(seq[it.next])
    THEN [it EXCEPT !.offset = @ + 1]
    ELSE IterInfiniteNext(seq, [it EXCEPT !.current = RangesOf(seq[it.next]),
                                          !.next = @ + 1])

\* The first n ranges of the infinite iterator.
RECURSIVE TakeInfinite(_, _, _)
TakeInfinite(seq, it, n) ==
  IF n = 0 THEN <<>>
  ELSE LET now == IterInfiniteNext(seq, it)
       IN <<now.current>> \o TakeInfinite(seq, now, n - 1)

\* ChunkRangesSeqIter: the same, but at most one change at a time, and it
\* ends with the last of them.
RECURSIVE IterFrom(_, _)
IterFrom(seq, it) ==
  IF AtEnd(seq, it) THEN <<>>
  ELSE LET now == IF it.offset < OffsetOf(seq[it.next])
                    THEN [it EXCEPT !.offset = @ + 1]
                    ELSE [current |-> RangesOf(seq[it.next]),
                          offset |-> it.offset + 1, next |-> it.next + 1]
       IN <<now.current>> \o IterFrom(seq, now)

Iter(seq) == IterFrom(seq, StartIter)

\* NonEmptyRequestRangeSpecIter: offset and ranges of the blobs of which
\* something is asked, and whether all changes were taken by then.  It ends
\* when the ranges stay empty, or when the offsets run out.
RECURSIVE NonEmptyFrom(_, _, _)
NonEmptyFrom(seq, it, count) ==
  LET now == IterInfiniteNext(seq, it) IN
  IF count = MaxOffset THEN <<>>
  ELSE IF now.current # {}
    THEN << [offset |-> count, ranges |-> now.current, atEnd |-> AtEnd(seq, now)] >>
           \o NonEmptyFrom(seq, now, count + 1)
  ELSE IF AtEnd(seq, now) THEN <<>>
  ELSE NonEmptyFrom(seq, now, count + 1)

IterNonEmptyInfinite(seq) == NonEmptyFrom(seq, StartIter, 0)

-------------------------------------------------------------------------------
(* The wire format *)

\* boundaries of a range set: where it starts, where it ends, where it
\* starts again; without an end their number is odd.
Boundaries(ranges) ==
  SetToSortSeq({c \in ChunkNum : (c \in ranges) # (c - 1 \in ranges)}, <)

Deltas(numbers) ==
  [i \in DOMAIN numbers |-> numbers[i] - (IF i = 1 THEN 0 ELSE numbers[i - 1])]

\* The numbers again, each the sum of the differences up to it.
RECURSIVE Sums(_, _)
Sums(deltas, from) ==
  IF deltas = <<>> THEN <<>>
  ELSE <<from + Head(deltas)>> \o Sums(Tail(deltas), from + Head(deltas))

\* RangeSpec::new: alternating widths, the first one deselected.
RangeSpecNew(ranges) == Deltas(Boundaries(ranges))

\* to_chunk_ranges: a chunk is selected after an odd number of boundaries.
ToChunkRanges(spec) ==
  LET at == Sums(spec, 0)
  IN {c \in ChunkNum : Cardinality({i \in DOMAIN at : at[i] <= c}) % 2 = 1}

\* wire::RangeSpecSeq from a ChunkRangesSeq, and back.
ToWire(seq) ==
  LET deltas == Deltas([k \in DOMAIN seq |-> OffsetOf(seq[k])])
  IN [k \in DOMAIN seq |-> <<deltas[k], RangeSpecNew(RangesOf(seq[k]))>>]

FromWire(wire) ==
  LET offsets == Sums([k \in DOMAIN wire |-> wire[k][1]], 0)
  IN [k \in DOMAIN wire |-> <<offsets[k], ToChunkRanges(wire[k][2])>>]

-------------------------------------------------------------------------------
(* ChunkRangesSeqBuilder: a map from offsets to ranges *)

EmptyBuilder == <<>>

\* at_offset: ranges for an offset are added to the ones it has.
AtOffset(builder, offset, ranges) ==
  [o \in DOMAIN builder \cup {offset} |->
     (IF o \in DOMAIN builder THEN builder[o] ELSE {})
       \cup (IF o = offset THEN ranges ELSE {})]

NextOffsetValue(builder) ==
  IF DOMAIN builder = {} THEN 0 ELSE Max(DOMAIN builder) + 1

\* build0: empty entries are dropped, gaps filled with empty ranges.
Build0(builder) ==
  LET kept == Restrict(builder, {o \in DOMAIN builder : builder[o] # {}})
  IN [i \in 1..NextOffsetValue(kept) |->
        IF i - 1 \in DOMAIN kept THEN kept[i - 1] ELSE {}]

BuilderBuild(builder) == FromRanges(Build0(builder))
BuilderBuildOpen(builder) == FromRangesInfinite(Build0(builder))

===============================================================================
