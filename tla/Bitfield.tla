------------------------------- MODULE Bitfield -------------------------------
(***************************************************************************)
(* Chunk ranges and bitfields: which chunks of a blob a store holds, the   *)
(* size it believes the blob to have, and how two such pieces of knowledge *)
(* are combined or subtracted (api/proto/bitfield.rs).                     *)
(*                                                                         *)
(* A ChunkRanges is the set of chunk numbers it contains.  A range set     *)
(* without an upper end contains every number up to MaxChunk, the model's  *)
(* u64::MAX; one that ends there does not contain MaxChunk.                *)
(***************************************************************************)
EXTENDS Integers

CONSTANTS MaxChunk,   \* u64::MAX as a chunk number
          ChunkSize   \* bytes in a chunk (1024)

ASSUME ChunkAssumption == MaxChunk \in Nat \ {0} /\ ChunkSize \in Nat \ {0}

ChunkNum == 0..MaxChunk
AllRanges == ChunkNum
ChunkRanges == SUBSET ChunkNum

\* The open-ended range n.. .
From(n) == n..MaxChunk

\* ChunkRanges::last_chunk: the range u64::MAX.., which every blob answers
\* with its last chunk and so with a proof of its size.
LastChunk == From(MaxChunk)

\* ChunkNum::chunks: how many chunks a blob of that size has.
Chunks(size) == (size + ChunkSize - 1) \div ChunkSize

\* Sizes are u64, so chunk numbers never run out before the bytes do.
BlobSize == {n \in Nat : Chunks(n) <= MaxChunk}

BitfieldType == [ranges : ChunkRanges, size : BlobSize]

\* Bitfield::empty.
EmptyBitfield == [ranges |-> {}, size |-> 0]

\* Bitfield::complete.
CompleteBitfield(size) == [ranges |-> AllRanges, size |-> size]

\* The last chunk is there, so the size is proved.
IsValidated(b) ==
  IF b.size # 0 THEN Chunks(b.size) - 1 \in b.ranges ELSE b.ranges = AllRanges

\* Every chunk below the size is there.
IsComplete(b) ==
  IF b.size # 0 THEN 0 .. Chunks(b.size) - 1 \subseteq b.ranges
                ELSE b.ranges = AllRanges

\* The size if it is proved: a set of at most one number.
ValidatedSize(b) == IF IsValidated(b) THEN {b.size} ELSE {}

\* BitfieldState: what update compares to tell a major from a minor change.
BitfieldState(b) == [complete |-> IsComplete(b), validated |-> ValidatedSize(b)]

\* Bitfield::new: a complete bitfield holds every chunk number, a validated
\* one every chunk number past the end.
NewBitfield(ranges, size) ==
  [ranges |-> IF size = 0 THEN ranges
              ELSE IF 0 .. Chunks(size) - 1 \subseteq ranges THEN AllRanges
              ELSE IF Chunks(size) - 1 \in ranges
                THEN ranges \cup From(Chunks(size))
              ELSE ranges,
   size   |-> size]

\* upper_bound, compared: the first ranges end before the second do.  Ranges
\* without an end are last, empty ones first.
EndsBefore(r, s) == \E c \in s : \A d \in r : d < c

Larger(m, n) == IF m < n THEN n ELSE m

\* choose_size: the size that came with the higher chunks wins.
ChooseSize(a, b) ==
  IF EndsBefore(a.ranges, b.ranges) THEN b.size
  ELSE IF EndsBefore(b.ranges, a.ranges) THEN a.size
  ELSE Larger(a.size, b.size)

\* Combine::combine.
Combine(a, b) == NewBitfield(a.ranges \cup b.ranges, ChooseSize(a, b))

\* Faulty Diff: only what the first bitfield has and the second has not.
FaultyDiffWrongWay(a, b) ==
  [ranges |-> a.ranges \ b.ranges, size |-> ChooseSize(a, b)]

\* Bitfield::diff: the symmetric difference, as it stands.
Diff(a, b) ==
  [ranges |-> (a.ranges \ b.ranges) \cup (b.ranges \ a.ranges),
   size   |-> ChooseSize(a, b)]

\* Bitfield::is_empty.
IsEmptyBitfield(b) == b.ranges = {} /\ b.size = 0

\* Bitfield::update: the new value and whether, and how, it differs.
Update(b, u) ==
  LET new == Combine(b, u)
  IN [value  |-> new,
      result |-> IF new = b THEN "NoChange"
                 ELSE IF BitfieldState(new) = BitfieldState(b) THEN "MinorChange"
                 ELSE "MajorChange"]

===============================================================================
