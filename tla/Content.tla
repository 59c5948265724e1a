-------------------------------- MODULE Content --------------------------------
(***************************************************************************)
(* The blobs requests are about: a hash sequence Root, whose content are   *)
(* the hashes of Children, and what a request selects of a blob.           *)
(***************************************************************************)
EXTENDS RangeSpec

CONSTANTS Root,         \* the hash of the hash sequence
          Children,     \* its hashes, in order
          SizeOf,       \* the size of every child
          HashSize      \* bytes of a hash (32)

NumChildren == Len(Children)
Blobs == {Root} \cup Range(Children)
BlobSizeOf(h) == IF h = Root THEN NumChildren * HashSize ELSE SizeOf[h]
ChunksOf(h) == 0 .. Chunks(BlobSizeOf(h)) - 1

\* HashSeq::get: the hash at a position.
ChildHash(i) == Children[i + 1]

\* The blobs of a request, root and children, of which something is asked.
Items(req) == IterNonEmptyInfinite(req)

\* The chunks that some ranges of a blob select: those in it, and the last
\* one for ranges past the end.
Selected(h, ranges) ==
  (ranges \cap ChunksOf(h)) \cup
    (IF ranges \ ChunksOf(h) # {} THEN {Chunks(BlobSizeOf(h)) - 1} ELSE {})

===============================================================================
