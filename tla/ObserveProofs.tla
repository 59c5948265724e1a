----------------------------- MODULE ObserveProofs -----------------------------
(***************************************************************************)
(* Bitfields as a lattice, for every chunk size and every width of chunk   *)
(* numbers, and the observer's bitfield for every blob, every sequence of  *)
(* leaves and every channel capacity.                                      *)
(***************************************************************************)
EXTENDS Observe, TLAPS

-------------------------------------------------------------------------------
(* combine *)

\* Two range sets never end before each other.
LEMMA EndsBeforeAsymmetric ==
  ASSUME NEW r \in ChunkRanges, NEW s \in ChunkRanges
  PROVE  ~(EndsBefore(r, s) /\ EndsBefore(s, r))
BY SMT DEF EndsBefore, ChunkRanges, ChunkNum

\* The size of a combination does not depend on the order.
LEMMA ChooseSizeCommutes ==
  ASSUME NEW a \in BitfieldType, NEW b \in BitfieldType
  PROVE  ChooseSize(a, b) = ChooseSize(b, a)
<1>1. a.ranges \in ChunkRanges /\ b.ranges \in ChunkRanges
  BY Zenon DEF BitfieldType
<1>2. a.size \in Nat /\ b.size \in Nat
  BY Zenon DEF BitfieldType, BlobSize
<1>3. ~(EndsBefore(a.ranges, b.ranges) /\ EndsBefore(b.ranges, a.ranges))
  BY <1>1, EndsBeforeAsymmetric, Zenon
<1>4. Larger(a.size, b.size) = Larger(b.size, a.size)
  BY <1>2 DEF Larger
<1> QED
  BY <1>3, <1>4, Zenon DEF ChooseSize

\* The size of a combination is one of the two.
LEMMA ChooseSizeType ==
  ASSUME NEW a \in BitfieldType, NEW b \in BitfieldType
  PROVE  ChooseSize(a, b) \in {a.size, b.size} /\ ChooseSize(a, b) \in BlobSize
BY Zenon DEF BitfieldType, ChooseSize, Larger

\* Chunk counts are numbers; a blob that is not empty has a chunk.
LEMMA ChunksType ==
  ASSUME NEW n \in BlobSize
  PROVE  Chunks(n) \in 0..MaxChunk /\ (n # 0 => Chunks(n) >= 1)
<1>1. n \in Nat /\ Chunks(n) <= MaxChunk /\ MaxChunk \in Nat
  BY ChunkAssumption, Zenon DEF BlobSize
<1>2. ChunkSize \in Nat /\ ChunkSize >= 1
  BY ChunkAssumption
<1>3. n + ChunkSize - 1 \in Nat
  BY <1>1, <1>2
<1>4. (n + ChunkSize - 1) \div ChunkSize \in Nat
  BY <1>2, <1>3
<1>5. n # 0 => (n + ChunkSize - 1) \div ChunkSize >= 1
  BY <1>1, <1>2
<1> QED
  BY <1>1, <1>4, <1>5 DEF Chunks

\* combine gives the same bitfield in either order, so the order in which
\* two imports of one blob report their chunks cannot matter
\* (test_combine_order, for all bitfields).
THEOREM CombineCommutes ==
  ASSUME NEW a \in BitfieldType, NEW b \in BitfieldType
  PROVE  Combine(a, b) = Combine(b, a)
<1>1. a.ranges \cup b.ranges = b.ranges \cup a.ranges
  BY Zenon
<1>2. ChooseSize(a, b) = ChooseSize(b, a)
  BY ChooseSizeCommutes, Zenon
<1> QED
  BY <1>1, <1>2, Zenon DEF Combine

\* Combined bitfields are bitfields, and hold at least what each side held.
LEMMA CombineType ==
  ASSUME NEW a \in BitfieldType, NEW b \in BitfieldType
  PROVE  /\ Combine(a, b) \in BitfieldType
         /\ a.ranges \cup b.ranges \subseteq Combine(a, b).ranges
         /\ Combine(a, b).size = ChooseSize(a, b)
<1>1. a.ranges \in SUBSET ChunkNum /\ b.ranges \in SUBSET ChunkNum
  BY Zenon DEF BitfieldType, ChunkRanges
<1>2. ChooseSize(a, b) \in BlobSize
  BY ChooseSizeType, Zenon
<1>3. From(Chunks(ChooseSize(a, b))) \subseteq ChunkNum
  BY <1>2, ChunksType, ChunkAssumption DEF From, ChunkNum
<1> QED
  BY <1>1, <1>2, <1>3, Zenon
  DEF Combine, NewBitfield, BitfieldType, ChunkRanges, AllRanges

\* A complete blob stays complete, whatever an update says about its ranges
\* or its size: no import can take chunks away (Bitfield::update).
THEOREM CompleteStays ==
  ASSUME NEW a \in BitfieldType, NEW b \in BitfieldType,
         a.ranges = AllRanges
  PROVE  IsComplete(Combine(a, b)) /\ Combine(a, b).ranges = AllRanges
<1>1. Combine(a, b) \in BitfieldType /\ a.ranges \subseteq Combine(a, b).ranges
  BY CombineType, Zenon
<1>2. Combine(a, b).ranges = AllRanges
  BY <1>1, Zenon DEF BitfieldType, ChunkRanges, AllRanges
<1>3. 0 .. Chunks(Combine(a, b).size) - 1 \subseteq AllRanges
  <2>1. Combine(a, b).size \in BlobSize
    BY <1>1, Zenon DEF BitfieldType
  <2> QED
    BY <2>1, ChunksType, ChunkAssumption DEF AllRanges, ChunkNum
<1> QED
  BY <1>2, <1>3, Zenon DEF IsComplete

-------------------------------------------------------------------------------
(* diff *)

\* The empty bitfield is one, and changes no canonical bitfield.
LEMMA EmptyNeutral ==
  ASSUME NEW b \in BitfieldType, Canonical(b)
  PROVE  /\ EmptyBitfield \in BitfieldType
         /\ Combine(EmptyBitfield, b) = b
         /\ Diff(EmptyBitfield, b) = b
<1>1. 0 \in BlobSize
  <2>1. Chunks(0) = 0
    <3>1. (0 + ChunkSize - 1) \div ChunkSize = 0
      BY ChunkAssumption
    <3> QED
      BY <3>1, Zenon DEF Chunks
  <2> QED
    BY <2>1, ChunkAssumption DEF BlobSize
<1>2. EmptyBitfield \in BitfieldType
  BY <1>1, Zenon DEF EmptyBitfield, BitfieldType, ChunkRanges
<1>3. ChooseSize(EmptyBitfield, b) = b.size
  <2>1. ~EndsBefore(b.ranges, {})
    BY Zenon DEF EndsBefore
  <2>2. b.size \in Nat
    BY Zenon DEF BitfieldType, BlobSize
  <2>3. Larger(0, b.size) = b.size
    BY <2>2 DEF Larger
  <2> QED
    BY <2>1, <2>3, Zenon DEF ChooseSize, EmptyBitfield
<1>4. b = [ranges |-> b.ranges, size |-> b.size]
  BY Zenon DEF BitfieldType
<1>5. NewBitfield(b.ranges, b.size) = b
  <2>1. CASE b = EmptyBitfield
    BY <2>1, Zenon DEF EmptyBitfield, NewBitfield
  <2>2. CASE b.size = Size /\ b = NewBitfield(b.ranges, Size)
    BY <2>2, Zenon
  <2> QED
    BY <2>1, <2>2, Zenon DEF Canonical
<1>6. Combine(EmptyBitfield, b) = b
  <2>1. {} \cup b.ranges = b.ranges
    BY Zenon
  <2> QED
    BY <2>1, <1>3, <1>5, Zenon DEF Combine, EmptyBitfield
<1>7. Diff(EmptyBitfield, b) = b
  <2>1. ({} \ b.ranges) \cup (b.ranges \ {}) = b.ranges
    BY Zenon
  <2> QED
    BY <2>1, <1>3, <1>4, Zenon DEF Diff, EmptyBitfield
<1> QED
  BY <1>2, <1>6, <1>7, Zenon

\* A difference is a bitfield.
LEMMA DiffType ==
  ASSUME NEW a \in BitfieldType, NEW b \in BitfieldType
  PROVE  Diff(a, b) \in BitfieldType
<1>1. ChooseSize(a, b) \in BlobSize
  BY ChooseSizeType, Zenon
<1> QED
  BY <1>1, Zenon DEF Diff, BitfieldType, ChunkRanges

\* diff undoes combine: when the store went from one value to a later one,
\* the difference of the two, combined with the first, gives the second.
THEOREM DiffRebuilds ==
  ASSUME NEW a \in BitfieldType, NEW b \in BitfieldType,
         Canonical(a), Canonical(b), Within(a, b)
  PROVE  Combine(a, Diff(a, b)) = b
<1>1. CASE a = EmptyBitfield
  <2>1. Diff(EmptyBitfield, b) = b /\ Combine(EmptyBitfield, b) = b
    BY EmptyNeutral, Zenon
  <2> QED
    BY <1>1, <2>1, Zenon
<1>2. CASE a.size = Size
  <2>1. b.size = Size /\ b = NewBitfield(b.ranges, Size)
    BY <1>2, SizeAssumption DEF Canonical, Within, EmptyBitfield
  <2>2. ChooseSize(a, b) = Size
    BY <1>2, <2>1, ChooseSizeType, Zenon
  <2>3. Diff(a, b) \in BitfieldType /\ Diff(a, b).size = Size
    BY <2>2, DiffType, Zenon DEF Diff
  <2>4. ChooseSize(a, Diff(a, b)) = Size
    BY <1>2, <2>3, ChooseSizeType, Zenon
  <2>5. a.ranges \cup Diff(a, b).ranges = b.ranges
    BY Zenon DEF Diff, Within
  <2> QED
    BY <2>1, <2>4, <2>5, Zenon DEF Combine
<1> QED
  BY <1>1, <1>2, Zenon DEF Canonical

\* What the store holds after an update of the blob's size is canonical
\* again, and at least what it held before.
LEMMA UpdateCanonical ==
  ASSUME NEW a \in BitfieldType, Canonical(a),
         NEW u \in BitfieldType, u.size = Size
  PROVE  Canonical(Combine(a, u)) /\ Within(a, Combine(a, u))
<1>1. ChooseSize(a, u) = Size
  <2>1. CASE a = EmptyBitfield
    <3>1. ~EndsBefore(u.ranges, {})
      BY Zenon DEF EndsBefore
    <3>2. Larger(0, Size) = Size
      BY SizeAssumption DEF Larger, BlobSize
    <3> QED
      BY <2>1, <3>1, <3>2, Zenon DEF ChooseSize, EmptyBitfield
  <2>2. CASE a.size = Size
    BY <2>2, ChooseSizeType, Zenon
  <2> QED
    BY <2>1, <2>2, Zenon DEF Canonical
<1>2. Size # 0 /\ Size \in BlobSize
  BY SizeAssumption, Zenon
<1>3. Combine(a, u).size = Size /\ a.ranges \subseteq Combine(a, u).ranges
  BY <1>1, CombineType, Zenon
<1>4. 0 .. Chunks(Size) - 1 \subseteq AllRanges
  BY <1>2, ChunksType, ChunkAssumption DEF AllRanges, ChunkNum
<1>5. \A r \in ChunkRanges :
        NewBitfield(NewBitfield(r, Size).ranges, Size) = NewBitfield(r, Size)
  <2>1. TAKE r \in ChunkRanges
  <2>2. CASE 0 .. Chunks(Size) - 1 \subseteq r
    BY <1>2, <1>4, <2>2, Zenon DEF NewBitfield
  <2>3. CASE ~(0 .. Chunks(Size) - 1 \subseteq r) /\ Chunks(Size) - 1 \in r
    <3>1. NewBitfield(r, Size).ranges = r \cup From(Chunks(Size))
      BY <1>2, <2>3, Zenon DEF NewBitfield
    <3>2. PICK c \in 0 .. Chunks(Size) - 1 : c \notin r
      BY <2>3, Zenon
    <3>3. c \notin From(Chunks(Size))
      BY <1>2, <3>2, ChunksType DEF From
    <3>4. ~(0 .. Chunks(Size) - 1 \subseteq r \cup From(Chunks(Size)))
      BY <3>2, <3>3, Zenon
    <3>5. (r \cup From(Chunks(Size))) \cup From(Chunks(Size))
             = r \cup From(Chunks(Size))
      BY Zenon
    <3> QED
      BY <1>2, <2>3, <3>1, <3>4, <3>5, Zenon DEF NewBitfield
  <2>4. CASE Chunks(Size) - 1 \notin r /\ ~(0 .. Chunks(Size) - 1 \subseteq r)
    BY <1>2, <2>4, Zenon DEF NewBitfield
  <2> QED
    BY <2>2, <2>3, <2>4, Zenon
<1>6. a.ranges \cup u.ranges \in ChunkRanges
  BY Zenon DEF BitfieldType, ChunkRanges
<1>7. Combine(a, u) = NewBitfield(a.ranges \cup u.ranges, Size)
  BY <1>1, Zenon DEF Combine
<1>8. Canonical(Combine(a, u))
  BY <1>3, <1>5, <1>6, <1>7, Zenon DEF Canonical
<1> QED
  BY <1>2, <1>3, <1>8, Zenon DEF Within

-------------------------------------------------------------------------------
(* The pipeline *)

\* A leaf's own bitfield has the blob's size; a complete one is canonical.
LEMMA Imported ==
  /\ \A leaf \in Leaves : /\ NewBitfield(leaf, Size) \in BitfieldType
                          /\ NewBitfield(leaf, Size).size = Size
  /\ CompleteBitfield(Size) \in BitfieldType
  /\ Canonical(CompleteBitfield(Size))
  /\ \A b \in BitfieldType : Within(b, CompleteBitfield(Size))
<1>1. Size # 0 /\ Size \in BlobSize
  BY SizeAssumption, Zenon
<1>2. Chunks(Size) \in 0..MaxChunk /\ MaxChunk \in Nat
  BY <1>1, ChunksType, ChunkAssumption, Zenon
<1>3. From(Chunks(Size)) \subseteq ChunkNum /\ 0 .. Chunks(Size) - 1 \subseteq ChunkNum
  BY <1>2 DEF From, ChunkNum
<1>4. \A leaf \in Leaves : leaf \in SUBSET ChunkNum
  BY <1>3, SizeAssumption, Zenon
<1>5. \A leaf \in Leaves : /\ NewBitfield(leaf, Size) \in BitfieldType
                          /\ NewBitfield(leaf, Size).size = Size
  BY <1>1, <1>3, <1>4, Zenon DEF NewBitfield, BitfieldType, ChunkRanges, AllRanges
<1>6. CompleteBitfield(Size) \in BitfieldType
  BY <1>1, Zenon DEF CompleteBitfield, BitfieldType, ChunkRanges, AllRanges
<1>7. Canonical(CompleteBitfield(Size))
  BY <1>1, <1>3, Zenon DEF Canonical, CompleteBitfield, NewBitfield, AllRanges
<1>8. \A b \in BitfieldType : Within(b, CompleteBitfield(Size))
  BY <1>1, Zenon DEF Within, CompleteBitfield, BitfieldType, ChunkRanges, AllRanges
<1> QED
  BY <1>5, <1>6, <1>7, <1>8, Zenon

\* Being within is transitive.
LEMMA WithinTransitive ==
  ASSUME NEW a, NEW b, NEW c, Within(a, b), Within(b, c)
  PROVE  Within(a, c)
BY Zenon DEF Within

\* Everything is within itself.
LEMMA WithinReflexive == ASSUME NEW a PROVE Within(a, a)
BY Zenon DEF Within

\* When only the stored value changes, and grows, the pipeline stays in order.
LEMMA StoredGrows ==
  ASSUME Pipeline, stored' \in BitfieldType, Canonical(stored'),
         Within(stored, stored'), changed' \in BOOLEAN,
         UNCHANGED <<forwarder, values, old, wire, seen, base, stopped>>
  PROVE  Pipeline'
<1>1. TypeOK'
  BY Zenon DEF Pipeline, TypeOK
<1>2. \A x : Within(x, stored) => Within(x, stored')
  BY WithinTransitive, Zenon
<1>3. /\ \A o \in old : Canonical(o) /\ Within(o, stored')
      /\ \A i \in 1..Len(values) : Within(values[i], stored')
  BY <1>2, Zenon DEF Pipeline
<1> QED
  BY <1>1, <1>3, Zenon DEF Pipeline

\* The current value may be added to the values on their way.
LEMMA ForwardKeeps ==
  ASSUME Pipeline, values' = Append(values, stored),
         changed' \in BOOLEAN, forwarder' \in {"start", "wait", "done"},
         UNCHANGED <<stored, old, wire, seen, base, stopped>>
  PROVE  Pipeline'
<1>1. TypeOK
  BY Zenon DEF Pipeline
<1>2. TypeOK'
  BY <1>1 DEF TypeOK
<1>3. /\ Len(values') = Len(values) + 1
      /\ values'[Len(values) + 1] = stored
      /\ \A i \in 1..Len(values) : values'[i] = values[i]
      /\ Len(values) \in Nat
  BY <1>1 DEF TypeOK
<1>4. Within(stored, stored)
  BY WithinReflexive, Zenon
<1>5. ASSUME NEW i \in 1..Len(values')
      PROVE  /\ Canonical(values'[i]) /\ Within(values'[i], stored)
             /\ \A o \in old : Within(o, values'[i])
             /\ \A j \in i..Len(values') : Within(values'[i], values'[j])
  <2>1. CASE i = Len(values) + 1
    BY <1>3, <1>4, <2>1 DEF Pipeline
  <2>2. CASE i \in 1..Len(values)
    <3>1. \A j \in i..Len(values) : Within(values'[i], values'[j])
      BY <1>3, <2>2 DEF Pipeline
    <3>2. Within(values'[i], values'[Len(values) + 1])
      BY <1>3, <2>2, Zenon DEF Pipeline
    <3> QED
      BY <1>3, <2>2, <3>1, <3>2 DEF Pipeline
  <2> QED
    BY <1>3, <2>1, <2>2
<1> QED
  BY <1>2, <1>5, Zenon DEF Pipeline

\* Taking the first value away keeps the rest in order.
LEMMA TailKeeps ==
  ASSUME Pipeline, values # <<>>
  PROVE  /\ Tail(values) \in Seq(BitfieldType)
         /\ Head(values) \in BitfieldType /\ Canonical(Head(values))
         /\ Within(Head(values), stored)
         /\ \A o \in old : Within(o, Head(values))
         /\ \A i \in 1..Len(Tail(values)) :
              /\ Canonical(Tail(values)[i]) /\ Within(Tail(values)[i], stored)
              /\ \A o \in old : Within(o, Tail(values)[i])
              /\ Within(Head(values), Tail(values)[i])
              /\ \A j \in i..Len(Tail(values)) :
                   Within(Tail(values)[i], Tail(values)[j])
<1>1. values \in Seq(BitfieldType)
  BY Zenon DEF Pipeline, TypeOK
<1>2. /\ Len(values) \in Nat /\ Len(values) >= 1
      /\ Head(values) = values[1] /\ Head(values) \in BitfieldType
      /\ Tail(values) \in Seq(BitfieldType)
      /\ Len(Tail(values)) = Len(values) - 1
      /\ \A i \in 1..Len(values) - 1 : Tail(values)[i] = values[i + 1]
  BY <1>1
<1>3. ASSUME NEW i \in 1..Len(Tail(values))
      PROVE  /\ Canonical(Tail(values)[i]) /\ Within(Tail(values)[i], stored)
             /\ \A o \in old : Within(o, Tail(values)[i])
             /\ Within(Head(values), Tail(values)[i])
             /\ \A j \in i..Len(Tail(values)) :
                  Within(Tail(values)[i], Tail(values)[j])
  <2>1. i \in 1..Len(values) - 1 /\ i + 1 \in 1..Len(values)
    BY <1>2
  <2>2. \A j \in i..Len(Tail(values)) : j + 1 \in (i + 1)..Len(values)
                                         /\ Tail(values)[j] = values[j + 1]
    BY <1>2, <2>1
  <2>3. \A j \in (i + 1)..Len(values) : Within(values[i + 1], values[j])
    BY <2>1, Zenon DEF Pipeline
  <2>4. Within(values[1], values[i + 1])
    BY <1>2, <2>1 DEF Pipeline
  <2> QED
    BY <1>2, <2>1, <2>2, <2>3, <2>4, Zenon DEF Pipeline
<1>4. 1 \in 1..Len(values)
  BY <1>2
<1> QED
  BY <1>2, <1>3, <1>4, Zenon DEF Pipeline

\* The pipeline is in order at the start.
LEMMA PipelineInit == Init => Pipeline
<1>1. SUFFICES ASSUME Init PROVE Pipeline
  BY Zenon
<1>2. EmptyBitfield \in BitfieldType
  <2>1. Canonical(CompleteBitfield(Size)) /\ CompleteBitfield(Size) \in BitfieldType
    BY Imported, Zenon
  <2> QED
    BY <2>1, EmptyNeutral, Zenon
<1>3. TypeOK
  <2>1. values \in Seq(BitfieldType) /\ wire \in Seq(Item) /\ old \in SUBSET BitfieldType
    BY <1>1 DEF Init
  <2>2. /\ stored \in BitfieldType /\ seen \in BitfieldType /\ base \in BitfieldType
        /\ changed \in BOOLEAN /\ stopped \in BOOLEAN
    BY <1>1, <1>2, Zenon DEF Init
  <2>3. forwarder \in {"start", "wait", "done"}
    BY <1>1, Zenon DEF Init
  <2> QED
    BY <2>1, <2>2, <2>3, Zenon DEF TypeOK
<1> QED
  BY <1>1, <1>3 DEF Init, Pipeline, Canonical

\* An item that leads on from the last one may be added to the stream.
LEMMA SendKeeps ==
  ASSUME Pipeline, ~stopped,
         NEW b \in BitfieldType, NEW value \in BitfieldType, Canonical(value),
         Combine(IF wire = <<>> THEN base ELSE wire[Len(wire)].value, b) = value,
         Send(b, value)
  PROVE  /\ wire' \in Seq(Item) /\ wire' # <<>>
         /\ wire'[Len(wire')].value = value
         /\ \A i \in 1..Len(wire') :
              /\ Canonical(wire'[i].value)
              /\ Combine(IF i = 1 THEN base ELSE wire'[i - 1].value,
                         wire'[i].item) = wire'[i].value
<1>1. wire \in Seq(Item) /\ [item |-> b, value |-> value] \in Item
  BY Zenon DEF Pipeline, TypeOK, Item
<1>2. /\ wire' \in Seq(Item) /\ wire' # <<>>
      /\ Len(wire') = Len(wire) + 1 /\ Len(wire) \in Nat
      /\ wire'[Len(wire) + 1] = [item |-> b, value |-> value]
      /\ \A i \in 1..Len(wire) : wire'[i] = wire[i]
      /\ wire = <<>> <=> Len(wire) = 0
  BY <1>1 DEF Send
<1>3. ASSUME NEW i \in 1..Len(wire')
      PROVE  /\ Canonical(wire'[i].value)
             /\ Combine(IF i = 1 THEN base ELSE wire'[i - 1].value,
                        wire'[i].item) = wire'[i].value
  <2>1. CASE i \in 1..Len(wire)
    <3>1. i # 1 => i - 1 \in 1..Len(wire)
      BY <1>2, <2>1
    <3> QED
      BY <1>2, <2>1, <3>1, Zenon DEF Pipeline
  <2>2. CASE i = Len(wire) + 1
    <3>1. i # 1 => i - 1 \in 1..Len(wire) /\ i - 1 = Len(wire)
      BY <1>2, <2>2
    <3>2. (IF i = 1 THEN base ELSE wire'[i - 1].value)
            = IF wire = <<>> THEN base ELSE wire[Len(wire)].value
      BY <1>2, <2>2, <3>1
    <3> QED
      BY <1>2, <2>2, <3>2
  <2> QED
    BY <1>2, <2>1, <2>2
<1> QED
  BY <1>2, <1>3

\* Every step keeps the pipeline in order.
LEMMA PipelineStep == Pipeline /\ [Next]_vars => Pipeline'
<1> SUFFICES ASSUME Pipeline, [Next]_vars PROVE Pipeline'
  BY Zenon
<1>0. TypeOK
  BY Zenon DEF Pipeline
<1>1. ASSUME NEW leaf \in Leaves, WriteLeaf(leaf) PROVE Pipeline'
  <2>1. NewBitfield(leaf, Size) \in BitfieldType /\ NewBitfield(leaf, Size).size = Size
    BY Imported, Zenon
  <2>2. stored' = Combine(stored, NewBitfield(leaf, Size)) /\ changed' \in BOOLEAN
    BY <1>0, <1>1, Zenon DEF WriteLeaf, Update, TypeOK
  <2>3. stored' \in BitfieldType
    BY <1>0, <2>1, <2>2, CombineType, Zenon DEF TypeOK
  <2>4. Canonical(stored') /\ Within(stored, stored')
    BY <1>0, <2>1, <2>2, UpdateCanonical, Zenon DEF TypeOK, Pipeline
  <2> QED
    BY <1>1, <2>2, <2>3, <2>4, StoredGrows, Zenon DEF WriteLeaf
<1>2. CASE CompleteEntry
  BY <1>0, <1>2, Imported, StoredGrows, Zenon DEF CompleteEntry, TypeOK
<1>3. CASE ForwardFirst
  BY <1>0, <1>3, ForwardKeeps, Zenon DEF ForwardFirst, TypeOK
<1>4. CASE ForwardChange
  BY <1>0, <1>4, ForwardKeeps, Zenon DEF ForwardChange, TypeOK
<1>5. CASE ForwardClosed
  BY <1>0, <1>5, Zenon DEF ForwardClosed, Pipeline, TypeOK
<1>6. CASE HandleFirst
  <2>1. Head(values) \in BitfieldType /\ Canonical(Head(values))
    BY <1>6, TailKeeps, Zenon DEF HandleFirst
  <2>2. wire = <<>> /\ base = EmptyBitfield
    BY <1>6, Zenon DEF HandleFirst, Pipeline
  <2>3. Combine(EmptyBitfield, Head(values)) = Head(values)
    BY <2>1, EmptyNeutral, Zenon
  <2>4. /\ wire' \in Seq(Item) /\ wire' # <<>>
        /\ wire'[Len(wire')].value = Head(values)
        /\ \A i \in 1..Len(wire') :
             /\ Canonical(wire'[i].value)
             /\ Combine(IF i = 1 THEN base ELSE wire'[i - 1].value,
                        wire'[i].item) = wire'[i].value
    BY <1>6, <2>1, <2>2, <2>3, SendKeeps, Zenon DEF HandleFirst
  <2>5. TypeOK'
    BY <1>0, <1>6, <2>1, <2>4, TailKeeps, Zenon DEF HandleFirst, TypeOK
  <2> QED
    BY <1>6, <2>1, <2>4, <2>5, TailKeeps, Zenon DEF HandleFirst, Pipeline
<1>7. CASE HandleNext
  <2>1. PICK prev \in old :
          IF IsEmptyBitfield(Diff(prev, Head(values)))
            THEN UNCHANGED <<wire, old>>
            ELSE Send(Diff(prev, Head(values)), Head(values)) /\ old' = {Head(values)}
    BY <1>7, Zenon DEF HandleNext
  <2>2. CASE UNCHANGED <<wire, old>>
    <3>1. TypeOK'
      BY <1>0, <1>7, <2>2, TailKeeps, Zenon DEF HandleNext, TypeOK
    <3> QED
      BY <1>7, <2>2, <3>1, TailKeeps, Zenon DEF HandleNext, Pipeline
  <2>3. CASE Send(Diff(prev, Head(values)), Head(values)) /\ old' = {Head(values)}
    <3>1. /\ Head(values) \in BitfieldType /\ Canonical(Head(values))
          /\ Within(prev, Head(values))
      BY <1>7, TailKeeps, Zenon DEF HandleNext
    <3>2. prev \in BitfieldType /\ Canonical(prev)
      BY <1>0, Zenon DEF Pipeline, TypeOK
    <3>3. Combine(prev, Diff(prev, Head(values))) = Head(values)
      BY <3>1, <3>2, DiffRebuilds, Zenon
    <3>4. prev = IF wire = <<>> THEN base ELSE wire[Len(wire)].value
      BY <1>7, Zenon DEF HandleNext, Pipeline
    <3>5. Diff(prev, Head(values)) \in BitfieldType
      BY <3>1, <3>2, DiffType, Zenon
    <3>6. /\ wire' \in Seq(Item) /\ wire' # <<>>
          /\ wire'[Len(wire')].value = Head(values)
          /\ \A i \in 1..Len(wire') :
               /\ Canonical(wire'[i].value)
               /\ Combine(IF i = 1 THEN base ELSE wire'[i - 1].value,
                          wire'[i].item) = wire'[i].value
      BY <1>7, <2>3, <3>1, <3>3, <3>4, <3>5, SendKeeps, Zenon DEF HandleNext
    <3>7. TypeOK'
      BY <1>0, <1>7, <2>3, <3>1, <3>6, TailKeeps, Zenon DEF HandleNext, TypeOK
    <3> QED
      BY <1>7, <2>3, <3>1, <3>6, <3>7, TailKeeps, Zenon DEF HandleNext, Pipeline
  <2> QED
    BY <2>1, <2>2, <2>3, Zenon
<1>8. CASE Receive
  <2>1. /\ Len(wire) \in Nat /\ Len(wire) >= 1
        /\ Head(wire) = wire[1] /\ Head(wire) \in Item
        /\ wire' \in Seq(Item)
        /\ Len(wire') = Len(wire) - 1
        /\ \A i \in 1..Len(wire) - 1 : wire'[i] = wire[i + 1]
    BY <1>0, <1>8 DEF Receive, TypeOK
  <2>2. Combine(seen, Head(wire).item) = Head(wire).value /\ Canonical(Head(wire).value)
    BY <2>1 DEF Pipeline
  <2>3. seen' = base' /\ Canonical(base') /\ base' \in BitfieldType
    BY <1>8, <2>1, <2>2, Zenon DEF Receive, Item
  <2>4. TypeOK'
    BY <1>0, <1>8, <2>1, <2>3, Zenon DEF Receive, TypeOK
  <2>5. ASSUME NEW i \in 1..Len(wire')
        PROVE  /\ Canonical(wire'[i].value)
               /\ Combine(IF i = 1 THEN base' ELSE wire'[i - 1].value,
                          wire'[i].item) = wire'[i].value
    <3>1. /\ wire'[i] = wire[i + 1] /\ i + 1 \in 1..Len(wire) /\ i + 1 # 1
          /\ (i + 1) - 1 = i
      BY <2>1
    <3>2. i # 1 => wire'[i - 1] = wire[i] /\ i - 1 \in 1..Len(wire) - 1
      BY <2>1
    <3>3. i = 1 => base' = wire[1].value
      BY <1>8, <2>1, Zenon DEF Receive
    <3>4. /\ Canonical(wire[i + 1].value)
          /\ Combine(wire[i].value, wire[i + 1].item) = wire[i + 1].value
      BY <3>1, Zenon DEF Pipeline
    <3> QED
      BY <3>1, <3>2, <3>3, <3>4, Zenon
  <2>6. \A o \in old : o = IF wire' = <<>> THEN base' ELSE wire'[Len(wire')].value
    <3>1. \A o \in old : o = wire[Len(wire)].value
      BY <1>8, Zenon DEF Receive, Pipeline
    <3>2. CASE wire' = <<>>
      <4>1. Len(wire') = 0
        BY <3>2, Zenon
      <4>2. Len(wire) = 1
        BY <2>1, <4>1
      <4>3. base' = wire[1].value
        BY <1>8, <2>1, Zenon DEF Receive
      <4> QED
        BY <3>1, <3>2, <4>2, <4>3, Zenon
    <3>3. CASE wire' # <<>>
      <4>1. Len(wire') \in 1..Len(wire) - 1
        BY <2>1, <3>3
      <4> QED
        BY <2>1, <3>1, <3>3, <4>1
    <3> QED
      BY <3>2, <3>3, Zenon
  <2>7. old # {}
    BY <1>8, Zenon DEF Receive, Pipeline
  <2> QED
    BY <1>8, <2>3, <2>4, <2>5, <2>6, <2>7, Zenon DEF Receive, Pipeline
<1>9. CASE Stop
  <2>1. TypeOK'
    BY <1>0, <1>9 DEF Stop, TypeOK
  <2> QED
    BY <1>9, <2>1 DEF Stop, Pipeline
<1>10. CASE UNCHANGED vars
  BY <1>0, <1>10, Zenon DEF vars, Pipeline, TypeOK
<1> QED
  BY <1>1, <1>2, <1>3, <1>4, <1>5, <1>6, <1>7, <1>8, <1>9, <1>10, Zenon DEF Next

\* Whatever the blob, the leaves and the channel capacities, an observer that
\* combines what it reads holds exactly a value the store had.
THEOREM ObserverExact == Spec => []SeenIsStored
<1>1. Pipeline => SeenIsStored
  BY Zenon DEF Pipeline, SeenIsStored
<1> QED
  BY <1>1, PipelineInit, PipelineStep, PTL DEF Spec

===============================================================================
