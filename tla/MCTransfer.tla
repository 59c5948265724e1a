------------------------------ MODULE MCTransfer ------------------------------
\* Transfers of a hash sequence of three: a blob of two chunks, the empty
\* blob and a blob of one chunk.
EXTENDS Transfer

MCChildren == <<"a", "empty", "b">>
MCSizeOf == [a |-> 3, empty |-> 0, b |-> 1]

Request(kind, ranges) == [Probing("store", ranges) EXCEPT !.kind = kind]
Many(hashes, ranges) == [Request("get_many", ranges) EXCEPT !.hashes = hashes]
Big(request) == [request EXCEPT !.big = TRUE]

\* Requests that look at the provider only.
Probes ==
  {GetBlob, GetUnverifiedSize, GetVerifiedSize, GetChunkProbe(1),
   GetHashSeqAndSizes(3), GetHashSeqAndSizes(2)}

\* Everything, the root alone, sizes, one child, children without the root,
\* nothing; several blobs in one request with one left out; requests that are
\* too long; a random chunk of a child.
MCRequests ==
  {Request(kind, ranges) : kind \in {"get", "push"},
     ranges \in {AllSeq, RootSeq, << <<1, {1}>>, <<2, {}>> >>,
                 << <<0, {0}>>, <<3, AllRanges>> >>}}
  \cup {Request("get", EmptySeq), Request("get", VerifiedChildSizesSeq),
        Many(<<"b", "a", "b">>, << <<0, AllRanges>>, <<1, {}>>, <<2, LastChunk>> >>),
        Many(<<"a", "b">>, AllSeq),
        Big(Request("get", AllSeq)), Big(Request("push", AllSeq)), Big(Many(<<"a">>, AllSeq))}
  \cup {Request("get", ranges) : ranges \in RandomHashSeqRanges(<<3, 0, 1>>)}
  \cup Probes

Store(entries, chunks) ==
  [h \in Blobs |-> [entry |-> h \in entries, sized |-> TRUE,
                    chunks |-> IF h \in DOMAIN chunks THEN chunks[h] ELSE ChunksOf(h)]]

\* Everything; a child missing or in part; no hash sequence.
MCSources ==
  {Store(Blobs, <<>>), Store(Blobs \ {"a"}, <<>>),
   Store(Blobs, [a |-> {0}]), Store({"a", "b"}, [root |-> {}])}

\* Only hash pairs of a child have arrived, its size is not known.
UnsizedSources ==
  {[Store(Blobs, [a |-> {}]) EXCEPT !["a"].sized = FALSE]}

MCTargets == {[h \in Blobs |-> {}], [h \in Blobs |-> IF h = Root THEN ChunksOf(h) ELSE {}]}

===============================================================================
