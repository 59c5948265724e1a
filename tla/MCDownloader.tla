----------------------------- MODULE MCDownloader -----------------------------
\* A hash sequence of two blobs, of two chunks and of one; two providers that
\* have half of it each, or all of it and the beginning.
EXTENDS Downloader

MCChildren == <<"a", "b">>
MCSizeOf == [a |-> 3, b |-> 2]

Nothing == [h \in Blobs |-> {}]
Everything == [h \in Blobs |-> ChunksOf(h)]
FirstHalf == [Everything EXCEPT !["a"] = {0}, !["b"] = {}]
SecondHalf == [Everything EXCEPT !["a"] = {1}]
RootStart == [Nothing EXCEPT ![Root] = {0}, !["b"] = {0}]
MCOffers == {[p |-> FirstHalf, q |-> SecondHalf], [p |-> Everything, q |-> RootStart]}

Get(ranges, split) == [ranges |-> ranges, hashes |-> <<>>, split |-> split]
Many(hashes, ranges) == [ranges |-> ranges, hashes |-> hashes, split |-> FALSE]
MCDownloads ==
  {Get(AllSeq, FALSE), Get(AllSeq, TRUE), Get(RootSeq, FALSE),
   Get(FromRanges(<<{}, LastChunk>>), TRUE), Get(FromRanges(<<{}, LastChunk>>), FALSE),
   Many(<<"a", "a">>, FromRangesInfinite(<<{0}, AllRanges>>)),
   Many(<<"a", "b">>, FromRangesInfinite(<<AllRanges>>)),
   Many(<<"b", "b", "b">>, FromRanges(<<AllRanges>>))}

===============================================================================
