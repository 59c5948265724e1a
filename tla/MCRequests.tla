------------------------------ MODULE MCRequests ------------------------------
\* Requests for a hash sequence of two hashes, one per chunk: a blob of two
\* chunks, the second of them half full, and the empty blob.
EXTENDS Requests

MCChildren == <<"a", "empty">>
MCSizeOf == [a |-> 3, empty |-> 0]
MCRangeChoices == {{}, {0}, {1, 2}, AllRanges, LastChunk}

===============================================================================
