------------------------------ MODULE MCMemStore ------------------------------
\* One blob of three chunks, whose first two share a node, and the empty blob.
EXTENDS BlobReader, TLC

MCPathTo == [c \in 0..2 |-> IF c = 2 THEN {"root"} ELSE {"root", "left"}]

\* All of it; the two ends of it.
MCRequests == {<<0..2>>, <<{0}, {2}>>}

\* What is done at the same time.
MCScenarios ==
  {{"bao", "import", "delete"}, {"bao", "export"}, {"import", "export", "delete"},
   {"bao", "observe", "list", "wait", "shutdown"}, {"bao", "panic"},
   {"batch", "temp", "import"}, {"tags"},
   {"readonly", "serve", "list", "wait", "shutdown"}, {"readonly", "reader", "shutdown"},
   {"reader", "bao"}, {"reader", "import", "delete"}}

MCOffsets == {-1, 1}

\* A reader of a blob of which something arrives.
ReaderScenarios == {{"reader", "bao"}}

Symmetry == Permutations(Task) \cup Permutations(Slot)

===============================================================================
