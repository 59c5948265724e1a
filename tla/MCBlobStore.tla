------------------------------ MODULE MCBlobStore ------------------------------
\* What is done with one blob, and what may go wrong.
EXTENDS BlobStore

Scenario(ops, events) == [ops |-> ops, events |-> events]

\* Imports and a download, with crashes and write errors; a download, with
\* power failures.
Interrupted ==
  {Scenario({"import", "reference", "download"}, {"crash", "io"}),
   Scenario({"download"}, {"power"})}

\* An import and an export next to a collector.
Collected == {Scenario({"import", "export", "delete"}, {})}

\* An import next to a collector.
Race == {Scenario({"import", "delete"}, {})}

===============================================================================
