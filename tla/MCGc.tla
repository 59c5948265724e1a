-------------------------------- MODULE MCGc --------------------------------
(* Small instances of Gc for TLC. *)
EXTENDS Gc, TLC

CONSTANTS h1, h2

\* h2 is a sequence with the one member h1.
OneSeq == [h \in Hash |-> IF h = h2 THEN {h1} ELSE {}]

\* What clients tag: h1 is never tagged as a sequence, and h2 as a plain
\* blob only in AllValues.
Values == {<<h1, "raw">>, <<h2, "hash_seq">>}
AllValues == Values \cup {<<h2, "raw">>}

NoCallback == {{}}
KeepOne == {{}, {h1}}

Symmetry == Permutations(Slot)
=============================================================================
