--------------------------- MODULE MCEntityManager ---------------------------
(* Small instances of EntityManager for TLC. *)
EXTENDS EntityManager, TLC

=============================================================================
