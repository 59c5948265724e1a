------------------------------- MODULE MetaStore -------------------------------
(***************************************************************************)
(* What the metadata database promises its clients, without queues,        *)
(* batches or transactions: one current table that every answer reflects,  *)
(* a durable table that may lag behind it, and a crash that takes the      *)
(* current table back to the durable one.                                  *)
(***************************************************************************)
CONSTANTS Client, Row
VARIABLES cur,     \* the table that all handled commands have produced
          durable, \* what a restart would find
          answer   \* the last answer each client has got

vars == <<cur, durable, answer>>

Nothing == [kind |-> "none", table |-> {}]

Init ==
  /\ cur \subseteq Row
  /\ durable = cur
  /\ answer = [c \in Client |-> Nothing]

\* A write is visible at once; its client may be told before it is durable.
Write ==
  /\ cur' \subseteq Row
  /\ \/ UNCHANGED answer
     \/ \E c \in Client : answer' = [answer EXCEPT ![c] = [kind |-> "ok", table |-> {}]]
  /\ UNCHANGED durable

\* A read answers with rows of the current table, nothing older.
Read(c) ==
  /\ \E rows \in SUBSET cur :
       answer' = [answer EXCEPT ![c] = [kind |-> "rows", table |-> rows]]
  /\ UNCHANGED <<cur, durable>>

\* A snapshot is the whole current table, and all of it is durable.
Snapshot(c) ==
  /\ durable = cur
  /\ answer' = [answer EXCEPT ![c] = [kind |-> "snapshot", table |-> cur]]
  /\ UNCHANGED <<cur, durable>>

\* A client is told that the database is synced only when everything is durable.
Sync(c) ==
  /\ durable = cur
  /\ answer' = [answer EXCEPT ![c] = [kind |-> "synced", table |-> {}]]
  /\ UNCHANGED <<cur, durable>>

Persist ==
  /\ durable' = cur
  /\ UNCHANGED <<cur, answer>>

\* The writes since the last Persist are lost, all of them or none.
Crash ==
  /\ cur' = durable
  /\ answer' \in {answer, [c \in Client |-> Nothing]}
  /\ UNCHANGED durable

\* A client starts its next request.
Ask(c) ==
  /\ answer' = [answer EXCEPT ![c] = Nothing]
  /\ UNCHANGED <<cur, durable>>

Next ==
  \/ Write \/ Persist \/ Crash
  \/ \E c \in Client : Read(c) \/ Snapshot(c) \/ Sync(c) \/ Ask(c)

Spec == Init /\ [][Next]_vars
=============================================================================
