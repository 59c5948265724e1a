------------------------------ MODULE TempTags ------------------------------
(***************************************************************************)
(* Temp tags (src/util/temp_tag.rs) and the commands of the store actor    *)
(* that create them and end their scopes (src/store/fs.rs).                *)
(*                                                                         *)
(* A TempTag points, weakly, to the TempTagScope object that counts it.    *)
(* The object of scope s is named by the pair <<s, g>>: a scope that is    *)
(* used again after it has ended gets a new object, the next g.  A counter *)
(* that is 0 stands for a key the map does not have: dec removes a key     *)
(* when both its counters are 0.                                           *)
(***************************************************************************)
EXTENDS Naturals, FiniteSets

CONSTANTS
    Hash,
    Batch,    \* scopes made by Command::Batch
    Global,   \* Scope::GLOBAL
    Slot,     \* TempTag values in existence at the same time (a bound)
    MaxGen,   \* objects a scope may get (a bound)
    NoTag

Format == {"raw", "hash_seq"}
HashAndFormat == Hash \X Format
Scope == Batch \cup {Global}
Object == Scope \X (1..MaxGen)

ASSUME GlobalAssumption == Global \notin Batch
ASSUME SlotAssumption == IsFiniteSet(Slot) /\ MaxGen \in Nat \ {0}

VARIABLES
    scopes,   \* TempTags::scopes: the current object of each scope, 0 for none
    gens,     \* objects each scope has had
    counters, \* the TempCounterMap of each object
    batch,    \* where each batch is
    tt        \* the TempTags in existence

ttVars == <<scopes, gens, counters, batch, tt>>

Zero == [v \in HashAndFormat |-> 0]

TempTag(s, g, v, owner, imported) ==
    [scope |-> s, gen |-> g, value |-> v, owner |-> owner, imported |-> imported]

ASSUME NoTagAssumption ==
    \A s \in Scope, g \in 1..MaxGen, v \in HashAndFormat,
       owner \in {"import", "user", "leaked"}, imported \in BOOLEAN :
        TempTag(s, g, v, owner, imported) # NoTag

TTInit ==
    /\ scopes = [s \in Scope |-> 0]
    /\ gens = [s \in Scope |-> 0]
    /\ counters = [o \in Object |-> Zero]
    /\ batch = [b \in Batch |-> "none"]
    /\ tt = [t \in Slot |-> NoTag]

-----------------------------------------------------------------------------
(* TempTags and TempTagScope *)

\* The object entry(s).or_default() finds or makes.
ObjectOf(s) == IF scopes[s] # 0 THEN scopes[s] ELSE gens[s] + 1

\* TempTags::create.  A client knows a batch's scope once it exists, and a
\* request of it may arrive after the batch is closed.
Create(t, s, v, owner, imported) ==
    LET g == ObjectOf(s) IN
    /\ tt[t] = NoTag
    /\ s \in Batch => batch[s] # "none"
    /\ g <= MaxGen
    /\ scopes' = [scopes EXCEPT ![s] = g]
    /\ gens' = [gens EXCEPT ![s] = g]
    /\ counters' = [counters EXCEPT ![<<s, g>>][v] = @ + 1]
    /\ tt' = [tt EXCEPT ![t] = TempTag(s, g, v, owner, imported)]
    /\ UNCHANGED batch

\* Faulty Dec: a key is removed as soon as its raw counter is 0.
DecDropsKey(m, v) ==
    LET n == [m EXCEPT ![v] = IF @ > 0 THEN @ - 1 ELSE 0]
    IN  IF n[<<v[1], "raw">>] = 0 THEN [n EXCEPT ![<<v[1], "hash_seq">>] = 0] ELSE n

\* TempCounterMap::dec, saturating.
Dec(m, v) == [m EXCEPT ![v] = IF @ > 0 THEN @ - 1 ELSE 0]

\* Drop for TempTag: counts down if the weak pointer can still be upgraded.
\* (The task of a batch holds its object a little longer than the map does,
\* but nobody reads the counters of such an object.)
Release(t) ==
    LET s == tt[t].scope
        g == tt[t].gen
    IN
    /\ tt' = [tt EXCEPT ![t] = NoTag]
    /\ counters' = IF scopes[s] = g
                   THEN [counters EXCEPT ![<<s, g>>] = Dec(@, tt[t].value)]
                   ELSE counters

\* TempTags::list
List ==
    {v \in HashAndFormat : \E s \in Scope :
        scopes[s] # 0 /\ counters[<<s, scopes[s]>>][v] > 0}

-----------------------------------------------------------------------------
(* Commands of the store actor *)

\* Command::CreateTempTag; over rpc the tag is leaked.
CreateTempTag(t, s, v, rpc) ==
    Create(t, s, v, IF rpc THEN "leaked" ELSE "user", FALSE)

\* InternalCommand::FinishImport: the tag is made before the entity's task starts.
FinishImport(t, s, v) == Create(t, s, v, "import", TRUE)

\* The end of finish_import: the tag goes to the client, and is leaked if the
\* client is remote.
ImportDone(t, rpc) ==
    /\ tt' = [tt EXCEPT ![t].owner = IF rpc THEN "leaked" ELSE "user"]
    /\ UNCHANGED <<scopes, gens, counters, batch>>

\* finish_import fails, its entity is busy or dead, or nobody waits for its
\* result: the tag is dropped.
ImportDrops(t) == Release(t) /\ UNCHANGED <<scopes, gens, batch>>

\* A client drops a TempTag.
UserDrops(t) ==
    /\ tt[t] # NoTag /\ tt[t].owner = "user"
    /\ Release(t)
    /\ UNCHANGED <<scopes, gens, batch>>

\* Command::Batch
CreateScope(b) ==
    /\ batch[b] = "none"
    /\ batch' = [batch EXCEPT ![b] = "open"]
    /\ scopes' = [scopes EXCEPT ![b] = 1]
    /\ gens' = [gens EXCEPT ![b] = 1]
    /\ UNCHANGED <<counters, tt>>

\* handle_batch_impl receives BatchResponse::Drop for a tag leaked to a remote client.
BatchDrop(b, t) ==
    /\ batch[b] = "open"
    /\ tt[t] # NoTag /\ tt[t].owner = "leaked" /\ tt[t].scope = b
    /\ Release(t)
    /\ UNCHANGED <<scopes, gens, batch>>

\* The client closes the batch; handle_batch sends ClearScope.
CloseBatch(b) ==
    /\ batch[b] = "open"
    /\ batch' = [batch EXCEPT ![b] = "closing"]
    /\ UNCHANGED <<scopes, gens, counters, tt>>

\* InternalCommand::ClearScope, TempTags::end_scope: the object goes away.
ClearScope(b) ==
    /\ batch[b] = "closing"
    /\ batch' = [batch EXCEPT ![b] = "ended"]
    /\ scopes' = [scopes EXCEPT ![b] = 0]
    /\ counters' = [counters EXCEPT ![<<b, scopes[b]>>] = Zero]
    /\ UNCHANGED <<gens, tt>>

ScopeStep ==
    \E b \in Batch :
        CreateScope(b) \/ CloseBatch(b) \/ ClearScope(b) \/ (\E t \in Slot : BatchDrop(b, t))

\* What a store does with its temp tags.
TTNext ==
    \/ ScopeStep
    \/ \E t \in Slot, s \in Scope, v \in HashAndFormat :
          FinishImport(t, s, v) \/ (\E rpc \in BOOLEAN : CreateTempTag(t, s, v, rpc))
    \/ \E t \in Slot :
          /\ tt[t] # NoTag /\ tt[t].owner = "import"
          /\ ImportDrops(t) \/ (\E rpc \in BOOLEAN : ImportDone(t, rpc))
    \/ \E t \in Slot : UserDrops(t)

TTSpec == TTInit /\ [][TTNext]_ttVars

-----------------------------------------------------------------------------
(* Properties *)

\* Types, and the bound on a counter that follows from the number of tags.
TTTypeOK ==
    /\ scopes \in [Scope -> 0..MaxGen]
    /\ gens \in [Scope -> 0..MaxGen]
    /\ counters \in [Object -> [HashAndFormat -> 0..Cardinality(Slot)]]
    /\ batch \in [Batch -> {"none", "open", "closing", "ended"}]
    /\ tt \in [Slot -> {NoTag} \cup
               [scope : Scope, gen : 1..MaxGen, value : HashAndFormat,
                owner : {"import", "user", "leaked"}, imported : BOOLEAN]]

\* list() returns exactly the values of the temp tags that are held or leaked
\* in the objects the map still has: no tag in use is forgotten because another
\* one for the same hash, in another format, scope or life of the scope, is
\* dropped, and none stays listed after its drop.
ListExact ==
    List = {v \in HashAndFormat : \E t \in Slot :
              tt[t] # NoTag /\ tt[t].value = v /\ scopes[tt[t].scope] = tt[t].gen}
=============================================================================
