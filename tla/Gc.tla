--------------------------------- MODULE Gc ---------------------------------
(***************************************************************************)
(* Garbage collection (src/store/fs/gc.rs) running against a store whose   *)
(* clients import blobs and create, move and drop tags and temp tags at    *)
(* any time.  Every call of the collector to the store is one step: the    *)
(* metadata actor and the store actor handle one command at a time.        *)
(*                                                                         *)
(* Blobs are content addressed, so what a blob says when it is read as a   *)
(* hash sequence is a constant, Links.                                     *)
(***************************************************************************)
EXTENDS TempTags

CONSTANTS
    Name,      \* names of persistent tags
    Value,     \* what clients tag: hashes and formats
    Remote,    \* whether clients are local (FALSE), remote (TRUE) or both
    NoValue,
    Links,     \* the hashes in each blob, read as a hash sequence
    BatchSize, \* 100 in gc_sweep_task
    Callbacks, \* sets of hashes the add_protected callback may add
    Events     \* which of "read_error", "abort", "gc_error" may happen

ASSUME LinksAssumption == Links \in [Hash -> SUBSET Hash]
ASSUME ValueAssumption == Value \subseteq HashAndFormat /\ Remote \subseteq BOOLEAN
ASSUME BatchSizeAssumption == BatchSize \in Nat \ {0}
ASSUME CallbacksAssumption == Callbacks \subseteq SUBSET Hash

VARIABLES
    tags,      \* the tags table
    blobs,     \* hashes in the blobs table
    protected, \* meta::Actor::protected
    stored,    \* temp tags of imports whose database update is done
    gc,        \* where the collector is
    live,      \* its set of live hashes
    extra,     \* what the add_protected callback put there
    roots,     \* roots collected and not yet traversed
    todo,      \* listed blobs the sweep has not come to
    steadyTag,  \* history: values tagged ever since this run started
    steadyTemp, \* history: values temp tagged ever since this run started
    readable,   \* history: blobs stored ever since this run started
    seen        \* history: roots collected in this run

dbVars   == <<tags, blobs, protected, stored>>
gcVars   == <<gc, live, extra, roots, todo>>
histVars == <<steadyTag, steadyTemp, readable, seen>>
vars == <<ttVars, dbVars, gcVars, histVars>>

TagValues == {tags[n] : n \in Name} \ {NoValue}

Init ==
    /\ TTInit
    /\ tags = [n \in Name |-> NoValue]
    /\ blobs = {} /\ protected = {} /\ stored = {}
    /\ gc = "sleep" /\ live = {} /\ extra = {} /\ roots = {} /\ todo = {}
    /\ steadyTag = {} /\ steadyTemp = {} /\ readable = {} /\ seen = {}

\* Every step brings the history up to date; a run lasts from the moment the
\* collector has cleared the protected set until the end of its sweep.
Since(old, now) ==
    IF gc' \in {"sleep", "clear", "dead"} THEN {} ELSE IF gc = "clear" THEN now ELSE old \cap now

History ==
    /\ steadyTag' = Since(steadyTag, TagValues')
    /\ steadyTemp' = Since(steadyTemp, List')
    /\ readable' = Since(readable, blobs')
    /\ seen' = IF gc = "tags" /\ gc' = "temp" THEN roots'
               ELSE IF gc = "temp" /\ gc' = "mark" THEN roots'
               ELSE Since(seen, seen)

-----------------------------------------------------------------------------
(* Clients *)

\* A client's step leaves the collector alone.
Quiet == UNCHANGED gcVars /\ History

\* CreateTempTag, Batch and ClearScope do not touch the database.
TempTagStep ==
    /\ \/ ScopeStep
       \/ \E t \in Slot, s \in Scope, v \in Value, rpc \in Remote :
             CreateTempTag(t, s, v, rpc)
       \/ \E t \in Slot : UserDrops(t)
    /\ UNCHANGED dbVars /\ Quiet

StartImport(t, s, v) ==
    /\ FinishImport(t, s, v)
    /\ UNCHANGED dbVars /\ Quiet

Importing(t) == tt[t] # NoTag /\ tt[t].owner = "import"

\* Faulty Update: handle_update does not protect the hash.
UpdateUnprotected(h) ==
    /\ blobs' = blobs \cup {h}
    /\ UNCHANGED protected

\* handle_update (or handle_set): the hash is in the table and protected.
Update(h) ==
    /\ blobs' = blobs \cup {h}
    /\ protected' = protected \cup {h}

\* finish_import_impl sends its update and waits for it.
ImportUpdates(t) ==
    /\ Importing(t) /\ t \notin stored
    /\ Update(tt[t].value[1])
    /\ stored' = stored \cup {t}
    /\ UNCHANGED <<ttVars, tags>> /\ Quiet

\* The import ends: the client gets the tag, or, also on an error before the
\* update, the tag is dropped.
ImportEnds(t) ==
    /\ Importing(t)
    /\ \/ t \in stored /\ \E rpc \in Remote : ImportDone(t, rpc)
       \/ ImportDrops(t)
    /\ stored' = stored \ {t}
    /\ UNCHANGED <<tags, blobs, protected>> /\ Quiet

\* import_bao completes a blob, without any tag.
Download(h) ==
    /\ Update(h)
    /\ UNCHANGED <<ttVars, tags, stored>> /\ Quiet

\* A client holds the result of an import of v.
HoldsImport(v) ==
    \E t \in Slot : /\ tt[t] # NoTag /\ tt[t].imported /\ tt[t].owner # "import"
                    /\ tt[t].value = v /\ scopes[tt[t].scope] = tt[t].gen

\* set_tag; create_tag is the case of a name that is not in use.
SetTag(n, v) ==
    /\ tags' = [tags EXCEPT ![n] = v]
    /\ UNCHANGED <<ttVars, blobs, protected, stored>> /\ Quiet

\* delete_tags of a range of names
DeleteTags(N) ==
    /\ tags' = [n \in Name |-> IF n \in N THEN NoValue ELSE tags[n]]
    /\ UNCHANGED <<ttVars, blobs, protected, stored>> /\ Quiet

\* rename_tag: removes the old name first, then inserts the new one.
RenameTag(from, to) ==
    /\ tags[from] # NoValue
    /\ tags' = [[tags EXCEPT ![from] = NoValue] EXCEPT ![to] = tags[from]]
    /\ UNCHANGED <<ttVars, blobs, protected, stored>> /\ Quiet

ClientStep ==
    \/ TempTagStep
    \/ \E t \in Slot, s \in Scope, v \in Value : StartImport(t, s, v)
    \/ \E t \in Slot : ImportUpdates(t) \/ ImportEnds(t)
    \/ \E h \in Hash : Download(h)
    \/ \E n \in Name, v \in Value : SetTag(n, v)
    \/ \E N \in (SUBSET Name) \ {{}} : DeleteTags(N)
    \/ \E from, to \in Name : RenameTag(from, to)

-----------------------------------------------------------------------------
(* The collector: one run of run_gc's loop *)

\* The collector's steps leave tags, temp tags and imports alone.
Idle == UNCHANGED <<ttVars, tags, stored>> /\ History

\* The interval is over; the callback, if any, adds hashes it wants to keep.
CallbackContinues(H) ==
    /\ gc = "sleep"
    /\ gc' = "clear" /\ live' = H /\ extra' = H
    /\ UNCHANGED <<blobs, protected, roots, todo>> /\ Idle

\* The callback returns Abort: the loop continues, and clears what it added.
CallbackAborts ==
    /\ "abort" \in Events
    /\ gc = "sleep"
    /\ UNCHANGED <<blobs, protected, gcVars>> /\ Idle

\* Faulty ClearProtected: also forgets what the callback added.
ClearProtectedAll ==
    /\ gc = "clear"
    /\ protected' = {}
    /\ live' = {}
    /\ gc' = "tags"
    /\ UNCHANGED <<blobs, extra, roots, todo>> /\ Idle

\* gc_run_once: store.clear_protected()
ClearProtected ==
    /\ gc = "clear"
    /\ protected' = {}
    /\ gc' = "tags"
    /\ UNCHANGED <<blobs, live, extra, roots, todo>> /\ Idle

\* gc_mark_task: the tags...
ListTags ==
    /\ gc = "tags"
    /\ roots' = TagValues
    /\ gc' = "temp"
    /\ UNCHANGED <<blobs, protected, live, extra, todo>> /\ Idle

\* ... and then the temp tags are roots.
ListTempTags ==
    /\ gc = "temp"
    /\ roots' = roots \cup List
    /\ gc' = "mark"
    /\ UNCHANGED <<blobs, protected, live, extra, todo>> /\ Idle

\* export_bao(h).hashes() can read the sequence: the blob is stored, or its
\* import is under way and its handle already complete.
MayRead(h) == h \in blobs \/ \E t \in Slot : Importing(t) /\ tt[t].value[1] = h

\* The read can fail, which the mark phase only warns about.
MayFail(h) == h \notin blobs \/ "read_error" \in Events

\* Faulty MarkRoot: only the blob itself is live, whatever the format.
MarkRootShallow(v) ==
    /\ gc = "mark" /\ v \in roots
    /\ roots' = roots \ {v}
    /\ live' = live \cup {v[1]}
    /\ UNCHANGED <<blobs, protected, gc, extra, todo>> /\ Idle

\* One root, in the order of a HashSet: live.insert(hash) decides whether a
\* sequence is traversed.
MarkRoot(v) ==
    /\ gc = "mark" /\ v \in roots
    /\ roots' = roots \ {v}
    /\ \/ /\ v[1] \in live \/ v[2] = "raw" \/ MayFail(v[1])
          /\ live' = live \cup {v[1]}
       \/ /\ v[1] \notin live /\ v[2] = "hash_seq" /\ MayRead(v[1])
          /\ live' = live \cup {v[1]} \cup Links[v[1]]
    /\ UNCHANGED <<blobs, protected, gc, extra, todo>> /\ Idle

\* gc_sweep_task lists the blobs of a snapshot taken now.
ListBlobs ==
    /\ gc = "mark" /\ roots = {}
    /\ todo' = blobs
    /\ gc' = "sweep"
    /\ UNCHANGED <<blobs, protected, live, extra, roots>> /\ Idle

\* A delete request for BatchSize blobs that are not live, or for the last
\* ones; meta::Actor::delete skips what is protected.
SweepBatch(D) ==
    /\ gc = "sweep"
    /\ D \subseteq todo \ live /\ D # {}
    /\ Cardinality(D) = BatchSize \/ (Cardinality(D) < BatchSize /\ D = todo \ live)
    /\ blobs' = blobs \ (D \ protected)
    /\ todo' = todo \ D
    /\ UNCHANGED <<protected, gc, live, extra, roots>> /\ Idle

\* Faulty SweepDone: the blobs of the last batch are not deleted.
SweepDoneDropsRest ==
    /\ gc = "sweep" /\ Cardinality(todo \ live) <= BatchSize
    /\ gc' = "sleep" /\ live' = {} /\ extra' = {} /\ todo' = {}
    /\ UNCHANGED <<blobs, protected, roots>> /\ Idle

\* sync_db, and the next turn of the loop clears the live set.
SweepDone ==
    /\ gc = "sweep" /\ todo \subseteq live
    /\ gc' = "sleep" /\ live' = {} /\ extra' = {} /\ todo' = {}
    /\ UNCHANGED <<blobs, protected, roots>> /\ Idle

\* A call to the store fails: run_gc logs the error and ends for good.
GcFails ==
    /\ "gc_error" \in Events
    /\ gc \notin {"sleep", "dead"}
    /\ gc' = "dead" /\ live' = {} /\ extra' = {} /\ roots' = {} /\ todo' = {}
    /\ UNCHANGED <<blobs, protected>> /\ Idle

Collect ==
    \/ \E H \in Callbacks : CallbackContinues(H)
    \/ ClearProtected
    \/ ListTags
    \/ ListTempTags
    \/ \E v \in HashAndFormat : MarkRoot(v)
    \/ ListBlobs
    \/ \E D \in SUBSET Hash : SweepBatch(D)
    \/ SweepDone

Next == ClientStep \/ Collect \/ CallbackAborts \/ GcFails

Spec == Init /\ [][Next]_vars

-----------------------------------------------------------------------------
(* Properties *)

\* Types; the live, root and work sets belong to the phase the collector is in.
TypeOK ==
    /\ TTTypeOK
    /\ tags \in [Name -> HashAndFormat \cup {NoValue}]
    /\ blobs \subseteq Hash /\ protected \subseteq blobs /\ extra \subseteq Hash
    /\ stored \subseteq {t \in Slot : Importing(t)}
    /\ gc \in {"sleep", "clear", "tags", "temp", "mark", "sweep", "dead"}
    /\ live \subseteq Hash /\ roots \subseteq HashAndFormat /\ todo \subseteq Hash
    /\ gc \notin {"temp", "mark"} => roots = {}
    /\ gc # "sweep" => todo = {}

Deleted == blobs \ blobs'
Steady == steadyTag \cup steadyTemp

\* A run never deletes a blob that has been tagged, or temp tagged, with the
\* same value since the run started, or that the callback asked to keep.
SteadyRootsKept ==
    [][\A h \in Deleted : h \notin extra /\ \A v \in Steady : v[1] # h]_vars

\* Nor the members of a hash sequence that is stored and has been tagged as one
\* since the run started, provided that nothing else makes the sequence itself
\* live: a raw root, the callback, or another sequence it is a member of.
SteadyMembersKept ==
    [][\A r \in Hash :
         /\ <<r, "hash_seq">> \in Steady /\ r \in readable
         /\ r \notin extra /\ <<r, "raw">> \notin seen
         /\ \A v \in seen : v[2] = "hash_seq" => r \notin Links[v[1]]
         => Deleted \cap Links[r] = {}]_vars

\* As long as a client holds the temp tag it got for an import, or has leaked
\* it, the blob is there, whenever the import ran with respect to the collector.
HeldImportsStored == \A v \in HashAndFormat : HoldsImport(v) => v[1] \in blobs

\* Deletion is complete: at the end of a run every blob that is left is a root
\* the run has seen or a member of a sequence among them, is kept by the callback,
\* or has been written since the run started.
RunCollectsGarbage ==
    [][gc = "sweep" /\ gc' = "sleep" =>
         \A h \in blobs :
            \/ h \in extra \cup protected
            \/ \E v \in seen : h = v[1] \/ (v[2] = "hash_seq" /\ h \in Links[v[1]])]_vars

\* What DESIGN.md says of hash sequences: tagging one protects its members.
MembersKept ==
    [][\A r \in Hash : <<r, "hash_seq">> \in Steady /\ r \in readable
                       => Deleted \cap Links[r] = {}]_vars
=============================================================================
