------------------------------- MODULE GcProofs -------------------------------
(***************************************************************************)
(* Proofs about garbage collection, for any hashes, tags, temp tags and    *)
(* batches: what has been in use since a run began, and what a client has  *)
(* imported, is not deleted, and everything else is.                       *)
(***************************************************************************)
EXTENDS Gc, TempTagsProofs

Running == gc \in {"tags", "temp", "mark", "sweep"}
Marking == gc \in {"mark", "sweep"}

\* Types, as far as the proofs need them.
DbTypes ==
    /\ gc \in {"sleep", "clear", "tags", "temp", "mark", "sweep", "dead"}
    /\ tags \in [Name -> HashAndFormat \cup {NoValue}]
    /\ gc \in {"temp", "mark"} => roots \subseteq HashAndFormat
    /\ Marking => seen \subseteq HashAndFormat

\* A root that has been there since the run began is collected, and is live
\* once it has been traversed; the sweep has seen all old blobs.
MarkInv ==
    /\ extra \subseteq live /\ (~ Marking => live = extra)
    /\ gc = "temp" => steadyTag \subseteq roots
    /\ Marking => \A v \in Steady : v \in roots \/ v[1] \in live
    /\ gc = "sweep" => roots = {} /\ blobs \subseteq todo \cup protected

\* A root r of which the collector must keep the members.
Traversable(r) ==
    /\ <<r, "hash_seq">> \in Steady /\ r \in readable
    /\ r \notin extra /\ <<r, "raw">> \notin seen
    /\ \A v \in seen : v[2] = "hash_seq" => r \notin Links[v[1]]

\* What is live is so because of the callback or a root that is done, and the
\* members of a sequence are live when it is done.
MemberInv ==
    /\ Running => readable \subseteq blobs
    /\ Marking =>
         /\ roots \subseteq seen
         /\ \A h \in live : \/ h \in extra
                            \/ \E v \in seen \ roots :
                                  h = v[1] \/ (v[2] = "hash_seq" /\ h \in Links[v[1]])
         /\ "read_error" \notin Events =>
              \A r \in Hash : Traversable(r) => <<r, "hash_seq">> \in roots \/ Links[r] \subseteq live

\* A tag of an import whose update is done, in an object the map has.
Held(t) ==
    /\ tt[t] # NoTag /\ tt[t].imported /\ (tt[t].owner # "import" \/ t \in stored)
    /\ scopes[tt[t].scope] = tt[t].gen

\* The blob of such an import is stored, and safe from a run under way: it was
\* written during the run or its tag was there when the run began.
HeldInv ==
    /\ stored \subseteq {t \in Slot : Importing(t)}
    /\ \A t \in Slot : Held(t) =>
         /\ tt[t].value[1] \in blobs
         /\ Running => tt[t].value[1] \in protected \/ tt[t].value \in steadyTemp

GcInv == TTInv /\ DbTypes /\ MarkInv /\ MemberInv /\ HeldInv

-----------------------------------------------------------------------------
\* A step of a client leaves the collector alone, and what it writes is protected.
LEMMA ClientShape ==
    ASSUME ClientStep
    PROVE  /\ UNCHANGED gcVars /\ History /\ [TTNext]_ttVars
           /\ blobs \subseteq blobs' /\ protected \subseteq protected'
           /\ blobs' \subseteq blobs \cup protected'
<1>1. CASE TempTagStep
    <2>1. UNCHANGED dbVars /\ Quiet
        BY <1>1, Zenon DEF TempTagStep
    <2>2. TTNext
        BY <1>1, ValueAssumption, Zenon DEF TempTagStep, TTNext
    <2> QED
        BY <2>1, <2>2, Zenon DEF dbVars, Quiet
<1>2. ASSUME NEW t \in Slot, NEW s \in Scope, NEW v \in Value, StartImport(t, s, v)
      PROVE  UNCHANGED <<blobs, protected>> /\ Quiet /\ TTNext
    BY <1>2, ValueAssumption, Zenon DEF StartImport, dbVars, TTNext
<1>3. ASSUME NEW t \in Slot, ImportUpdates(t)
      PROVE  /\ blobs \subseteq blobs' /\ protected \subseteq protected'
             /\ blobs' \subseteq blobs \cup protected' /\ Quiet /\ UNCHANGED ttVars
    BY <1>3, Zenon DEF ImportUpdates, Update
<1>4. ASSUME NEW t \in Slot, ImportEnds(t)
      PROVE  UNCHANGED <<blobs, protected>> /\ Quiet /\ TTNext
    BY <1>4, ValueAssumption, Zenon DEF ImportEnds, Importing, TTNext
<1>5. ASSUME NEW h \in Hash, Download(h)
      PROVE  /\ blobs \subseteq blobs' /\ protected \subseteq protected'
             /\ blobs' \subseteq blobs \cup protected' /\ Quiet /\ UNCHANGED ttVars
    BY <1>5, Zenon DEF Download, Update
<1>6. ASSUME NEW n \in Name, NEW v \in Value, SetTag(n, v)
      PROVE  UNCHANGED <<blobs, protected>> /\ Quiet /\ UNCHANGED ttVars
    BY <1>6, Zenon DEF SetTag
<1>7. ASSUME NEW N \in (SUBSET Name) \ {{}}, DeleteTags(N)
      PROVE  UNCHANGED <<blobs, protected>> /\ Quiet /\ UNCHANGED ttVars
    BY <1>7, Zenon DEF DeleteTags
<1>8. ASSUME NEW n \in Name, NEW m \in Name, RenameTag(n, m)
      PROVE  UNCHANGED <<blobs, protected>> /\ Quiet /\ UNCHANGED ttVars
    BY <1>8, Zenon DEF RenameTag
<1> QED
    BY <1>1, <1>2, <1>3, <1>4, <1>5, <1>6, <1>7, <1>8, Zenon DEF ClientStep, Quiet

\* A tag's value is a hash and a format.
LEMMA TagsKept ==
    ASSUME DbTypes, ClientStep
    PROVE  tags' \in [Name -> HashAndFormat \cup {NoValue}]
<1>0. tags \in [Name -> HashAndFormat \cup {NoValue}]
    BY Zenon DEF DbTypes
<1>1. CASE TempTagStep
    BY <1>0, <1>1, Zenon DEF TempTagStep, dbVars
<1>2. ASSUME NEW t \in Slot, NEW s \in Scope, NEW v \in Value, StartImport(t, s, v)
      PROVE  tags' = tags
    BY <1>2, Zenon DEF StartImport, dbVars
<1>3. ASSUME NEW t \in Slot, ImportUpdates(t) \/ ImportEnds(t)
      PROVE  tags' = tags
    BY <1>3, Zenon DEF ImportUpdates, ImportEnds
<1>4. ASSUME NEW h \in Hash, Download(h)
      PROVE  tags' = tags
    BY <1>4, Zenon DEF Download
<1>5. ASSUME NEW n \in Name, NEW v \in Value, SetTag(n, v)
      PROVE  tags' \in [Name -> HashAndFormat \cup {NoValue}]
    BY <1>0, <1>5, ValueAssumption, Zenon DEF SetTag
<1>6. ASSUME NEW N \in (SUBSET Name) \ {{}}, DeleteTags(N)
      PROVE  tags' \in [Name -> HashAndFormat \cup {NoValue}]
    BY <1>0, <1>6, Zenon DEF DeleteTags
<1>7. ASSUME NEW n \in Name, NEW m \in Name, RenameTag(n, m)
      PROVE  tags' \in [Name -> HashAndFormat \cup {NoValue}]
    BY <1>0, <1>7, Zenon DEF RenameTag
<1> QED
    BY <1>0, <1>1, <1>2, <1>3, <1>4, <1>5, <1>6, <1>7, Zenon DEF ClientStep

\* The history only shrinks in the course of a run.
LEMMA HistoryShrinks ==
    ASSUME History, gc # "clear"
    PROVE  /\ steadyTag' \subseteq steadyTag /\ steadyTag' \subseteq TagValues'
           /\ steadyTemp' \subseteq steadyTemp /\ steadyTemp' \subseteq List'
           /\ Steady' \subseteq Steady
           /\ readable' \subseteq readable /\ readable' \subseteq blobs'
BY Zenon DEF History, Since, Steady

\* Outside of a run there is no history, and otherwise seen is what the mark
\* phase has collected.
LEMMA SeenKept ==
    ASSUME History, gc' = gc
    PROVE  Marking => seen' = seen
BY Zenon DEF History, Since, Marking

\* Every step of the store is one of its temp tags or leaves them alone.
LEMMA TTSteps ==
    ASSUME [Next]_vars
    PROVE  [TTNext]_ttVars
<1>1. CASE ClientStep
    BY <1>1, ClientShape, Zenon
<1>2. CASE Collect
    BY <1>2, Zenon DEF Collect, CallbackContinues, ClearProtected, ListTags, ListTempTags, MarkRoot,
       ListBlobs, SweepBatch, SweepDone, Idle
<1>3. CASE CallbackAborts \/ GcFails
    BY <1>3, Zenon DEF CallbackAborts, GcFails, Idle
<1>4. CASE UNCHANGED vars
    BY <1>4, Zenon DEF vars
<1> QED
    BY <1>1, <1>2, <1>3, <1>4, Zenon DEF Next

\* Steps keep the types.
LEMMA DbTypesStep ==
    ASSUME DbTypes, [Next]_vars
    PROVE  DbTypes'
<1>1. CASE ClientStep
    <2>1. gc' = gc /\ roots' = roots /\ (Marking => seen' = seen)
        BY <1>1, ClientShape, SeenKept, Zenon DEF gcVars
    <2> QED
        BY <1>1, <2>1, TagsKept, Zenon DEF DbTypes, Marking
<1>2. CASE \E H \in Callbacks : CallbackContinues(H)
    BY <1>2, Zenon DEF CallbackContinues, Idle, DbTypes, Marking
<1>3. CASE ClearProtected
    BY <1>3, Zenon DEF ClearProtected, Idle, DbTypes, Marking
<1>4. CASE ListTags
    <2>1. TagValues \subseteq HashAndFormat
        BY Zenon DEF TagValues, DbTypes
    <2> QED
        BY <1>4, <2>1, Zenon DEF ListTags, Idle, DbTypes, Marking
<1>5. CASE ListTempTags
    <2>1. List \subseteq HashAndFormat
        BY Zenon DEF List
    <2>2. roots' \subseteq HashAndFormat /\ seen' = roots' /\ gc' = "mark" /\ tags' = tags
        BY <1>5, <2>1, Zenon DEF ListTempTags, Idle, DbTypes, History
    <2> QED
        BY <2>2, Zenon DEF DbTypes, Marking
<1>6. CASE \E v \in HashAndFormat : MarkRoot(v)
    <2>1. gc' = gc /\ gc = "mark" /\ roots' \subseteq roots /\ seen' = seen /\ tags' = tags
        BY <1>6, SeenKept, Zenon DEF MarkRoot, Idle, Marking
    <2> QED
        BY <2>1, Zenon DEF DbTypes, Marking
<1>7. CASE ListBlobs
    <2>1. gc = "mark" /\ gc' = "sweep" /\ roots' = roots /\ seen' = seen /\ tags' = tags
        BY <1>7, Zenon DEF ListBlobs, Idle, History, Since
    <2> QED
        BY <2>1, Zenon DEF DbTypes, Marking
<1>8. CASE \E D \in SUBSET Hash : SweepBatch(D)
    <2>1. gc' = gc /\ gc = "sweep" /\ seen' = seen /\ tags' = tags
        BY <1>8, SeenKept, Zenon DEF SweepBatch, Idle, Marking
    <2> QED
        BY <2>1, Zenon DEF DbTypes, Marking
<1>9. CASE SweepDone
    BY <1>9, Zenon DEF SweepDone, Idle, DbTypes, Marking
<1>10. CASE CallbackAborts
    BY <1>10, Zenon DEF CallbackAborts, Idle, gcVars, DbTypes, Marking
<1>11. CASE GcFails
    BY <1>11, Zenon DEF GcFails, Idle, DbTypes, Marking
<1>12. CASE UNCHANGED vars
    BY <1>12, Zenon DEF vars, dbVars, gcVars, histVars, DbTypes, Marking
<1> QED
    BY <1>1, <1>2, <1>3, <1>4, <1>5, <1>6, <1>7, <1>8, <1>9, <1>10, <1>11, <1>12, Zenon
    DEF Next, Collect

\* Steps keep the roots that have been there since the run began.
LEMMA MarkInvStep ==
    ASSUME DbTypes, MarkInv, [Next]_vars
    PROVE  MarkInv'
<1>1. CASE ClientStep
    <2>1. /\ UNCHANGED gcVars /\ History /\ protected \subseteq protected'
          /\ blobs' \subseteq blobs \cup protected'
        BY <1>1, ClientShape, Zenon
    <2>2. gc # "clear" => steadyTag' \subseteq steadyTag /\ Steady' \subseteq Steady
        BY <2>1, HistoryShrinks, Zenon
    <2> QED
        BY <2>1, <2>2, Zenon DEF gcVars, MarkInv, Marking
<1>2. CASE \E H \in Callbacks : CallbackContinues(H)
    BY <1>2, Zenon DEF CallbackContinues, MarkInv, Marking
<1>3. CASE ClearProtected
    BY <1>3, Zenon DEF ClearProtected, MarkInv, Marking
<1>4. CASE ListTags
    <2>1. steadyTag' \subseteq TagValues' /\ TagValues' = TagValues
        BY <1>4, HistoryShrinks, Zenon DEF ListTags, Idle, TagValues
    <2> QED
        BY <1>4, <2>1, Zenon DEF ListTags, MarkInv, Marking
<1>5. CASE ListTempTags
    <2>1. steadyTag' \subseteq steadyTag /\ steadyTemp' \subseteq List'
        BY <1>5, HistoryShrinks, Zenon DEF ListTempTags, Idle
    <2>2. List' = List
        BY <1>5, Zenon DEF ListTempTags, Idle, ttVars, List
    <2>3. Steady' \subseteq roots'
        BY <1>5, <2>1, <2>2, Zenon DEF ListTempTags, MarkInv, Steady
    <2> QED
        BY <1>5, <2>3, Zenon DEF ListTempTags, MarkInv, Marking
<1>6. CASE \E v \in HashAndFormat : MarkRoot(v)
    <2>1. PICK v \in HashAndFormat : MarkRoot(v)
        BY <1>6, Zenon
    <2>2. Steady' \subseteq Steady
        BY <2>1, HistoryShrinks, Zenon DEF MarkRoot, Idle
    <2>3. /\ roots' = roots \ {v} /\ gc = "mark" /\ gc' = gc /\ extra' = extra
          /\ live \subseteq live' /\ v[1] \in live'
        BY <2>1, Zenon DEF MarkRoot
    <2> QED
        BY <2>2, <2>3, Zenon DEF MarkInv, Marking
<1>7. CASE ListBlobs
    <2>1. Steady' \subseteq Steady
        BY <1>7, HistoryShrinks, Zenon DEF ListBlobs, Idle
    <2> QED
        BY <1>7, <2>1, Zenon DEF ListBlobs, MarkInv, Marking
<1>8. CASE \E D \in SUBSET Hash : SweepBatch(D)
    <2>1. Steady' \subseteq Steady
        BY <1>8, HistoryShrinks, Zenon DEF SweepBatch, Idle
    <2> QED
        BY <1>8, <2>1, Zenon DEF SweepBatch, MarkInv, Marking
<1>9. CASE SweepDone
    BY <1>9, Zenon DEF SweepDone, MarkInv, Marking
<1>10. CASE CallbackAborts
    BY <1>10, Zenon DEF CallbackAborts, gcVars, MarkInv, Marking
<1>11. CASE GcFails
    BY <1>11, Zenon DEF GcFails, MarkInv, Marking
<1>12. CASE UNCHANGED vars
    BY <1>12, Zenon DEF vars, dbVars, gcVars, histVars, MarkInv, Marking, Steady
<1> QED
    BY <1>1, <1>2, <1>3, <1>4, <1>5, <1>6, <1>7, <1>8, <1>9, <1>10, <1>11, <1>12, Zenon
    DEF Next, Collect

\* A sequence that had to be kept after a step of the mark or sweep phase had
\* to be kept before.
LEMMA TraversableBefore ==
    ASSUME History, Marking, Marking', extra' = extra, NEW r \in Hash, Traversable(r)'
    PROVE  Traversable(r) /\ seen' = seen
<1>1. seen' = seen
    BY Zenon DEF History, Since, Marking
<1>2. Steady' \subseteq Steady /\ readable' \subseteq readable
    BY HistoryShrinks, Zenon DEF Marking
<1> QED
    BY <1>1, <1>2, Zenon DEF Traversable

\* Steps keep what makes the members of a sequence live.
LEMMA MemberInvStep ==
    ASSUME DbTypes, MarkInv, MemberInv, [Next]_vars
    PROVE  MemberInv'
<1>1. ASSUME History, gc' = gc, extra' = extra, roots' = roots, live' = live
      PROVE  MemberInv'
    <2>1. Running' => readable' \subseteq blobs'
        BY <1>1, HistoryShrinks, Zenon DEF Running
    <2>2. Marking' => Marking /\ seen' = seen
        BY <1>1, SeenKept, Zenon DEF Marking
    <2>3. \A r \in Hash : Marking' /\ Traversable(r)' => Traversable(r)
        BY <1>1, <2>2, TraversableBefore, Zenon
    <2> QED
        BY <1>1, <2>1, <2>2, <2>3, Zenon DEF MemberInv
<1>2. CASE ClientStep
    BY <1>1, <1>2, ClientShape, Zenon DEF gcVars
<1>3. CASE \E H \in Callbacks : CallbackContinues(H)
    BY <1>3, Zenon DEF CallbackContinues, MemberInv, Running, Marking
<1>4. CASE ClearProtected
    BY <1>4, Zenon DEF ClearProtected, Idle, History, Since, MemberInv, Running, Marking
<1>5. CASE ListTags
    <2>1. readable' \subseteq blobs'
        BY <1>5, HistoryShrinks, Zenon DEF ListTags, Idle
    <2> QED
        BY <1>5, <2>1, Zenon DEF ListTags, MemberInv, Marking
<1>6. CASE ListTempTags
    <2>1. /\ readable' \subseteq blobs' /\ steadyTag' \subseteq steadyTag
          /\ steadyTemp' \subseteq List'
        BY <1>6, HistoryShrinks, Zenon DEF ListTempTags, Idle
    <2>2. List' = List
        BY <1>6, Zenon DEF ListTempTags, Idle, ttVars, List
    <2>3. Steady' \subseteq roots' /\ seen' = roots' /\ gc' = "mark" /\ live' = extra'
        BY <1>6, <2>1, <2>2, Zenon DEF ListTempTags, Idle, History, MarkInv, Marking, Steady
    <2> QED
        BY <2>1, <2>3, Zenon DEF MemberInv, Marking, Traversable
<1>7. ASSUME NEW v \in HashAndFormat, MarkRoot(v)
      PROVE  MemberInv'
    <2>1. /\ History /\ gc = "mark" /\ gc' = gc /\ v \in roots /\ roots' = roots \ {v}
          /\ extra' = extra /\ live \subseteq live' /\ v[1] \in live' /\ blobs' = blobs
          /\ live' \subseteq live \cup {v[1]} \cup (IF v[2] = "hash_seq" THEN Links[v[1]] ELSE {})
        BY <1>7, Zenon DEF MarkRoot, Idle
    <2>2. Marking /\ Marking' /\ seen' = seen /\ readable' \subseteq blobs'
        BY <2>1, SeenKept, HistoryShrinks, Zenon DEF Marking
    <2>3. roots \subseteq seen /\ v \in seen' \ roots' /\ roots' \subseteq seen'
        BY <2>1, <2>2, Zenon DEF MemberInv
    <2>4. \A h \in live' : \/ h \in extra'
                           \/ \E w \in seen' \ roots' :
                                 h = w[1] \/ (w[2] = "hash_seq" /\ h \in Links[w[1]])
        <3> SUFFICES ASSUME NEW h \in live', h \notin extra'
                     PROVE  \E w \in seen' \ roots' :
                                h = w[1] \/ (w[2] = "hash_seq" /\ h \in Links[w[1]])
            BY Zenon
        <3>1. CASE h \in live
            <4>1. PICK w \in seen \ roots : h = w[1] \/ (w[2] = "hash_seq" /\ h \in Links[w[1]])
                BY <2>1, <2>2, <3>1, Zenon DEF MemberInv
            <4> QED
                BY <2>1, <2>2, <4>1, Zenon
        <3>2. CASE h \notin live
            BY <2>1, <2>3, <3>2, Zenon
        <3> QED
            BY <3>1, <3>2, Zenon
    <2>5. ASSUME "read_error" \notin Events, NEW r \in Hash, Traversable(r)'
          PROVE  <<r, "hash_seq">> \in roots' \/ Links[r] \subseteq live'
        <3>1. Traversable(r)
            BY <2>1, <2>2, <2>5, TraversableBefore, Zenon
        <3>2. CASE v # <<r, "hash_seq">>
            BY <2>1, <2>2, <2>5, <3>1, <3>2, Zenon DEF MemberInv
        <3>3. CASE v = <<r, "hash_seq">>
            <4>1. r \notin live
                <5> SUFFICES ASSUME r \in live PROVE FALSE
                    BY Zenon
                <5>1. PICK w \in seen \ roots :
                          r = w[1] \/ (w[2] = "hash_seq" /\ r \in Links[w[1]])
                    BY <2>2, <3>1, Zenon DEF MemberInv, Traversable
                <5>2. r = w[1] /\ w \in Hash \X {"raw", "hash_seq"}
                    BY <2>2, <3>1, <5>1, Zenon DEF Traversable, DbTypes, HashAndFormat, Format
                <5>3. w = <<r, "raw">> \/ w = <<r, "hash_seq">>
                    BY <5>2
                <5> QED
                    BY <2>1, <3>1, <3>3, <5>1, <5>3, Zenon DEF Traversable
            <4>2. r \in blobs
                BY <2>1, <3>1, Zenon DEF Traversable, MemberInv, Running
            <4>3. v[1] = r /\ v[2] = "hash_seq" /\ ~ MayFail(r)
                BY <2>5, <3>3, <4>2, Zenon DEF MayFail
            <4>4. Links[r] \subseteq live'
                BY <1>7, <4>1, <4>3, Zenon DEF MarkRoot
            <4> QED
                BY <4>4, Zenon
        <3> QED
            BY <3>2, <3>3, Zenon
    <2> QED
        BY <2>2, <2>3, <2>4, <2>5, Zenon DEF MemberInv
<1>8. CASE ListBlobs
    <2>1. /\ History /\ gc = "mark" /\ gc' = "sweep" /\ extra' = extra /\ roots' = roots
          /\ live' = live
        BY <1>8, Zenon DEF ListBlobs, Idle
    <2>2. Marking /\ Marking' /\ seen' = seen /\ readable' \subseteq blobs'
        BY <2>1, HistoryShrinks, Zenon DEF Marking, History, Since
    <2>3. \A r \in Hash : Traversable(r)' => Traversable(r)
        BY <2>1, <2>2, TraversableBefore, Zenon
    <2> QED
        BY <2>1, <2>2, <2>3, Zenon DEF MemberInv
<1>9. CASE \E D \in SUBSET Hash : SweepBatch(D)
    BY <1>1, <1>9, Zenon DEF SweepBatch, Idle
<1>10. CASE SweepDone
    BY <1>10, Zenon DEF SweepDone, MemberInv, Running, Marking
<1>11. CASE CallbackAborts
    BY <1>1, <1>11, Zenon DEF CallbackAborts, Idle, gcVars
<1>12. CASE GcFails
    BY <1>12, Zenon DEF GcFails, MemberInv, Running, Marking
<1>13. CASE UNCHANGED vars
    BY <1>13, Zenon DEF vars, dbVars, gcVars, histVars, MemberInv, Running, Marking, Traversable, Steady
<1> QED
    BY <1>2, <1>3, <1>4, <1>5, <1>6, <1>7, <1>8, <1>9, <1>10, <1>11, <1>12, <1>13, Zenon
    DEF Next, Collect

-----------------------------------------------------------------------------
\* A tag that is held after a step of the temp tags and was not just made or
\* finished was held before: an object that left the map never returns to it.
LEMMA ScopeNotRevived ==
    ASSUME TTInv, [TTNext]_ttVars, NEW t \in Slot, tt[t] # NoTag, tt'[t] # NoTag,
           scopes'[tt'[t].scope] = tt'[t].gen
    PROVE  /\ tt'[t].value = tt[t].value /\ tt'[t].imported = tt[t].imported
           /\ scopes[tt[t].scope] = tt[t].gen
<1>0. TTTypes /\ tt[t] \in Tag /\ tt[t].gen <= gens[tt[t].scope] /\ MaxGen \in Nat
    BY SlotAssumption, Zenon DEF TTInv, TTTypes
<1>1. tt[t].scope \in Scope /\ tt[t].gen \in 1..MaxGen
    BY <1>0, Zenon DEF Tag
<1>2. CASE ScopeStep
    <2>1. PICK b \in Batch :
              CreateScope(b) \/ CloseBatch(b) \/ ClearScope(b) \/ (\E u \in Slot : BatchDrop(b, u))
        BY <1>2, Zenon DEF ScopeStep
    <2>2. CASE CreateScope(b)
        BY <1>0, <1>1, <2>2 DEF CreateScope, TTTypes, Scope
    <2>3. CASE CloseBatch(b)
        BY <2>3, Zenon DEF CloseBatch
    <2>4. CASE ClearScope(b)
        BY <1>0, <1>1, <2>4 DEF ClearScope, TTTypes, Scope
    <2>5. CASE \E u \in Slot : BatchDrop(b, u)
        BY <1>0, <2>5, Zenon DEF BatchDrop, Release, TTTypes
    <2> QED
        BY <2>1, <2>2, <2>3, <2>4, <2>5, Zenon
<1>3. ASSUME NEW u \in Slot, NEW s \in Scope, NEW v, NEW owner, NEW imported,
             Create(u, s, v, owner, imported)
      PROVE  tt'[t] = tt[t] /\ scopes[tt[t].scope] = tt[t].gen
    <2>1. tt'[t] = tt[t]
        BY <1>0, <1>3, Zenon DEF Create, TTTypes
    <2>2. scopes' = [scopes EXCEPT ![s] = ObjectOf(s)]
        BY <1>3, Zenon DEF Create
    <2> QED
        BY <1>0, <1>1, <2>1, <2>2 DEF ObjectOf, TTTypes
<1>4. ASSUME NEW u \in Slot, tt[u] # NoTag,
             ImportDrops(u) \/ (\E rpc \in BOOLEAN : ImportDone(u, rpc))
      PROVE  /\ tt'[t].value = tt[t].value /\ tt'[t].imported = tt[t].imported
             /\ scopes[tt[t].scope] = tt[t].gen
    <2>1. CASE ImportDrops(u)
        BY <1>0, <2>1, Zenon DEF ImportDrops, Release, TTTypes
    <2>2. CASE \E rpc \in BOOLEAN : ImportDone(u, rpc)
        BY <1>0, <2>2 DEF ImportDone, TTTypes, Tag
    <2> QED
        BY <1>4, <2>1, <2>2, Zenon
<1>5. ASSUME NEW u \in Slot, UserDrops(u)
      PROVE  tt'[t] = tt[t] /\ scopes[tt[t].scope] = tt[t].gen
    BY <1>0, <1>5, Zenon DEF UserDrops, Release, TTTypes
<1>6. CASE UNCHANGED ttVars
    BY <1>6, Zenon DEF ttVars
<1> QED
    BY <1>2, <1>3, <1>4, <1>5, <1>6, Zenon DEF TTNext, FinishImport, CreateTempTag

\* Steps of the temp tags other than the end of an import leave the tag of an
\* import alone, and make none that is held at once.
LEMMA TagChanges ==
    ASSUME TTInv, NEW u \in Slot,
           \/ ScopeStep
           \/ \E t \in Slot, s \in Scope, v \in Value, rpc \in Remote : CreateTempTag(t, s, v, rpc)
           \/ \E t \in Slot, s \in Scope, v \in Value : FinishImport(t, s, v)
           \/ \E t \in Slot : UserDrops(t)
    PROVE  \/ tt'[u] = tt[u]
           \/ tt'[u] = NoTag /\ ~ Importing(u)
           \/ tt[u] = NoTag /\ (~ tt'[u].imported \/ tt'[u].owner = "import")
<1>0. tt \in [Slot -> {NoTag} \cup Tag]
    BY Zenon DEF TTInv, TTTypes
<1>1. CASE ScopeStep
    BY <1>0, <1>1, Zenon DEF ScopeStep, CreateScope, CloseBatch, ClearScope, BatchDrop, Release, Importing
<1>2. ASSUME NEW t \in Slot, NEW s \in Scope, NEW v \in Value, NEW rpc \in Remote,
             CreateTempTag(t, s, v, rpc)
      PROVE  tt'[u] = tt[u] \/ (tt[u] = NoTag /\ ~ tt'[u].imported)
    BY <1>0, <1>2, Zenon DEF CreateTempTag, Create, TempTag
<1>3. ASSUME NEW t \in Slot, NEW s \in Scope, NEW v \in Value, FinishImport(t, s, v)
      PROVE  tt'[u] = tt[u] \/ (tt[u] = NoTag /\ tt'[u].owner = "import")
    BY <1>0, <1>3, Zenon DEF FinishImport, Create, TempTag
<1>4. ASSUME NEW t \in Slot, UserDrops(t)
      PROVE  tt'[u] = tt[u] \/ (tt'[u] = NoTag /\ ~ Importing(u))
    BY <1>0, <1>4, Zenon DEF UserDrops, Release, Importing
<1> QED
    BY <1>1, <1>2, <1>3, <1>4, Zenon

\* A tag is held after a step only if it was before, or its import has just
\* updated the database.
LEMMA HeldBefore ==
    ASSUME TTInv, HeldInv, [Next]_vars, NEW u \in Slot, Held(u)'
    PROVE  \/ Held(u) /\ tt'[u].value = tt[u].value
           \/ tt'[u].value[1] \in blobs' /\ tt'[u].value[1] \in protected'
<1>0. [TTNext]_ttVars
    BY TTSteps, Zenon
<1>1. ASSUME tt[u] # NoTag, stored' \subseteq stored, tt'[u].owner = tt[u].owner \/ u \in stored
      PROVE  Held(u) /\ tt'[u].value = tt[u].value
    BY <1>0, <1>1, ScopeNotRevived, Zenon DEF Held
<1>2. ASSUME UNCHANGED <<ttVars, stored>>
      PROVE  Held(u) /\ tt'[u].value = tt[u].value
    BY <1>2, Zenon DEF ttVars, Held
<1>3. ASSUME stored' = stored,
             \/ tt'[u] = tt[u]
             \/ tt'[u] = NoTag /\ ~ Importing(u)
             \/ tt[u] = NoTag /\ (~ tt'[u].imported \/ tt'[u].owner = "import")
      PROVE  Held(u) /\ tt'[u].value = tt[u].value
    <2>1. CASE tt'[u] = tt[u]
        BY <1>1, <1>3, <2>1, Zenon DEF Held
    <2>2. CASE tt[u] = NoTag /\ (~ tt'[u].imported \/ tt'[u].owner = "import")
        BY <1>3, <2>2, Zenon DEF Held, HeldInv, Importing
    <2> QED
        BY <1>3, <2>1, <2>2, Zenon DEF Held
<1>4. CASE TempTagStep
    <2>1. stored' = stored
        BY <1>4, Zenon DEF TempTagStep, dbVars
    <2> QED
        BY <1>3, <1>4, <2>1, TagChanges, Zenon DEF TempTagStep
<1>5. ASSUME NEW t \in Slot, NEW s \in Scope, NEW v \in Value, StartImport(t, s, v)
      PROVE  Held(u) /\ tt'[u].value = tt[u].value
    <2>1. stored' = stored
        BY <1>5, Zenon DEF StartImport, dbVars
    <2> QED
        BY <1>3, <1>5, <2>1, TagChanges, Zenon DEF StartImport
<1>6. ASSUME NEW t \in Slot, ImportUpdates(t)
      PROVE  \/ Held(u) /\ tt'[u].value = tt[u].value
             \/ tt'[u].value[1] \in blobs' /\ tt'[u].value[1] \in protected'
    BY <1>6, Zenon DEF ImportUpdates, Update, Held, ttVars
<1>7. ASSUME NEW t \in Slot, ImportEnds(t)
      PROVE  Held(u) /\ tt'[u].value = tt[u].value
    <2>1. tt \in [Slot -> {NoTag} \cup Tag] /\ stored' \subseteq stored
        BY <1>7, Zenon DEF TTInv, TTTypes, ImportEnds
    <2>2. CASE u # t
        <3>1. tt'[u] = tt[u]
            BY <1>7, <2>1, <2>2, Zenon DEF ImportEnds, ImportDone, ImportDrops, Release
        <3> QED
            BY <1>1, <2>1, <3>1, Zenon DEF Held
    <2>3. CASE u = t
        <3>1. tt[u] # NoTag /\ u \in stored
            BY <1>7, <2>1, <2>3, Zenon DEF ImportEnds, Importing, ImportDrops, Release, Held
        <3> QED
            BY <1>1, <2>1, <3>1, Zenon
    <2> QED
        BY <2>2, <2>3, Zenon
<1>8. ASSUME NEW h \in Hash, Download(h)
      PROVE  UNCHANGED <<ttVars, stored>>
    BY <1>8, Zenon DEF Download
<1>9. ASSUME NEW n \in Name, NEW v \in Value, SetTag(n, v)
      PROVE  UNCHANGED <<ttVars, stored>>
    BY <1>9, Zenon DEF SetTag
<1>10. ASSUME NEW N \in (SUBSET Name) \ {{}}, DeleteTags(N)
       PROVE  UNCHANGED <<ttVars, stored>>
    BY <1>10, Zenon DEF DeleteTags
<1>11. ASSUME NEW n \in Name, NEW m \in Name, RenameTag(n, m)
       PROVE  UNCHANGED <<ttVars, stored>>
    BY <1>11, Zenon DEF RenameTag
<1>12. CASE Collect \/ CallbackAborts \/ GcFails
    <2>1. UNCHANGED <<ttVars, stored>>
        BY <1>12, Zenon DEF Collect, CallbackContinues, ClearProtected, ListTags, ListTempTags, MarkRoot,
           ListBlobs, SweepBatch, SweepDone, CallbackAborts, GcFails, Idle
    <2> QED
        BY <1>2, <2>1, Zenon
<1>13. CASE UNCHANGED vars
    BY <1>2, <1>13, Zenon DEF vars, dbVars
<1> QED
    BY <1>2, <1>4, <1>5, <1>6, <1>7, <1>8, <1>9, <1>10, <1>11, <1>12, <1>13, Zenon
    DEF Next, ClientStep

\* Only imports under way have updated the database and not ended.
LEMMA StoredStep ==
    ASSUME TTInv, HeldInv, [Next]_vars
    PROVE  stored' \subseteq {t \in Slot : Importing(t)'}
<1>0. stored \subseteq {t \in Slot : Importing(t)} /\ tt \in [Slot -> {NoTag} \cup Tag]
    BY Zenon DEF HeldInv, TTInv, TTTypes
<1>1. ASSUME stored' = stored,
             \A u \in Slot :
                \/ tt'[u] = tt[u]
                \/ tt'[u] = NoTag /\ ~ Importing(u)
                \/ tt[u] = NoTag /\ (~ tt'[u].imported \/ tt'[u].owner = "import")
      PROVE  stored' \subseteq {t \in Slot : Importing(t)'}
    BY <1>0, <1>1, Zenon DEF Importing
<1>2. CASE TempTagStep
    <2>1. stored' = stored
        BY <1>2, Zenon DEF TempTagStep, dbVars
    <2> QED
        BY <1>1, <1>2, <2>1, TagChanges, Zenon DEF TempTagStep
<1>3. ASSUME NEW t \in Slot, NEW s \in Scope, NEW v \in Value, StartImport(t, s, v)
      PROVE  stored' \subseteq {u \in Slot : Importing(u)'}
    <2>1. stored' = stored
        BY <1>3, Zenon DEF StartImport, dbVars
    <2> QED
        BY <1>1, <1>3, <2>1, TagChanges, Zenon DEF StartImport
<1>4. ASSUME NEW t \in Slot, ImportUpdates(t)
      PROVE  stored' \subseteq {u \in Slot : Importing(u)'}
    BY <1>0, <1>4, Zenon DEF ImportUpdates, Importing, ttVars
<1>5. ASSUME NEW t \in Slot, ImportEnds(t)
      PROVE  stored' \subseteq {u \in Slot : Importing(u)'}
    <2>1. \A u \in Slot : u # t => tt'[u] = tt[u]
        BY <1>0, <1>5, Zenon DEF ImportEnds, ImportDone, ImportDrops, Release
    <2> QED
        BY <1>0, <1>5, <2>1, Zenon DEF ImportEnds, Importing
<1>6. ASSUME UNCHANGED <<ttVars, stored>>
      PROVE  stored' \subseteq {u \in Slot : Importing(u)'}
    BY <1>0, <1>6, Zenon DEF ttVars, Importing
<1>7. CASE \/ \E h \in Hash : Download(h)
           \/ \E n \in Name, v \in Value : SetTag(n, v)
           \/ \E N \in (SUBSET Name) \ {{}} : DeleteTags(N)
           \/ \E from, to \in Name : RenameTag(from, to)
    BY <1>6, <1>7, Zenon DEF Download, SetTag, DeleteTags, RenameTag
<1>8. CASE Collect \/ CallbackAborts \/ GcFails
    <2>1. UNCHANGED <<ttVars, stored>>
        BY <1>8, Zenon DEF Collect, CallbackContinues, ClearProtected, ListTags, ListTempTags, MarkRoot,
           ListBlobs, SweepBatch, SweepDone, CallbackAborts, GcFails, Idle
    <2> QED
        BY <1>6, <2>1, Zenon
<1>9. CASE UNCHANGED vars
    BY <1>6, <1>9, Zenon DEF vars, dbVars
<1> QED
    BY <1>2, <1>3, <1>4, <1>5, <1>7, <1>8, <1>9, Zenon DEF Next, ClientStep

\* Steps keep the blobs of the imports clients hold.
LEMMA HeldInvStep ==
    ASSUME TTInv, TTInv', DbTypes, MarkInv, HeldInv, [Next]_vars
    PROVE  HeldInv'
<1> SUFFICES ASSUME NEW u \in Slot, Held(u)'
             PROVE  /\ tt'[u].value[1] \in blobs'
                    /\ Running' => tt'[u].value[1] \in protected' \/ tt'[u].value \in steadyTemp'
    BY StoredStep, Zenon DEF HeldInv
<1>1. CASE tt'[u].value[1] \in blobs' /\ tt'[u].value[1] \in protected'
    BY <1>1, Zenon
<1>2. CASE Held(u) /\ tt'[u].value = tt[u].value
    <2> DEFINE v == tt[u].value
    <2>1. tt'[u].value \in List'
        <3>1. ListExact'
            BY CountedListExact, PTL
        <3>2. tt'[u].value \in HashAndFormat
            BY Zenon DEF TTInv, TTTypes, Tag, Held
        <3> QED
            BY <3>1, <3>2, Zenon DEF ListExact, Held
    <2>2. v[1] \in blobs /\ (Running => v[1] \in protected \/ v \in steadyTemp)
        BY <1>2, Zenon DEF HeldInv
    <2>3. ASSUME v[1] \in blobs', History, gc # "clear", protected \subseteq protected',
                 Running' => Running
          PROVE  /\ v[1] \in blobs'
                 /\ Running' => v[1] \in protected' \/ tt'[u].value \in steadyTemp'
        BY <1>2, <2>1, <2>2, <2>3, Zenon DEF Running, History, Since
    <2>4. CASE ClientStep
        <3>1. /\ UNCHANGED gcVars /\ History /\ blobs \subseteq blobs'
              /\ protected \subseteq protected'
            BY <2>4, ClientShape, Zenon
        <3>2. gc' = gc
            BY <3>1, Zenon DEF gcVars
        <3> QED
            BY <1>2, <2>2, <2>3, <3>1, <3>2, Zenon DEF Running
    <2>5. CASE ClearProtected
        BY <1>2, <2>1, <2>2, <2>5, Zenon DEF ClearProtected, Idle, History, Since
    <2>6. CASE \E D \in SUBSET Hash : SweepBatch(D)
        <3>1. v[1] \in protected \/ v[1] \in live
            BY <2>2, <2>6, Zenon DEF SweepBatch, Running, Marking, MarkInv, Steady
        <3>2. v[1] \in blobs'
            BY <2>2, <2>6, <3>1, Zenon DEF SweepBatch
        <3> QED
            BY <1>2, <2>3, <2>6, <3>2, Zenon DEF SweepBatch, Idle, Running
    <2>7. CASE \/ ListTags \/ ListTempTags \/ ListBlobs
               \/ \E w \in HashAndFormat : MarkRoot(w)
        <3>1. blobs' = blobs /\ protected' = protected /\ History /\ Running
            BY <2>7, Zenon DEF ListTags, ListTempTags, ListBlobs, MarkRoot, Idle, Running
        <3> QED
            BY <1>2, <2>2, <2>3, <3>1, Zenon DEF Running
    <2>8. CASE (\E H \in Callbacks : CallbackContinues(H)) \/ SweepDone \/ CallbackAborts \/ GcFails
        <3>1. blobs' = blobs /\ ~ Running'
            BY <2>8, Zenon DEF CallbackContinues, SweepDone, CallbackAborts, GcFails, gcVars, Running
        <3> QED
            BY <1>2, <2>2, <3>1, Zenon
    <2>9. CASE UNCHANGED vars
        BY <1>2, <2>2, <2>9, Zenon DEF vars, dbVars, gcVars, histVars, Running
    <2> QED
        BY <2>4, <2>5, <2>6, <2>7, <2>8, <2>9, Zenon DEF Next, Collect
<1> QED
    BY <1>1, <1>2, HeldBefore, Zenon

-----------------------------------------------------------------------------
\* The store starts empty and the collector asleep.
LEMMA GcInvInit == Init => GcInv
<1> SUFFICES ASSUME Init PROVE GcInv
    BY Zenon
<1>1. TTInv
    BY TTInvInit, Zenon DEF Init
<1>2. DbTypes /\ MarkInv /\ MemberInv
    BY Zenon DEF Init, DbTypes, MarkInv, MemberInv, Running, Marking
<1>3. HeldInv
    BY Zenon DEF Init, TTInit, HeldInv, Held
<1> QED
    BY <1>1, <1>2, <1>3, Zenon DEF GcInv

\* Every step keeps the invariant.
LEMMA GcInvStep == GcInv /\ [Next]_vars => GcInv'
<1> SUFFICES ASSUME GcInv, [Next]_vars PROVE GcInv'
    BY Zenon
<1>0. TTInv /\ DbTypes /\ MarkInv /\ MemberInv /\ HeldInv
    BY Zenon DEF GcInv
<1>1. TTInv'
    BY <1>0, TTInvStep, TTSteps, Zenon
<1>2. DbTypes'
    BY <1>0, DbTypesStep, Zenon
<1>3. MarkInv'
    BY <1>0, MarkInvStep, Zenon
<1>4. MemberInv'
    BY <1>0, MemberInvStep, Zenon
<1>5. HeldInv'
    BY <1>0, <1>1, HeldInvStep, Zenon
<1> QED
    BY <1>1, <1>2, <1>3, <1>4, <1>5, Zenon DEF GcInv

\* The collector's invariant: its roots, what they make live, and what protects
\* an import that runs at the same time.
THEOREM CollectorInvariant == Spec => []GcInv
BY GcInvInit, GcInvStep, PTL DEF Spec

\* As long as a client holds the temp tag of an import its blob is stored,
\* however gc_run_once and the steps of the import interleave.
THEOREM ImportsKept == Spec => []HeldImportsStored
<1>1. GcInv => HeldImportsStored
    BY Zenon DEF GcInv, HeldInv, Held, HeldImportsStored, HoldsImport
<1> QED
    BY <1>1, CollectorInvariant, PTL

\* Only the delete request of gc_sweep_task takes blobs away, and only listed
\* ones that are not live.
LEMMA OnlySweepDeletes ==
    ASSUME [Next]_vars, NEW h \in blobs \ blobs'
    PROVE  gc = "sweep" /\ h \notin live
<1>1. CASE ClientStep
    BY <1>1, ClientShape, Zenon
<1>2. CASE \E D \in SUBSET Hash : SweepBatch(D)
    BY <1>2, Zenon DEF SweepBatch
<1>3. CASE Collect /\ ~ \E D \in SUBSET Hash : SweepBatch(D)
    BY <1>3, Zenon DEF Collect, CallbackContinues, ClearProtected, ListTags, ListTempTags, MarkRoot,
       ListBlobs, SweepDone
<1>4. CASE CallbackAborts \/ GcFails \/ UNCHANGED vars
    BY <1>4, Zenon DEF CallbackAborts, GcFails, vars, dbVars
<1> QED
    BY <1>1, <1>2, <1>3, <1>4, Zenon DEF Next

\* gc_mark_task and gc_sweep_task never delete a blob that has been tagged, or
\* temp tagged, with the same value since the run began, nor one the
\* add_protected callback has named.
THEOREM RootsKept == Spec => SteadyRootsKept
<1>1. ASSUME GcInv, [Next]_vars
      PROVE  \A h \in Deleted : h \notin extra /\ \A v \in Steady : v[1] # h
    <2> SUFFICES ASSUME NEW h \in blobs \ blobs'
                 PROVE  h \notin extra /\ \A v \in Steady : v[1] # h
        BY Zenon DEF Deleted
    <2>1. gc = "sweep" /\ h \notin live
        BY <1>1, OnlySweepDeletes, Zenon
    <2> QED
        BY <1>1, <2>1, Zenon DEF GcInv, MarkInv, Marking
<1>2. GcInv /\ [Next]_vars =>
          [\A h \in Deleted : h \notin extra /\ \A v \in Steady : v[1] # h]_vars
    BY <1>1, Zenon
<1> QED
    BY <1>2, CollectorInvariant, PTL DEF Spec, SteadyRootsKept

\* If no read of a stored sequence fails, the members of a sequence that is
\* stored and tagged since the run began are not deleted, unless the sequence
\* was live before gc_mark_task came to it.
THEOREM MembersOfRootsKept ==
    ASSUME "read_error" \notin Events
    PROVE  Spec => SteadyMembersKept
<1> DEFINE Keeps == \A r \in Hash :
                       /\ <<r, "hash_seq">> \in Steady /\ r \in readable
                       /\ r \notin extra /\ <<r, "raw">> \notin seen
                       /\ \A v \in seen : v[2] = "hash_seq" => r \notin Links[v[1]]
                       => Deleted \cap Links[r] = {}
<1>1. ASSUME GcInv, [Next]_vars
      PROVE  Keeps
    <2> SUFFICES ASSUME NEW r \in Hash, Traversable(r), NEW h \in blobs \ blobs'
                 PROVE  h \notin Links[r]
        BY Zenon DEF Deleted, Traversable
    <2>1. gc = "sweep" /\ h \notin live
        BY <1>1, OnlySweepDeletes, Zenon
    <2>2. Links[r] \subseteq live
        BY <1>1, <2>1, Zenon DEF GcInv, MarkInv, MemberInv, Marking
    <2> QED
        BY <2>1, <2>2, Zenon
<1>2. GcInv /\ [Next]_vars => [Keeps]_vars
    BY <1>1, Zenon
<1>3. [][Keeps]_vars => SteadyMembersKept
    BY PTL DEF SteadyMembersKept
<1> HIDE DEF Keeps
<1> QED
    BY <1>2, <1>3, CollectorInvariant, PTL DEF Spec

\* A run that comes to its end has deleted every blob that was not a root, a
\* member of one, kept by the callback or written since the run began.
THEOREM GarbageCollected == Spec => RunCollectsGarbage
<1> DEFINE Complete == gc = "sweep" /\ gc' = "sleep" =>
                         \A h \in blobs :
                            \/ h \in extra \cup protected
                            \/ \E v \in seen : h = v[1] \/ (v[2] = "hash_seq" /\ h \in Links[v[1]])
<1>1. ASSUME GcInv, [Next]_vars
      PROVE  Complete
    <2> SUFFICES ASSUME gc = "sweep", gc' = "sleep"
                 PROVE  \A h \in blobs :
                            \/ h \in extra \cup protected
                            \/ \E v \in seen : h = v[1] \/ (v[2] = "hash_seq" /\ h \in Links[v[1]])
        BY Zenon
    <2>1. todo \subseteq live
        <3>1. ~ ClientStep
            BY ClientShape, Zenon DEF gcVars
        <3> QED
            BY <1>1, <3>1, Zenon DEF Next, Collect, CallbackContinues, ClearProtected, ListTags,
               ListTempTags, MarkRoot, ListBlobs, SweepBatch, SweepDone, CallbackAborts, GcFails,
               gcVars, vars
    <2>2. blobs \subseteq live \cup protected
        BY <1>1, <2>1, Zenon DEF GcInv, MarkInv
    <2>3. \A h \in live : \/ h \in extra
                          \/ \E v \in seen : h = v[1] \/ (v[2] = "hash_seq" /\ h \in Links[v[1]])
        BY <1>1, Zenon DEF GcInv, MemberInv, Marking
    <2> QED
        BY <2>2, <2>3, Zenon
<1>2. GcInv /\ [Next]_vars => [Complete]_vars
    BY <1>1, Zenon
<1>3. [][Complete]_vars => RunCollectsGarbage
    BY PTL DEF RunCollectsGarbage
<1> HIDE DEF Complete
<1> QED
    BY <1>2, <1>3, CollectorInvariant, PTL DEF Spec
===============================================================================
