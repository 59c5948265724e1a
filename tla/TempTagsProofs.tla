---------------------------- MODULE TempTagsProofs ----------------------------
(***************************************************************************)
(* Proofs about temp tags, for any hashes, scopes and number of tags: the  *)
(* counters of a scope count the tags that point to it.                    *)
(***************************************************************************)
EXTENDS TempTags, FiniteSetTheorems, TLAPS

Owner == {"import", "user", "leaked"}

Tag == [scope : Scope, gen : 1..MaxGen, value : HashAndFormat, owner : Owner, imported : BOOLEAN]

\* The temp tags that point to object g of scope s and stand for v.
Tagged(s, g, v) ==
    {t \in Slot : tt[t] # NoTag /\ tt[t].scope = s /\ tt[t].gen = g /\ tt[t].value = v}

\* Types; the map has the last object of a scope or none, and nothing points
\* to an object that does not exist yet.
TTTypes ==
    /\ scopes \in [Scope -> 0..MaxGen] /\ gens \in [Scope -> 0..MaxGen]
    /\ tt \in [Slot -> {NoTag} \cup Tag]
    /\ counters \in [Object -> [HashAndFormat -> Nat]]
    /\ batch \in [Batch -> {"none", "open", "closing", "ended"}]
    /\ \A s \in Scope : scopes[s] \in {0, gens[s]}
    /\ \A b \in Batch : batch[b] = "none" => gens[b] = 0
    /\ \A t \in Slot : tt[t] # NoTag => tt[t].gen <= gens[tt[t].scope]
    /\ \A s \in Scope, g \in 1..MaxGen : g > gens[s] => counters[<<s, g>>] = Zero

\* The counters of the objects in the map count their tags.
Counted ==
    \A s \in Scope, g \in 1..MaxGen, v \in HashAndFormat :
        scopes[s] = g => counters[<<s, g>>][v] = Cardinality(Tagged(s, g, v))

TTInv == TTTypes /\ Counted

-----------------------------------------------------------------------------
\* The tags of an object are finitely many.
LEMMA TaggedFinite ==
    ASSUME NEW s, NEW g, NEW v
    PROVE  IsFiniteSet(Tagged(s, g, v))
BY SlotAssumption, FS_Subset, Zenon DEF Tagged

\* A store starts without temp tags.
LEMMA TTInvInit == TTInit => TTInv
<1> SUFFICES ASSUME TTInit PROVE TTInv
    BY Zenon
<1>1. Zero \in [HashAndFormat -> Nat]
    BY Zenon DEF Zero
<1>2. scopes \in [Scope -> 0..MaxGen] /\ gens \in [Scope -> 0..MaxGen]
    BY SlotAssumption DEF TTInit
<1>3. /\ tt \in [Slot -> {NoTag} \cup Tag]
      /\ batch \in [Batch -> {"none", "open", "closing", "ended"}]
      /\ counters \in [Object -> [HashAndFormat -> Nat]]
    BY <1>1, Zenon DEF TTInit
<1>4. \A s \in Scope, g \in 1..MaxGen : g > gens[s] => counters[<<s, g>>] = Zero
    BY Zenon DEF TTInit, Object
<1>5. TTTypes
    BY <1>2, <1>3, <1>4, Zenon DEF TTInit, TTTypes, Scope
<1>6. Counted
    BY DEF TTInit, Counted
<1> QED
    BY <1>5, <1>6, Zenon DEF TTInv

\* TempTags::create counts the new tag, in the object it finds or in a new one.
LEMMA CreateKeeps ==
    ASSUME TTInv, NEW t \in Slot, NEW s \in Scope, NEW v \in HashAndFormat,
           NEW owner \in Owner, NEW imported \in BOOLEAN, Create(t, s, v, owner, imported)
    PROVE  TTInv'
<1>0. TTTypes /\ Counted /\ MaxGen \in Nat
    BY SlotAssumption, Zenon DEF TTInv
<1>1. ObjectOf(s) \in 1..MaxGen
    BY <1>0 DEF Create, ObjectOf, TTTypes
<1>2. PICK g \in 1..MaxGen : g = ObjectOf(s)
    BY <1>1, Zenon
<1>3. /\ g >= gens[s] /\ gens[s] \in Nat
      /\ scopes[s] # 0 => g = scopes[s] /\ g = gens[s]
      /\ scopes[s] = 0 => g = gens[s] + 1
    BY <1>0, <1>2 DEF ObjectOf, TTTypes
<1>4. PICK new : new = TempTag(s, g, v, owner, imported)
    BY Zenon
<1>5. new \in Tag /\ new # NoTag /\ new.scope = s /\ new.gen = g /\ new.value = v
    BY <1>4, NoTagAssumption, Zenon DEF TempTag, Tag, Owner
<1>6. /\ tt[t] = NoTag /\ batch' = batch /\ (s \in Batch => batch[s] # "none")
      /\ scopes' = [scopes EXCEPT ![s] = g]
      /\ gens' = [gens EXCEPT ![s] = g]
      /\ counters' = [counters EXCEPT ![<<s, g>>][v] = @ + 1]
      /\ tt' = [tt EXCEPT ![t] = new]
    BY <1>2, <1>4, Zenon DEF Create
<1>7. <<s, g>> \in Object
    BY Zenon DEF Object
<1>8. TTTypes'
    <2>1. scopes' \in [Scope -> 0..MaxGen] /\ gens' \in [Scope -> 0..MaxGen]
        BY <1>0, <1>6 DEF TTTypes
    <2>2. tt' \in [Slot -> {NoTag} \cup Tag]
        BY <1>0, <1>5, <1>6, Zenon DEF TTTypes
    <2>3. counters' \in [Object -> [HashAndFormat -> Nat]]
        <3>1. PICK m : m = [counters[<<s, g>>] EXCEPT ![v] = @ + 1]
            BY Zenon
        <3>2. m \in [HashAndFormat -> Nat]
            <4>1. counters[<<s, g>>] \in [HashAndFormat -> Nat]
                BY <1>0, <1>7, Zenon DEF TTTypes
            <4> QED
                BY <3>1, <4>1
        <3>3. counters' = [counters EXCEPT ![<<s, g>>] = m]
            BY <1>6, <3>1, Zenon
        <3> QED
            BY <1>0, <1>7, <3>2, <3>3, Zenon DEF TTTypes
    <2>4. \A r \in Scope : scopes'[r] \in {0, gens'[r]}
        BY <1>0, <1>6, Zenon DEF TTTypes
    <2>5. \A b \in Batch : batch'[b] = "none" => gens'[b] = 0
        BY <1>0, <1>6, Zenon DEF TTTypes, Scope
    <2>6. \A u \in Slot : tt'[u] # NoTag => tt'[u].gen <= gens'[tt'[u].scope]
        <3> SUFFICES ASSUME NEW u \in Slot, tt'[u] # NoTag
                     PROVE  tt'[u].gen <= gens'[tt'[u].scope]
            BY Zenon
        <3>1. CASE u = t
            BY <1>0, <1>5, <1>6, <3>1 DEF TTTypes
        <3>2. CASE u # t
            <4>1. tt'[u] = tt[u] /\ tt[u] \in Tag /\ tt[u].gen <= gens[tt[u].scope]
                BY <1>0, <1>6, <3>2, Zenon DEF TTTypes
            <4>2. tt[u].gen \in Nat /\ tt[u].scope \in Scope
                BY <1>0, <4>1 DEF Tag
            <4> QED
                BY <1>0, <1>3, <1>6, <4>1, <4>2 DEF TTTypes
        <3> QED
            BY <3>1, <3>2, Zenon
    <2>7. \A r \in Scope, k \in 1..MaxGen : k > gens'[r] => counters'[<<r, k>>] = Zero
        <3> SUFFICES ASSUME NEW r \in Scope, NEW k \in 1..MaxGen, k > gens'[r]
                     PROVE  counters'[<<r, k>>] = Zero
            BY Zenon
        <3>1. k > gens[r] /\ <<r, k>> # <<s, g>> /\ <<r, k>> \in Object
            BY <1>0, <1>3, <1>6 DEF TTTypes, Object
        <3> QED
            BY <1>0, <1>6, <3>1, Zenon DEF TTTypes
    <2> QED
        BY <1>0, <1>6, <2>1, <2>2, <2>3, <2>4, <2>5, <2>6, <2>7, Zenon DEF TTTypes
<1>9. Counted'
    <2> SUFFICES ASSUME NEW r \in Scope, NEW k \in 1..MaxGen, NEW w \in HashAndFormat,
                        scopes'[r] = k
                 PROVE  counters'[<<r, k>>][w] = Cardinality(Tagged(r, k, w)')
        BY Zenon DEF Counted
    <2>1. counters[<<r, k>>][w] = Cardinality(Tagged(r, k, w))
        <3>1. CASE scopes[r] = k
            BY <1>0, <3>1, Zenon DEF Counted
        <3>2. CASE scopes[r] # k
            <4>1. r = s /\ k = g /\ k > gens[r]
                BY <1>0, <1>3, <1>6, <3>2 DEF TTTypes
            <4>2. counters[<<r, k>>][w] = 0
                BY <1>0, <4>1 DEF TTTypes, Zero
            <4>3. Tagged(r, k, w) = {}
                BY <1>0, <4>1 DEF Tagged, TTTypes, Tag
            <4> QED
                BY <4>2, <4>3, FS_EmptySet, Zenon
        <3> QED
            BY <3>1, <3>2, Zenon
    <2>2. <<r, k>> \in Object
        BY Zenon DEF Object
    <2>3. CASE r = s /\ k = g /\ w = v
        <3>1. counters'[<<r, k>>][w] = counters[<<r, k>>][w] + 1
            BY <1>0, <1>6, <1>7, <2>3, Zenon DEF TTTypes
        <3>2. Tagged(r, k, w)' = Tagged(r, k, w) \cup {t} /\ t \notin Tagged(r, k, w)
            BY <1>0, <1>5, <1>6, <2>3, Zenon DEF Tagged, TTTypes
        <3>3. Cardinality(Tagged(r, k, w)') = Cardinality(Tagged(r, k, w)) + 1
            BY <3>2, TaggedFinite, FS_AddElement, Zenon
        <3> QED
            BY <2>1, <3>1, <3>3, Zenon
    <2>4. CASE ~ (r = s /\ k = g /\ w = v)
        <3>1. counters'[<<r, k>>][w] = counters[<<r, k>>][w]
            BY <1>0, <1>6, <1>7, <2>2, <2>4, Zenon DEF TTTypes
        <3>2. Tagged(r, k, w)' = Tagged(r, k, w)
            BY <1>0, <1>5, <1>6, <2>4, Zenon DEF Tagged, TTTypes
        <3> QED
            BY <2>1, <3>1, <3>2, Zenon
    <2> QED
        BY <2>3, <2>4, Zenon
<1> QED
    BY <1>8, <1>9, Zenon DEF TTInv

\* Dropping a TempTag counts it down once, and only if its object is still there.
LEMMA ReleaseKeeps ==
    ASSUME TTInv, NEW t \in Slot, tt[t] # NoTag, Release(t), UNCHANGED <<scopes, gens, batch>>
    PROVE  TTInv'
<1>0. TTTypes /\ Counted /\ MaxGen \in Nat
    BY SlotAssumption, Zenon DEF TTInv
<1>1. PICK s \in Scope, g \in 1..MaxGen, v \in HashAndFormat :
          s = tt[t].scope /\ g = tt[t].gen /\ v = tt[t].value
    BY <1>0, Zenon DEF TTTypes, Tag
<1>2. <<s, g>> \in Object
    BY Zenon DEF Object
<1>3. PICK m : m = Dec(counters[<<s, g>>], v)
    BY Zenon
<1>4. /\ m \in [HashAndFormat -> Nat]
      /\ m[v] = IF counters[<<s, g>>][v] > 0 THEN counters[<<s, g>>][v] - 1 ELSE 0
      /\ \A w \in HashAndFormat : w # v => m[w] = counters[<<s, g>>][w]
    <2>1. counters[<<s, g>>] \in [HashAndFormat -> Nat]
        BY <1>0, <1>2, Zenon DEF TTTypes
    <2> QED
        BY <1>3, <2>1 DEF Dec
<1>5. /\ tt' = [tt EXCEPT ![t] = NoTag]
      /\ counters' = IF scopes[s] = g THEN [counters EXCEPT ![<<s, g>>] = m] ELSE counters
      /\ scopes' = scopes /\ gens' = gens /\ batch' = batch
    BY <1>1, <1>3, Zenon DEF Release
<1>6. TTTypes'
    <2>1. counters' \in [Object -> [HashAndFormat -> Nat]]
        BY <1>0, <1>2, <1>4, <1>5, Zenon DEF TTTypes
    <2>2. /\ tt' \in [Slot -> {NoTag} \cup Tag]
          /\ \A u \in Slot : tt'[u] # NoTag => tt'[u].gen <= gens'[tt'[u].scope]
        BY <1>0, <1>5, Zenon DEF TTTypes
    <2>3. \A r \in Scope, k \in 1..MaxGen : k > gens'[r] => counters'[<<r, k>>] = Zero
        <3> SUFFICES ASSUME NEW r \in Scope, NEW k \in 1..MaxGen, k > gens'[r]
                     PROVE  counters'[<<r, k>>] = Zero
            BY Zenon
        <3>1. k > gens[r] /\ <<r, k>> # <<s, g>> /\ <<r, k>> \in Object
            BY <1>0, <1>1, <1>5 DEF TTTypes, Object
        <3> QED
            BY <1>0, <1>5, <3>1, Zenon DEF TTTypes
    <2> QED
        BY <1>0, <1>5, <2>1, <2>2, <2>3, Zenon DEF TTTypes
<1>7. Counted'
    <2> SUFFICES ASSUME NEW r \in Scope, NEW k \in 1..MaxGen, NEW w \in HashAndFormat,
                        scopes'[r] = k
                 PROVE  counters'[<<r, k>>][w] = Cardinality(Tagged(r, k, w)')
        BY Zenon DEF Counted
    <2>1. counters[<<r, k>>][w] = Cardinality(Tagged(r, k, w)) /\ <<r, k>> \in Object
        BY <1>0, <1>5, Zenon DEF Counted, Object
    <2>2. CASE r = s /\ k = g /\ w = v
        <3>1. Tagged(r, k, w)' = Tagged(r, k, w) \ {t} /\ t \in Tagged(r, k, w)
            BY <1>0, <1>1, <1>5, <2>2, Zenon DEF Tagged, TTTypes
        <3>2. Cardinality(Tagged(r, k, w)') = Cardinality(Tagged(r, k, w)) - 1
            <4>1. \A T : IsFiniteSet(T) /\ t \in T => Cardinality(T \ {t}) = Cardinality(T) - 1
                BY FS_RemoveElement
            <4>2. IsFiniteSet(Tagged(r, k, w))
                BY TaggedFinite, Zenon
            <4> QED
                BY <3>1, <4>1, <4>2, ZenonT(60)
        <3>3. Cardinality(Tagged(r, k, w)) # 0 /\ Cardinality(Tagged(r, k, w)) \in Nat
            BY <3>1, TaggedFinite, FS_EmptySet, FS_CardinalityType, Zenon
        <3>4. counters'[<<r, k>>][w] = m[w]
            BY <1>0, <1>2, <1>5, <2>2, Zenon DEF TTTypes
        <3> QED
            BY <1>4, <2>1, <2>2, <3>2, <3>3, <3>4
    <2>3. CASE ~ (r = s /\ k = g /\ w = v)
        <3>1. counters'[<<r, k>>][w] = counters[<<r, k>>][w]
            BY <1>0, <1>2, <1>4, <1>5, <2>1, <2>3, Zenon DEF TTTypes
        <3>2. Tagged(r, k, w)' = Tagged(r, k, w)
            BY <1>0, <1>1, <1>5, <2>3, Zenon DEF Tagged, TTTypes
        <3> QED
            BY <2>1, <3>1, <3>2, Zenon
    <2> QED
        BY <2>2, <2>3, Zenon
<1> QED
    BY <1>6, <1>7, Zenon DEF TTInv

\* A batch begins with an object nothing points to.
LEMMA CreateScopeKeeps ==
    ASSUME TTInv, NEW b \in Batch, CreateScope(b)
    PROVE  TTInv'
<1>0. TTTypes /\ Counted /\ MaxGen \in Nat \ {0} /\ b \in Scope
    BY SlotAssumption, Zenon DEF TTInv, Scope
<1>1. gens[b] = 0 /\ 1 \in 1..MaxGen
    BY <1>0 DEF CreateScope, TTTypes
<1>2. TTTypes'
    BY <1>0, <1>1 DEF CreateScope, TTTypes, Tag
<1>3. Counted'
    <2> SUFFICES ASSUME NEW r \in Scope, NEW k \in 1..MaxGen, NEW w \in HashAndFormat,
                        scopes'[r] = k
                 PROVE  counters'[<<r, k>>][w] = Cardinality(Tagged(r, k, w)')
        BY Zenon DEF Counted
    <2>1. counters' = counters /\ Tagged(r, k, w)' = Tagged(r, k, w)
        BY Zenon DEF CreateScope, Tagged
    <2>2. CASE r = b
        <3>1. k = 1 /\ k > gens[r]
            BY <1>0, <1>1, <2>2 DEF CreateScope, TTTypes
        <3>2. counters[<<r, k>>][w] = 0
            BY <1>0, <3>1 DEF TTTypes, Zero
        <3>3. Tagged(r, k, w) = {}
            BY <1>0, <3>1 DEF Tagged, TTTypes, Tag
        <3> QED
            BY <2>1, <3>2, <3>3, FS_EmptySet, Zenon
    <2>3. CASE r # b
        BY <1>0, <2>1, <2>3 DEF CreateScope, TTTypes, Counted
    <2> QED
        BY <2>2, <2>3, Zenon
<1> QED
    BY <1>2, <1>3, Zenon DEF TTInv

\* ClearScope takes the object of the batch out of the map.
LEMMA ClearScopeKeeps ==
    ASSUME TTInv, NEW b \in Batch, ClearScope(b)
    PROVE  TTInv'
<1>0. TTTypes /\ Counted /\ MaxGen \in Nat /\ b \in Scope
    BY SlotAssumption, Zenon DEF TTInv, Scope
<1>1. Zero \in [HashAndFormat -> Nat]
    BY Zenon DEF Zero
<1>2. counters' \in [Object -> [HashAndFormat -> Nat]]
    BY <1>0, <1>1, Zenon DEF ClearScope, TTTypes
<1>3. \A r \in Scope, k \in 1..MaxGen : k > gens'[r] => counters'[<<r, k>>] = Zero
    BY <1>0, Zenon DEF ClearScope, TTTypes, Object
<1>4. TTTypes'
    BY <1>0, <1>2, <1>3 DEF ClearScope, TTTypes
<1>5. Counted'
    <2> SUFFICES ASSUME NEW r \in Scope, NEW k \in 1..MaxGen, NEW w \in HashAndFormat,
                        scopes'[r] = k
                 PROVE  counters'[<<r, k>>][w] = Cardinality(Tagged(r, k, w)')
        BY Zenon DEF Counted
    <2>1. r # b /\ scopes[r] = k /\ <<r, k>> # <<b, scopes[b]>> /\ <<r, k>> \in Object
        BY <1>0 DEF ClearScope, TTTypes, Object
    <2>2. Tagged(r, k, w)' = Tagged(r, k, w)
        BY Zenon DEF ClearScope, Tagged
    <2> QED
        BY <1>0, <2>1, <2>2, Zenon DEF ClearScope, TTTypes, Counted
<1> QED
    BY <1>4, <1>5, Zenon DEF TTInv

\* The end of finish_import changes who owns a tag and nothing else.
LEMMA ImportDoneKeeps ==
    ASSUME TTInv, NEW t \in Slot, tt[t] # NoTag, NEW rpc \in BOOLEAN, ImportDone(t, rpc)
    PROVE  TTInv'
<1>0. TTTypes /\ Counted
    BY Zenon DEF TTInv
<1>1. PICK new : new = [tt[t] EXCEPT !.owner = IF rpc THEN "leaked" ELSE "user"]
    BY Zenon
<1>2. tt[t] \in Tag
    BY <1>0, Zenon DEF TTTypes
<1>3. /\ new \in Tag /\ new.scope = tt[t].scope /\ new.gen = tt[t].gen
      /\ new.value = tt[t].value
    BY <1>1, <1>2, Zenon DEF Tag, Owner
<1>4. new # NoTag
    <2>1. new = TempTag(new.scope, new.gen, new.value, new.owner, new.imported)
        BY <1>3, Zenon DEF Tag, TempTag
    <2> QED
        BY <1>3, <2>1, NoTagAssumption DEF Tag, Owner
<1>5. /\ tt' = [tt EXCEPT ![t] = new]
      /\ scopes' = scopes /\ gens' = gens /\ batch' = batch /\ counters' = counters
    BY <1>1, Zenon DEF ImportDone
<1>6. TTTypes'
    BY <1>0, <1>3, <1>5, Zenon DEF TTTypes
<1>7. \A r, k, w : Tagged(r, k, w)' = Tagged(r, k, w)
    BY <1>0, <1>3, <1>4, <1>5 DEF Tagged, TTTypes
<1>8. Counted'
    BY <1>0, <1>5, <1>7, Zenon DEF Counted
<1> QED
    BY <1>6, <1>8, Zenon DEF TTInv

\* Every step of the temp tags keeps the invariant.
LEMMA TTInvStep == TTInv /\ [TTNext]_ttVars => TTInv'
<1> SUFFICES ASSUME TTInv, [TTNext]_ttVars PROVE TTInv'
    BY Zenon
<1>1. CASE ScopeStep
    <2>1. PICK b \in Batch :
              CreateScope(b) \/ CloseBatch(b) \/ ClearScope(b) \/ (\E t \in Slot : BatchDrop(b, t))
        BY <1>1, Zenon DEF ScopeStep
    <2>2. CASE CloseBatch(b)
        <3>1. TTTypes' /\ \A s, g, v : Tagged(s, g, v)' = Tagged(s, g, v)
            BY <2>2, Zenon DEF CloseBatch, TTInv, TTTypes, Tagged
        <3> QED
            BY <2>2, <3>1, Zenon DEF CloseBatch, TTInv, Counted
    <2>3. CASE \E t \in Slot : BatchDrop(b, t)
        BY <2>3, ReleaseKeeps, Zenon DEF BatchDrop
    <2> QED
        BY <2>1, <2>2, <2>3, CreateScopeKeeps, ClearScopeKeeps, Zenon
<1>2. ASSUME NEW t \in Slot, NEW s \in Scope, NEW v \in HashAndFormat,
             FinishImport(t, s, v) \/ (\E rpc \in BOOLEAN : CreateTempTag(t, s, v, rpc))
      PROVE  TTInv'
    BY <1>2, CreateKeeps, Zenon DEF FinishImport, CreateTempTag, Owner
<1>3. ASSUME NEW t \in Slot, tt[t] # NoTag,
             ImportDrops(t) \/ (\E rpc \in BOOLEAN : ImportDone(t, rpc))
      PROVE  TTInv'
    BY <1>3, ReleaseKeeps, ImportDoneKeeps, Zenon DEF ImportDrops
<1>4. ASSUME NEW t \in Slot, UserDrops(t)
      PROVE  TTInv'
    BY <1>4, ReleaseKeeps, Zenon DEF UserDrops
<1>5. CASE UNCHANGED ttVars
    BY <1>5 DEF ttVars, TTInv, TTTypes, Counted, Tagged
<1> QED
    BY <1>1, <1>2, <1>3, <1>4, <1>5, Zenon DEF TTNext

\* With exact counters, list() is exact.
LEMMA CountedListExact == TTInv => ListExact
<1> SUFFICES ASSUME TTInv, NEW v \in HashAndFormat
             PROVE  (\E s \in Scope : scopes[s] # 0 /\ counters[<<s, scopes[s]>>][v] > 0)
                    <=> (\E t \in Slot : tt[t] # NoTag /\ tt[t].value = v
                                           /\ scopes[tt[t].scope] = tt[t].gen)
    BY Zenon DEF ListExact, List
<1>0. TTTypes /\ Counted /\ MaxGen \in Nat
    BY SlotAssumption, Zenon DEF TTInv
<1>1. ASSUME NEW s \in Scope, NEW g \in 1..MaxGen, scopes[s] = g
      PROVE  counters[<<s, g>>][v] > 0 <=> Tagged(s, g, v) # {}
    <2>1. counters[<<s, g>>][v] = Cardinality(Tagged(s, g, v))
        BY <1>0, <1>1, Zenon DEF Counted
    <2>2. /\ Cardinality(Tagged(s, g, v)) \in Nat
          /\ Cardinality(Tagged(s, g, v)) = 0 <=> Tagged(s, g, v) = {}
        BY TaggedFinite, FS_EmptySet, FS_CardinalityType, Zenon
    <2> QED
        BY <2>1, <2>2
<1>2. ASSUME NEW s \in Scope, scopes[s] # 0, counters[<<s, scopes[s]>>][v] > 0
      PROVE  \E t \in Slot : tt[t] # NoTag /\ tt[t].value = v /\ scopes[tt[t].scope] = tt[t].gen
    <2>1. scopes[s] \in 1..MaxGen
        BY <1>0, <1>2 DEF TTTypes
    <2>2. Tagged(s, scopes[s], v) # {}
        BY <1>1, <1>2, <2>1, Zenon
    <2> QED
        BY <2>2, Zenon DEF Tagged
<1>3. ASSUME NEW t \in Slot, tt[t] # NoTag, tt[t].value = v, scopes[tt[t].scope] = tt[t].gen
      PROVE  \E s \in Scope : scopes[s] # 0 /\ counters[<<s, scopes[s]>>][v] > 0
    <2>1. PICK s \in Scope, g \in 1..MaxGen : s = tt[t].scope /\ g = tt[t].gen
        BY <1>0, <1>3, Zenon DEF TTTypes, Tag
    <2>2. t \in Tagged(s, g, v)
        BY <1>3, <2>1, Zenon DEF Tagged
    <2> QED
        BY <1>0, <1>1, <1>3, <2>1, <2>2
<1> QED
    BY <1>2, <1>3, Zenon

\* TempTags::list returns exactly the values of the tags in use, for any number
\* of tags, hashes, batches and lives of a scope.
THEOREM TempTagsListed == TTSpec => []ListExact
<1>1. TTSpec => []TTInv
    BY TTInvInit, TTInvStep, PTL DEF TTSpec
<1> QED
    BY <1>1, CountedListExact, PTL
===============================================================================
