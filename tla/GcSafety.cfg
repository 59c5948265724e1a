\* Clients and the collector, which may end with an error, at any time.
CONSTANTS
    h1 = h1
    h2 = h2
    Hash = {h1, h2}
    Batch = {}
    Global = global
    Slot = {t1, t2}
    MaxGen = 1
    NoTag = NoTag
    Name = {n1}
    NoValue = NoValue
    Value <- Values
    Remote = {FALSE}
    Links <- OneSeq
    BatchSize = 1
    Callbacks <- KeepOne
    Events = {"abort", "gc_error"}
SPECIFICATION Spec
SYMMETRY Symmetry
INVARIANT HeldImportsStored
PROPERTY SteadyRootsKept
PROPERTY SteadyMembersKept
PROPERTY RunCollectsGarbage
