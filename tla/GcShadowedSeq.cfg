\* The same hash is tagged as a plain blob and as a sequence.
CONSTANTS
    h1 = h1
    h2 = h2
    Hash = {h1, h2}
    Batch = {}
    Global = global
    Slot = {t1}
    MaxGen = 1
    NoTag = NoTag
    Name = {n1}
    NoValue = NoValue
    Value <- AllValues
    Remote = {FALSE}
    Links <- OneSeq
    BatchSize = 1
    Callbacks <- NoCallback
    Events = {}
SPECIFICATION Spec
PROPERTY MembersKept
