\* shutdown awaits room in the full inbox of an entity that is shutting down.
CONSTANTS
    Id = {e1}
    Call = {k1, k2}
    Actor = {a1}
    None = None
    InboxSize = 1
    EntityInboxSize = 1
    ResponseInboxSize = 1
    PoolCapacity = 1
    Events = {"shutdown"}
SPECIFICATION FairSpec
PROPERTY ShutdownTerminates
CHECK_DEADLOCK FALSE
