\* Soft shutdown, drop of the manager and panics at any time; all channels
\* hold one message.
CONSTANTS
    Id = {e1, e2}
    Call = {k1, k2}
    Actor = {a1, a2}
    None = None
    InboxSize = 1
    EntityInboxSize = 1
    ResponseInboxSize = 1
    PoolCapacity = 1
    Events = {"shutdown", "drop", "panic"}
SPECIFICATION FairSpec
INVARIANT OneActorPerEntity
INVARIANT NoCallLost
INVARIANT StateNotLeaked
PROPERTY EveryCallRuns
PROPERTY DropTerminates
CHECK_DEADLOCK FALSE
