SPECIFICATION FairSpec
CONSTANTS
    None = None
    Pubs = {p1, p2}
    Subs = {s1, s2, s3}
    Owning = {s2}
    Transient = {p1, s1}
    EventSubs = {s2}
    Unserved = {s3}
    Deep = {s2}
    Busy = {p2}
    Leaving = {p1, s2}
    Depth <- MCDepth
    MaxMsgs <- MCMaxMsgs
INVARIANTS ExclusiveOwnership DataIsAnnounced
PROPERTIES ImplementsTopic DataIsTaken
CHECK_DEADLOCK FALSE
