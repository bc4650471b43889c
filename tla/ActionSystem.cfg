\* One goal, two result requests, one cancel request, one executor thread and the
\* user's thread; one message may be lost.
SPECIFICATION FairSpec
CONSTANTS
    Goals = {g1}
    Requests = {r1,r2}
    Cancels = {c1}
    Threads = {t1}
    User = user
    MaxCalls = 2
    MaxLost = 1
    None = None
INVARIANTS
    ResultIsTheServers
    PromiseSetOnce
    DestroyFulfils
    StopIsFinal
PROPERTIES
    StatusStaysFinal
    FuturesComplete
CHECK_DEADLOCK FALSE
