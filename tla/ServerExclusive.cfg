\* Mutually exclusive group (the default): two threads share the handlers of two
\* goals, and the clock may go past the end of a goal's timeout.
SPECIFICATION FairSpec
CONSTANTS
    Goals = {g1, g2}
    UUIDs = {g1, g2}
    UUIDOf <- DistinctIds
    Threads = {t1, t2}
    Requests = {r1}
    Cancels = {c1}
    CancelStamps = {0}
    Responses = {"EXECUTE"}
    UserOps = {"SUCCEED"}
    Reentrant = FALSE
    Timeout = 0
    MaxTime = 2
    None = None
PROPERTIES
    AcceptedGoalIsKnown
    SelectedGoalIsAsked
    EveryRequestAnswered
CHECK_DEADLOCK FALSE
