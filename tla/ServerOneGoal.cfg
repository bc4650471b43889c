\* One goal under every user behaviour, reentrant group: two threads, a result request,
\* two cancel requests; the result may expire while handlers and user code are at work.
SPECIFICATION Spec
CONSTANTS
    Goals = {g1}
    UUIDs = {g1}
    UUIDOf <- DistinctIds
    Threads = {t1, t2}
    Requests = {r1}
    Cancels = {c1, c2}
    CancelStamps = {0, 1}
    Responses = {"REJECT", "EXECUTE", "DEFER", "LOST"}
    UserOps = {"EXECUTE", "SUCCEED", "ABORT", "CANCELED", "DROP"}
    Reentrant = TRUE
    Timeout = 1
    MaxTime = 3
    None = None
SYMMETRY Symmetry
INVARIANTS
    TypeOK
    AnswersAreFinal
    AnsweredOnce
    StatusUpToDate
    CanceledByOneRequest
    NoRequestForgotten
    TrackedHandleIsOwned
    ExpiryArmed
PROPERTIES
    ImplementsContract
CHECK_DEADLOCK FALSE
