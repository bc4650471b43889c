\* Two threads, every spin function, one spin.
SPECIFICATION FairSpec
CONSTANTS
    Threads = {t1, t2}
    Main = t1
    Users = {u1}
    Nodes = {"n1", "n2"}
    Groups = {"g1", "g2"}
    Entities = {"sub", "tm", "wt"}
    NodeOf <- MCNodeOf
    GroupOf <- MCGroupOf
    Exclusive = {"g1"}
    Timers = {"tm"}
    Waitables = {"wt"}
    Modes = {"multi", "single", "once", "some", "all"}
    Initial = {"n1"}
    Existing = {"sub", "tm"}
    MaxData = 1
    MaxOps = 2
    MaxSpins = 1
    None = None
INVARIANTS
    MutualExclusion
    SleepMissesNothing
    FlagIsReleased
    NothingRunsTwice
PROPERTIES
    WorkIsServed
    SpinEnds
CHECK_DEADLOCK FALSE
