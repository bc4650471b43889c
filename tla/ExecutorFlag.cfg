\* Does the has_executor flag keep a second executor away?
SPECIFICATION Spec
CONSTANTS
    Threads = {t1, t2}
    Main = t1
    Users = {u1}
    Nodes = {"n1", "n2"}
    Groups = {"g1", "g2"}
    Entities = {"sub", "tm", "wt"}
    NodeOf <- MCNodeOf
    GroupOf <- MCGroupOf
    Exclusive = {"g1"}
    Timers = {"tm"}
    Waitables = {"wt"}
    Modes = {"single"}
    Initial = {"n1"}
    Existing = {"sub", "tm"}
    MaxData = 1
    MaxOps = 2
    MaxSpins = 1
    None = None
INVARIANT
    FlagGuardsMembers
CHECK_DEADLOCK FALSE
