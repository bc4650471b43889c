\* One change of the time source.
SPECIFICATION FairSpec
CONSTANTS
    Periods = {1, 2}
    MaxSys = 5
    MaxRos = 4
    MaxChanges = 1
PROPERTY
    OnlyRemainderIsWaited
CHECK_DEADLOCK FALSE
