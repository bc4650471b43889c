\* One timer, periods 1 and 2, one activation of the ROS time override.
SPECIFICATION FairSpec
CONSTANTS
    Periods = {1, 2}
    MaxSys = 4
    MaxRos = 3
    MaxChanges = 1
INVARIANTS
    TypeOK
    NoLostWakeup
PROPERTIES
    CallSchedulesNextSlot
    ReadyTimerIsServed
CHECK_DEADLOCK FALSE
