SPECIFICATION FairSpec
CONSTANTS
    NPROC = 3
    CPUs = {11, 12}
    CPU0 = 11
    MaxPid = 3
    Priorities = {50, 60, 201}
    Naps = {1}
INVARIANTS TypeOK RunningExclusive NoLostWakeup ParentAlive
PROPERTY BestServed
