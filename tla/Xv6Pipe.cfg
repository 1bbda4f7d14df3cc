SPECIFICATION FairSpec
CONSTANTS
    Procs = {1, 2}
    First = 1
    NFILE = 2
    NOFILE = 2
    PIPESIZE = 2
    UINT = 4
    Bytes = {0, 1}
    Writes <- MCWrites
    Reads = {2}
INVARIANTS TypeOK FileRefsExact EndsStayOpen
PROPERTIES SleepersHaveReason FifoSpec ClosedEndReleases
CHECK_DEADLOCK FALSE
