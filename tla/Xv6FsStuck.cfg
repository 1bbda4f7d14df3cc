SPECIFICATION FairSpec
CONSTANTS
    Procs = {21, 22}
    Inums = {1, 2}
    Names = {"a"}
    Blocks = {1}
    MAXFILE = 1
    Calls <- MCCreatUnlink
PROPERTY SyscallReturns
CHECK_DEADLOCK FALSE
