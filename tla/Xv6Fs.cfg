SPECIFICATION Spec
CONSTANTS
    Procs = {21, 22}
    Inums = {1, 2, 3}
    Names = {"a", "d"}
    Blocks = {1, 2}
    MAXFILE = 1
    Calls <- MCCalls
INVARIANTS TypeOK RefsExact LinksCoverNames InUseAllocated BlocksExact
CHECK_DEADLOCK FALSE
