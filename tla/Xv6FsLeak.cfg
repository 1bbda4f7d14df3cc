SPECIFICATION Spec
CONSTANTS
    Procs = {21, 22}
    Inums = {1, 2}
    Names = {"a"}
    Blocks = {1}
    MAXFILE = 1
    Calls <- MCCreatUnlink
INVARIANT FreedWithLastReference
CHECK_DEADLOCK FALSE
