SPECIFICATION ShortSpec
CONSTANTS
    Threads = {t1}
    Dirs = {d1, d2}
    Files = {f1, f2}
    Bufs <- ShortBufs
    DiskBlocks = 5
    MAX_DIRS_IN_ROOT = 2
    MAX_FILES_IN_DIR = 2
    MAX_DATA_IN_BLOCK = 2
    MaxSize = 5
    MaxOverwrite = 0
SYMMETRY Symmetry
INVARIANT ReadFits
CHECK_DEADLOCK FALSE
