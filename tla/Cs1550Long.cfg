SPECIFICATION Spec
CONSTANTS
    Threads = {t1}
    Dirs = {d1, d2}
    Files = {f1, f2}
    Bufs <- LongBufs
    DiskBlocks = 6
    MAX_DIRS_IN_ROOT = 2
    MAX_FILES_IN_DIR = 2
    MAX_DATA_IN_BLOCK = 2
    MaxSize = 5
    MaxOverwrite = 0
SYMMETRY Symmetry
INVARIANT UsedBlocksMarked
CHECK_DEADLOCK FALSE
