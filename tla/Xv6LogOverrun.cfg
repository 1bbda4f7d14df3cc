SPECIFICATION Spec
CONSTANTS
    b1 = b1 b2 = b2 b3 = b3 t1 = t1 t2 = t2
    Blocks = {b1, b2, b3}
    Vals = {0, 1}
    Ops = {t1, t2}
    LOGSIZE = 3
    MAXOPBLOCKS = 1
    AfterLog = b3
    Zero = 0
    NoBuf = NoBuf
INVARIANT LogHolds
