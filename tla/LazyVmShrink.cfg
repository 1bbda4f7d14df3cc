SPECIFICATION Spec
CONSTANTS
    NPROC = 2
    NFRAMES = 15
    NPAGES = 3
    NPTENTRIES = 3
    NGAP = 1
    Text = 1
    SbrkSizes = {1, 5}
CHECK_DEADLOCK FALSE
PROPERTY SbrkDeallocates
