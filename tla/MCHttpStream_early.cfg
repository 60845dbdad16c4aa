\* As in MCHttpStream_ok.cfg; the comparison of the code with what its flag says.
CONSTANTS
    MaxMessages = 2
    ChunckMin = 3
    BufferMax = 10
SPECIFICATION Spec
CHECK_DEADLOCK FALSE
INVARIANT OnlyWholeAnalysed
