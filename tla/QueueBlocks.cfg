CONSTANTS
    Sizes = {1, 3, 4}
    MaxBlockSize = 2
    MaxBlocks = 6
    MaxItems = 6
SPECIFICATION RingSpec
INVARIANTS Exact Asserted FalseOnlyIfEmpty HoldsSize PeekIsNext SizeBounds
PROPERTIES FifoSpec
CHECK_DEADLOCK FALSE
