CONSTANTS
    Sizes = {1}
    MaxBlockSize = 4
    MaxBlocks = 2
    MaxItems = 6
SPECIFICATION BlockingSpec
INVARIANTS SemaTypeOK Balanced SuccessAsserted
PROPERTIES TimedSpec Delivered
CHECK_DEADLOCK FALSE
