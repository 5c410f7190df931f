SPECIFICATION Spec
CONSTANTS
    MaxSequence = 2
    Sizes = {1}
    MaxSegmentRecords = 1
    MaxSegmentBytes = 3
INVARIANT
    RecoveredTailOpens
