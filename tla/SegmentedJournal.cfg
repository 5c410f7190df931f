SPECIFICATION Spec
CONSTANTS
    MaxSequence = 3
    Sizes = {1, 2}
    MaxSegmentRecords = 2
    MaxSegmentBytes = 3
INVARIANTS
    AckedEventsSurvive
PROPERTIES
    ImplementsDurableLog
