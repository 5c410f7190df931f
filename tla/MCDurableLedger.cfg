SPECIFICATION DurableSpec
CONSTANTS
    r1 = r1
    l1 = l1
    up = up
    down = down
    CommandIds <- MCCommandIds
    ReservationIds <- MCReservationIds
    LockIds <- MCLockIds
    Tokens <- MCTokens
    Condition <- MCCondition
    Commands <- MCCommands
    MaxLog = 4
    CrashKinds = {"process", "power"}
CHECK_DEADLOCK FALSE
INVARIANTS
    AcknowledgedSurvive
    BooksMatchJournal
PROPERTIES
    ImplementsLedger
