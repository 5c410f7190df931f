SPECIFICATION Spec
CONSTANTS
    r1 = r1
    r2 = r2
    r3 = r3
    l1 = l1
    up = up
    down = down
    CommandIds <- MCCommandIds
    ReservationIds <- MCReservationIds
    LockIds <- MCLockIds
    Tokens <- MCTokens
    Condition <- MCCondition
    Commands <- MCCommands
INVARIANTS
    CommandsCountOnce
    Conservation
    ReservationBacked
    LockBacked
    InventoryBacked
    NoOverdraft
    CostBacked
