SPECIFICATION FairSpec
CONSTANTS
    up = up
    down = down
    Tokens <- MCTokens
    Messages <- MCMessages
    Subscriptions <- MCSubscriptions
    Capacity = 2
    StaleAfter = 0
    MaxLog = 5
    MaxSequence = 5
    MaxClock <- MCMaxClock
    MaxTroubles = 1
INVARIANTS
    LiveIsReplay
    BooksAreCurrent
    AuthorityIsSound
    CheckpointAgrees
PROPERTIES
    StaleIsNoticed
CHECK_DEADLOCK FALSE
