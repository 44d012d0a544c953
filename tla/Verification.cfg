SPECIFICATION FairSpec
CONSTANTS
    Types = {t1, t2}
    NumPieces = 2
    MaxRequests = 2
INVARIANTS RequestsAreKept VerifiedIsRight
PROPERTIES SearchIsAnswered
CHECK_DEADLOCK FALSE
