SPECIFICATION FairSpec
CONSTANTS
    Types = {t1, t2}
    NumPieces = 2
    MaxRequests = 1
PROPERTIES EveryRequestIsAnswered
CHECK_DEADLOCK FALSE
