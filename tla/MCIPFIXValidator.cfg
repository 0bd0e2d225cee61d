SPECIFICATION FairSpec
CONSTANTS
    Lengths <- MCLengths
    Words <- MCWords
INVARIANTS
    ReadsInside
    AcceptedIsCovered
PROPERTIES
    ReadsForward
    Terminates
CHECK_DEADLOCK FALSE
