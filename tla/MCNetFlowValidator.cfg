SPECIFICATION Spec
CONSTANTS
    Lengths <- MCLengths
    Words <- MCWords
    FieldLengths <- MCFieldLengths
    MaxFlowCount = 4
INVARIANTS
    ReadsInside
    AcceptedIffExplained
PROPERTIES
    ReadsForward
CHECK_DEADLOCK FALSE
