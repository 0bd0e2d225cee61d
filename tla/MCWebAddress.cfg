SPECIFICATION Spec
CONSTANTS
    Invocations <- MCInvocations
    MaxSignals = 2
    MaxInt = 524287
    Millisecond = 4
    Second = 4000
    MaxCounter = 32767
INVARIANTS
    WebAddressUsable
CHECK_DEADLOCK FALSE
