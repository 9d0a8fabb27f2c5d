CONSTANTS
    MaxNest = 4
    MaxBurst = 2
SPECIFICATION Spec
INVARIANTS
    TypeOK
    InServiceExact
    RegisterSelected
    GateBeforeLine
    UserInterruptible
PROPERTIES
    TurnRotates
    RtcReadReturns
    KeyServed
