CONSTANTS
    MaxPrograms = 3
    NumFloor <- MCNumFloor
    FrameSize = 400
    Switchable = {0, 1}
SPECIFICATION Spec
INVARIANTS
    TypeOK
    CountersAgree
    RestartAdmitted
    ContextOfCurrent
    SavedFrames
    CountedTerminalHasPcb
    VideoMapped
    SuspendedIntact
PROPERTIES
    HaltCompletes
