CONSTANTS
    MaxPrograms = 6
    NumFloor <- MCNumFloor
    FrameSize = 400
    Switchable = {0, 1, 2}
SPECIFICATION Spec
INVARIANT OnlyShellRestarted
