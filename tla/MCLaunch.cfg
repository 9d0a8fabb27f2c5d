CONSTANTS
    KBD_BUF_SIZE = 4
    FILENAME_LEN = 2
    ArgSize = 5
    Letters = {"a", "b"}
    Directory <- MCDirectory
    Shell = 2
    MaxProcs = 3
SPECIFICATION Spec
INVARIANTS
    TypeOK
    RunsNamed
    GetargsExact
