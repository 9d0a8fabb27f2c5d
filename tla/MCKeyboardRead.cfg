CONSTANTS
    KBD_BUF_SIZE = 3
    Letters = {"a"}
    Symbols = {}
    Keys = {"a", "enter", "alt", "f1", "f2"}
SPECIFICATION Spec
INVARIANTS
    UndisturbedReadExact
PROPERTIES
    ReadReturns
