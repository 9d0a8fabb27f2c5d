CONSTANTS
    KBD_BUF_SIZE = 3
    Letters = {"a"}
    Symbols = {}
    Keys = {"enter", "alt", "f1", "f2"}
SPECIFICATION Spec
INVARIANT
    NeverOverruns
