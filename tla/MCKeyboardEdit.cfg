CONSTANTS
    KBD_BUF_SIZE = 3
    Letters = {"l"}
    Symbols = {}
    Keys = {"l", "lshift", "lshift_up", "rshift", "rshift_up", "caps", "ctrl",
            "ctrl_up", "enter", "backspace", "tab", "unsupported"}
SPECIFICATION Spec
INVARIANTS
    TypeOK
    LineCntInBounds
    EnteredLineEnds
PROPERTIES
    ImplementsLineEditor
