CONSTANTS
    KBD_BUF_SIZE = 3
    Letters = {"a"}
    Symbols = {}
    Keys = {"a", "enter"}
SPECIFICATION Spec
PROPERTY
    LineDelivered
