CONSTANTS
    NUM_COLS = 2
    NUM_ROWS = 2
    PageCells = 5
    Behind = " "
    CursorByte = 2
    KBD_BUF_SIZE = 2
    Glyphs = {"c"}
    Prompt <- MCPrompt
    Complaint <- MCComplaint
    Terms = {0, 1}
    Lengths = {0, 2}
    MaxKeys = 2
SPECIFICATION Spec
INVARIANTS
    TypeOK
    CursorOnScreen
    StoresInPage
    CursorRegisterSelected
    CursorShown
PROPERTIES
    ScreenRestored
