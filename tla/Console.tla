------------------------------- MODULE Console -------------------------------
(***************************************************************************)
(* The text screen: the page of video memory, the position screen_x,       *)
(* screen_y where the next character goes (lib.c), the cursor registers of *)
(* the VGA controller (vga.c), and the three terminals' saved screens      *)
(* (dev_term.c).                                                           *)
(*                                                                         *)
(* The running program prints through term_write and putc with interrupts  *)
(* enabled, so a keystroke may come between any two accesses to what the   *)
(* two share: every load and every store of putc, scroll and               *)
(* set_cursor_loc is a step of its own (screen_x++ is a load and a store). *)
(* The keyboard handler runs with interrupts disabled and is one step, in  *)
(* which the same C functions appear as operators on a whole console.      *)
(*                                                                         *)
(* A cell is its character byte.  The attribute byte is ATTRIB in every    *)
(* cell of the screen and is never 0 there; its store matters only for     *)
(* where it goes.                                                          *)
(***************************************************************************)
EXTENDS Integers, SequencesExt

CONSTANTS
    NUM_COLS, NUM_ROWS,
    PageCells,     \* cells of the one page that maps video memory (2048)
    Behind,        \* what the page holds behind the screen at boot
    CursorByte,    \* values of one cursor register (256)
    KBD_BUF_SIZE,
    Glyphs,        \* printable characters, the blank not among them
    Prompt,        \* "391OS> "
    Complaint,     \* "Key Code Not Supported\n391OS> "
    Terms,         \* terminals the user switches to, 0 among them
    Lengths,       \* the nbytes programs pass to write
    MaxKeys        \* bound: keystrokes of a run

NUL == "NUL"
NL == "NL"
BLANK == " "

ASSUME SizeAssumption ==
    /\ NUM_COLS \in Nat \ {0} /\ NUM_ROWS \in Nat \ {0} /\ CursorByte \in Nat \ {0}
    /\ PageCells \in (NUM_ROWS * NUM_COLS)..((NUM_ROWS + 1) * NUM_COLS - 1)
    /\ KBD_BUF_SIZE \in Nat \ {0} /\ MaxKeys \in Nat /\ Lengths \subseteq Nat
ASSUME TextAssumption ==
    /\ Glyphs \cap {NUL, NL, BLANK} = {}
    /\ Prompt \in Seq(Glyphs \cup {BLANK}) /\ Len(Prompt) < NUM_COLS
    /\ Behind \in {NUL, BLANK}
    /\ Complaint \in Seq(Glyphs \cup {BLANK, NL})
ASSUME TermsAssumption == 0 \in Terms /\ Terms \subseteq 0..2

VARIABLES
    video,               \* the cells of the page
    screen_x, screen_y,
    sel,                 \* which register the CRT address port selects
    addr_reg,            \* vga.c's copy of it, shared by all callers
    crt,                 \* the cursor registers: high and low byte
    term_flag,           \* terminal on screen
    kbd_line_cnt,        \* characters typed on each terminal's line
    saved,               \* vid_buf, cursor_x, cursor_y of the terminals off screen
    wpc,                 \* where the program's term_write is
    ch,                  \* the character it prints
    togo,                \* nbytes - i
    reg,                 \* the value it has loaded, or its loop index
    keys,                \* keystrokes so far
    raced,               \* a key came while the position was off screen (auxiliary)
    untimely,            \* crt was last set from an old position (auxiliary)
    left                 \* what each terminal showed when it was left (auxiliary)

con == <<video, screen_x, screen_y>>
port == <<sel, addr_reg, crt>>
term == <<term_flag, kbd_line_cnt, saved, left>>
aux == <<keys, raced, untimely>>
vars == <<con, port, term, aux, wpc, ch, togo, reg>>

-----------------------------------------------------------------------------
Cells == 0..(PageCells - 1)
Screen == 0..(NUM_ROWS * NUM_COLS - 1)
Chars == Glyphs \cup {NUL, BLANK}

get_screen_loc(x, y) == x + NUM_COLS * y

OffScreen(x, y) == x >= NUM_COLS \/ y >= NUM_ROWS

(* What the handler works on: the shared variables, and whether one of its *)
(* stores left the mapped page.                                            *)
Shared == [video |-> video, x |-> screen_x, y |-> screen_y, fault |-> FALSE]

Store(s, c) ==
    LET loc == get_screen_loc(s.x, s.y)
    IN  IF loc \in Cells THEN [s EXCEPT !.video[loc] = c]
                         ELSE [s EXCEPT !.fault = TRUE]

clear(v) == [i \in Cells |-> IF i \in Screen THEN BLANK ELSE v[i]]

(* memmove of all rows but the first, memset_word of the last.             *)
scroll(v) ==
    [i \in Cells |-> IF i < NUM_COLS * (NUM_ROWS - 1) THEN v[i + NUM_COLS]
                     ELSE clear(v)[i]]

(* The part of putc that its two arms share.                               *)
newline(s) ==
    IF s.y + 1 >= NUM_ROWS
    THEN [s EXCEPT !.video = scroll(s.video), !.x = 0, !.y = NUM_ROWS - 1]
    ELSE [s EXCEPT !.x = 0, !.y = @ + 1]

putc(s, c) ==
    IF c = NL THEN newline(s)
    ELSE IF s.x + 1 >= NUM_COLS THEN newline(Store(s, c))
                                ELSE [Store(s, c) EXCEPT !.x = @ + 1]

puts(s, text) == FoldLeft(putc, s, text)

clear_screen(s) ==
    puts([s EXCEPT !.video = clear(@), !.x = 0, !.y = 0], Prompt)

(* Mutation: the left edge is not tested.                                  *)
erase_charUnguarded(s) == Store([s EXCEPT !.x = @ - 1], BLANK)

erase_char(s) ==
    Store([s EXCEPT !.x = IF s.x > 0 THEN s.x - 1
                          ELSE IF s.y > 0 THEN NUM_COLS - 1 ELSE 0,
                    !.y = IF s.x = 0 /\ s.y > 0 THEN @ - 1 ELSE @], BLANK)

(* The two bytes set_cursor_loc sends.                                     *)
CursorBytes(loc) == <<(loc \div CursorByte) % CursorByte, loc % CursorByte>>

Fresh == [vid_buf |-> [i \in Cells |-> NUL], x |-> 0, y |-> 0]

(* The cells before the first NUL.                                         *)
Readable(v) == {i \in Cells : \A j \in 0..i : v[j] # NUL}

(* Zeroes vid_buf, then copies up to and including the first NUL.          *)
save_term(s) ==
    [vid_buf |-> [i \in Cells |-> IF i \in Readable(s.video) THEN s.video[i] ELSE NUL],
     x |-> s.x, y |-> s.y]

(* Mutation: the position is set before the screen is cleared.             *)
switch_termClearsLast(s, t) ==
    LET copied == {i \in Cells : \A j \in 0..(i - 1) : t.vid_buf[j] # NUL}
    IN  [clear_screen(s) EXCEPT !.video = [i \in Cells |-> IF i \in copied THEN t.vid_buf[i]
                                                                           ELSE @[i]]]

(* A screen cleared, with a prompt, over which vid_buf is copied up to and *)
(* including its first NUL.                                                *)
switch_term(s, t) ==
    LET blank == clear_screen(s)
        copied == {i \in Cells : \A j \in 0..(i - 1) : t.vid_buf[j] # NUL}
    IN  [blank EXCEPT !.video = [i \in Cells |-> IF i \in copied THEN t.vid_buf[i] ELSE @[i]],
                      !.x = t.x, !.y = t.y]

Init ==
    LET boot == [video |-> [i \in Cells |-> Behind], x |-> 0, y |-> 0, fault |-> FALSE]
        shown == clear_screen(boot)
    IN  /\ video = shown.video
        /\ screen_x = shown.x /\ screen_y = shown.y
        /\ sel = "other" /\ addr_reg = "other" /\ crt = CursorBytes(0)
        /\ term_flag = 0
        /\ kbd_line_cnt = [t \in Terms |-> 0]
        /\ saved = [t \in Terms |-> Fresh]
        /\ left = [t \in Terms |-> [cells |-> << >>, x |-> 0, y |-> 0]]
        /\ wpc = "idle" /\ ch = NUL /\ togo = 0 /\ reg = 0
        /\ keys = 0 /\ raced = "no" /\ untimely = TRUE

-----------------------------------------------------------------------------
(* The keyboard handler.                                                   *)

(* The program has read a position that it still has to send.              *)
SendingCursor == wpc \in {"loc_col", "save", "high_idx", "high", "low_idx", "low"}

(* Mutation: the address register is not put back.                         *)
set_cursor_locUnrestored(loc) ==
    /\ crt' = CursorBytes(loc)
    /\ addr_reg' = sel
    /\ sel' = "low"

(* set_cursor_loc inside the handler, which restores what it found.        *)
set_cursor_loc(loc) ==
    /\ crt' = CursorBytes(loc)
    /\ addr_reg' = sel
    /\ UNCHANGED sel

(* A key counts against the bound, and may fall where it disturbs putc.    *)
Pressed(kind) ==
    /\ keys < MaxKeys
    /\ wpc # "fault"
    /\ keys' = keys + 1
    /\ raced' = IF raced # "switch" /\ OffScreen(screen_x, screen_y) THEN kind ELSE raced

(* The handler leaves the console as s and the cursor at loc, or stops in  *)
(* the page fault handler's loop.                                          *)
Handled(s, loc) ==
    IF s.fault
    THEN /\ wpc' = "fault"
         /\ UNCHANGED <<con, port, untimely>>
    ELSE /\ video' = s.video /\ screen_x' = s.x /\ screen_y' = s.y
         /\ set_cursor_loc(loc)
         /\ untimely' = (SendingCursor \/ loc # get_screen_loc(s.x, s.y))
         /\ UNCHANGED wpc

(* insert_op and its echo; a full line takes only the newline.             *)
insert_op(c) ==
    LET s == IF c = NL \/ kbd_line_cnt[term_flag] < KBD_BUF_SIZE - 1
             THEN putc(Shared, c) ELSE Shared
    IN  /\ Pressed("key")
        /\ Handled(s, get_screen_loc(s.x, s.y))
        /\ kbd_line_cnt' = [kbd_line_cnt EXCEPT ![term_flag] =
                               IF c = NL THEN 0
                               ELSE IF @ < KBD_BUF_SIZE - 1 THEN @ + 1 ELSE @]
        /\ UNCHANGED <<term_flag, saved, left, ch, togo, reg>>

(* remove_op with a character on the line.                                 *)
remove_op ==
    LET s == erase_char(Shared)
    IN  /\ Pressed("key")
        /\ kbd_line_cnt[term_flag] > 0
        /\ Handled(s, get_screen_loc(s.x, s.y))
        /\ kbd_line_cnt' = [kbd_line_cnt EXCEPT ![term_flag] = @ - 1]
        /\ UNCHANGED <<term_flag, saved, left, ch, togo, reg>>

Unsupported ==
    LET s == puts(Shared, Complaint)
    IN  /\ Pressed("key")
        /\ Handled(s, get_screen_loc(s.x, s.y))
        /\ UNCHANGED <<term, ch, togo, reg>>

(* Ctrl-L: the cursor goes to the corner, the position behind the prompt.  *)
ClearScreen ==
    /\ Pressed("key")
    /\ Handled(clear_screen(Shared), 0)
    /\ UNCHANGED <<term, ch, togo, reg>>

(* Every other key and release; with Ctrl held they do nothing at all.     *)
OtherKey ==
    /\ Pressed("key")
    /\ Handled(Shared, get_screen_loc(screen_x, screen_y))
    /\ UNCHANGED <<term, ch, togo, reg>>

(* Alt-F1, F2, F3.  The buffer of the terminal on screen is dead until the *)
(* next save_term overwrites all of it, so it is kept as Fresh.            *)
SwitchTerm(t) ==
    LET s == switch_term(Shared, saved[t])
    IN  /\ Pressed("switch")
        /\ t # term_flag
        /\ Handled(s, get_screen_loc(s.x, s.y))
        /\ term_flag' = t
        /\ saved' = [saved EXCEPT ![term_flag] = save_term(Shared), ![t] = Fresh]
        /\ left' = [left EXCEPT ![term_flag] =
                       [cells |-> [i \in Readable(video) |-> video[i]],
                        x |-> screen_x, y |-> screen_y],
                    ![t] = [cells |-> << >>, x |-> 0, y |-> 0]]
        /\ UNCHANGED <<kbd_line_cnt, ch, togo, reg>>

-----------------------------------------------------------------------------
(* The program's term_write, a step per access.                            *)

Goto(from, to) == wpc = from /\ wpc' = to

(* A step that loads or computes a value.                                  *)
Load(from, to, value) ==
    /\ Goto(from, to)
    /\ reg' = value
    /\ UNCHANGED <<con, port, term, aux, ch, togo>>

write(n) ==
    /\ Goto("idle", "next")
    /\ togo' = n
    /\ UNCHANGED <<con, port, term, aux, ch, reg>>

(* The test for '\0' at the head of the loop.                              *)
EndOfText ==
    /\ Goto("next", "idle")
    /\ togo' = 0
    /\ UNCHANGED <<con, port, term, aux, ch, reg>>

Character(c) ==
    /\ Goto("next", IF c = NL THEN "nl_load" ELSE "row")
    /\ ch' = c
    /\ raced' = IF raced = "key" THEN "no" ELSE raced
    /\ UNCHANGED <<con, port, term, keys, untimely, togo, reg>>

(* Mutation: rows are counted from 1.                                      *)
RowOfNext(from, to) == Load(from, to, NUM_COLS * (screen_y + 1))

(* NUM_COLS * screen_y + screen_x, loaded in that order.                   *)
RowOf(from, to) == Load(from, to, NUM_COLS * screen_y)
ColOf(from, to) == Load(from, to, reg + screen_x)

(* The character store, which may leave the page, and the attribute store. *)
StoreChar ==
    /\ Goto("store", IF reg \in Cells THEN "attr_row" ELSE "fault")
    /\ video' = IF reg \in Cells THEN [video EXCEPT ![reg] = ch] ELSE video
    /\ reg' = 0 /\ ch' = NUL
    /\ UNCHANGED <<screen_x, screen_y, port, term, aux, togo>>

StoreAttr == Load("attr", IF reg \in Cells THEN "x_load" ELSE "fault", 0)

(* screen_x++ and the test for the end of the row.                         *)
XLoad == Load("x_load", "x_store", screen_x)

XStore ==
    /\ Goto("x_store", "x_test")
    /\ screen_x' = reg + 1
    /\ reg' = 0
    /\ UNCHANGED <<video, screen_y, port, term, aux, ch, togo>>

XTest == Load("x_test", IF screen_x >= NUM_COLS THEN "nl_load" ELSE "loc_row", 0)

(* screen_y++, screen_x = 0 and the test for the end of the screen.        *)
YLoad == Load("nl_load", "nl_store", screen_y)

YStore ==
    /\ Goto("nl_store", "nl_x")
    /\ screen_y' = reg + 1
    /\ reg' = 0 /\ ch' = NUL
    /\ UNCHANGED <<video, screen_x, port, term, aux, togo>>

XReset ==
    /\ Goto("nl_x", "nl_test")
    /\ screen_x' = 0
    /\ UNCHANGED <<video, screen_y, port, term, aux, ch, togo, reg>>

(* Mutation: the end of the screen is found one row late.                  *)
YTestLate == Load("nl_test", IF screen_y > NUM_ROWS THEN "move" ELSE "loc_row", 0)

YTest == Load("nl_test", IF screen_y >= NUM_ROWS THEN "move" ELSE "loc_row", 0)

(* scroll: the words of memmove and memset_word, one after the other.      *)
Move ==
    LET last == NUM_COLS * (NUM_ROWS - 1)
    IN  /\ Goto("move", IF reg + 1 < last THEN "move" ELSE "fill")
        /\ video' = IF reg < last THEN [video EXCEPT ![reg] = video[reg + NUM_COLS]]
                                  ELSE video
        /\ reg' = IF reg < last THEN reg + 1 ELSE reg
        /\ UNCHANGED <<screen_x, screen_y, port, term, aux, ch, togo>>

Fill ==
    /\ Goto("fill", IF reg + 1 < NUM_COLS * NUM_ROWS THEN "fill" ELSE "bottom")
    /\ video' = [video EXCEPT ![reg] = BLANK]
    /\ reg' = IF reg + 1 < NUM_COLS * NUM_ROWS THEN reg + 1 ELSE 0
    /\ UNCHANGED <<screen_x, screen_y, port, term, aux, ch, togo>>

Bottom ==
    /\ Goto("bottom", "loc_row")
    /\ screen_y' = NUM_ROWS - 1
    /\ UNCHANGED <<video, screen_x, port, term, aux, ch, togo, reg>>

(* The first load of get_screen_loc for the program's set_cursor_loc.      *)
Locate ==
    /\ Goto("loc_row", "loc_col")
    /\ reg' = NUM_COLS * screen_y
    /\ untimely' = FALSE
    /\ UNCHANGED <<con, port, term, keys, raced, ch, togo>>

SaveSel ==
    /\ Goto("save", "high_idx")
    /\ addr_reg' = sel
    /\ UNCHANGED <<con, sel, crt, term, aux, ch, togo, reg>>

Select(from, to, r) ==
    /\ Goto(from, to)
    /\ sel' = r
    /\ UNCHANGED <<con, addr_reg, crt, term, aux, ch, togo, reg>>

(* A write to the data port goes to the selected register.                 *)
DataPort(byte) ==
    /\ crt' = [crt EXCEPT ![1] = IF sel = "high" THEN byte ELSE @,
                          ![2] = IF sel = "low"  THEN byte ELSE @]
    /\ UNCHANGED <<con, sel, addr_reg, term, aux, ch, togo>>

(* Mutation: the location is not shifted.                                  *)
SendHighUnshifted ==
    /\ Goto("high", "low_idx")
    /\ DataPort(CursorBytes(reg)[2])
    /\ UNCHANGED reg

SendHigh ==
    /\ Goto("high", "low_idx")
    /\ DataPort(CursorBytes(reg)[1])
    /\ UNCHANGED reg

SendLow ==
    /\ Goto("low", "restore")
    /\ DataPort(CursorBytes(reg)[2])
    /\ reg' = 0

(* The end of putc, and of the loop unless bytes are left.                 *)
Restore ==
    /\ Goto("restore", IF togo > 1 THEN "next" ELSE "idle")
    /\ sel' = addr_reg
    /\ togo' = IF togo > 1 THEN togo - 1 ELSE 0
    /\ UNCHANGED <<con, addr_reg, crt, term, aux, ch, reg>>

(* The page fault handler loops for ever.                                  *)
Fault ==
    /\ wpc = "fault"
    /\ UNCHANGED vars

Program ==
    \/ EndOfText
    \/ \E c \in Glyphs \cup {NL} : Character(c)
    \/ RowOf("row", "col") \/ ColOf("col", "store") \/ StoreChar
    \/ RowOf("attr_row", "attr_col") \/ ColOf("attr_col", "attr") \/ StoreAttr
    \/ XLoad \/ XStore \/ XTest
    \/ YLoad \/ YStore \/ XReset \/ YTest
    \/ Move \/ Fill \/ Bottom
    \/ Locate \/ ColOf("loc_col", "save")
    \/ SaveSel
    \/ Select("high_idx", "high", "high") \/ SendHigh
    \/ Select("low_idx", "low", "low") \/ SendLow
    \/ Restore

Key ==
    \/ \E c \in Glyphs \cup {NL} : insert_op(c)
    \/ remove_op
    \/ Unsupported
    \/ ClearScreen
    \/ OtherKey
    \/ \E t \in Terms : SwitchTerm(t)

Next ==
    \/ \E n \in Lengths : write(n)
    \/ Program
    \/ Key
    \/ Fault

Spec == Init /\ [][Next]_vars

-----------------------------------------------------------------------------
Writing == {"idle", "next", "row", "col", "store", "attr_row", "attr_col", "attr",
            "x_load", "x_store", "x_test", "nl_load", "nl_store", "nl_x", "nl_test",
            "move", "fill", "bottom", "loc_row", "loc_col",
            "save", "high_idx", "high", "low_idx", "low", "restore", "fault"}

Registers == {"high", "low", "other"}

TypeOK ==
    /\ video \in [Cells -> Chars]
    /\ screen_x \in Nat /\ screen_y \in Nat
    /\ sel \in Registers /\ addr_reg \in Registers
    /\ crt \in (0..(CursorByte - 1)) \X (0..(CursorByte - 1))
    /\ term_flag \in Terms
    /\ kbd_line_cnt \in [Terms -> 0..(KBD_BUF_SIZE - 1)]
    /\ DOMAIN saved = Terms
    /\ \A t \in Terms :
          /\ saved[t].vid_buf \in [Cells -> Chars]
          /\ saved[t].x \in Nat /\ saved[t].y \in Nat
    /\ wpc \in Writing
    /\ ch \in Glyphs \cup {NUL, NL}
    /\ togo \in Nat /\ reg \in Nat /\ keys \in 0..MaxKeys
    /\ raced \in {"no", "key", "switch"} /\ untimely \in BOOLEAN
    /\ DOMAIN left = Terms

(* After every write the next character goes to a cell of the screen, even *)
(* if keys were echoed in the middle of putc, whose updates of screen_x    *)
(* and screen_y the echo overwrites or is overwritten by.  The exception   *)
(* is a terminal switch between putc's increment of the position and the   *)
(* scroll that brings it back: it saves a position off the screen.         *)
CursorOnScreen ==
    wpc = "idle" /\ raced # "switch" => ~OffScreen(screen_x, screen_y)

(* putc and its echo never store outside the page of video memory, unless  *)
(* a key came while the position was off the screen, between the           *)
(* increment and the scroll; then the kernel may stop with a page fault.   *)
StoresInPage == wpc = "fault" => raced # "no"

(* The program's two writes to the CRT data port reach the register it     *)
(* selected, although the keyboard handler may select others in between    *)
(* and vga.c keeps only one saved address register for both.               *)
CursorRegisterSelected ==
    /\ wpc = "high" => sel = "high"
    /\ wpc = "low" => sel = "low"

(* Between writes the cursor shown is where the next character goes,       *)
(* unless a key came between putc's reading of the position and its last   *)
(* register write, or the last key was Ctrl-L, or nothing was printed yet. *)
CursorShown ==
    wpc = "idle" /\ ~untimely => crt = CursorBytes(get_screen_loc(screen_x, screen_y))

(* Going back to a terminal brings back what it showed when it was left,   *)
(* up to the first NUL byte, the position where its output goes on and the *)
(* cursor, whatever was printed or cleared on the others in between.       *)
Restored(t) ==
    /\ \A i \in DOMAIN left[t].cells : video'[i] = left[t].cells[i]
    /\ screen_x' = left[t].x /\ screen_y' = left[t].y
    /\ crt' = CursorBytes(get_screen_loc(left[t].x, left[t].y))

ScreenRestored == [][term_flag' # term_flag => Restored(term_flag')]_vars
=============================================================================
