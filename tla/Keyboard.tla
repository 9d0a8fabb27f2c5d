------------------------------- MODULE Keyboard -------------------------------
(***************************************************************************)
(* The keyboard interrupt handler (dev_kbd.c), the line buffers of the     *)
(* three terminals, and term_read (dev_term.c), by which the running       *)
(* program waits for a line and copies it.                                 *)
(*                                                                         *)
(* The handler runs with interrupts disabled and is one step.  term_read   *)
(* runs with interrupts enabled: it is one step per statement that looks   *)
(* at term_flag or at a buffer, and a keystroke may come between any two.  *)
(* is_kbd_ready, unset_kbd_ready and get_kbd_buf each ask anew which       *)
(* terminal is on screen.  The screen itself is not part of this module.   *)
(***************************************************************************)
EXTENDS Integers, Sequences

CONSTANTS
    KBD_BUF_SIZE,  \* bytes of a line buffer (128 in the code)
    Letters,       \* keys whose character depends on shift and caps lock
    Symbols,       \* keys whose character depends on shift only
    Keys           \* the keys pressed and released in a run

ASSUME BufAssumption == KBD_BUF_SIZE \in Nat /\ KBD_BUF_SIZE >= 2

Terms == 0..2

(* The keys the decoder treats by their scan code; "up" is the release of  *)
(* any other key, "unsupported" one for which the tables hold 1.           *)
Controls == {"ctrl", "ctrl_up", "alt", "alt_up", "caps", "f1", "f2", "f3", "enter",
             "backspace", "tab", "unsupported", "up",
             "lshift", "lshift_up", "rshift", "rshift_up"}

ASSUME KeysAssumption ==
    /\ Keys \subseteq Controls \cup Letters \cup Symbols
    /\ (Letters \cup Symbols) \cap Controls = {}
    /\ (Letters \cup Symbols) \cap {"NUL", "NL", "BS", "TAB", "ONE"} = {}
    /\ Letters \cap Symbols = {}

(* A printable character: its key, and whether it is the upper one.        *)
Printable == (Letters \cup Symbols) \X {0, 1}

(* '\0', '\n', '\b', '\t' and the tables' 1.                               *)
NUL == <<"NUL", 0>>
NL == <<"NL", 0>>
BS == <<"BS", 0>>
TAB == <<"TAB", 0>>
ONE == <<"ONE", 0>>

Index == 0..(KBD_BUF_SIZE - 1)
Blank == [i \in Index |-> NUL]
Bytes == Printable \cup {NUL, NL}

VARIABLES
    ctrl_flag, alt_flag, shift_flag, caps_flag,
    term_flag,   \* terminal on screen
    term_arr,    \* per terminal: kbd_line_cnt, kbd_line_buf, kbd_out_buf, kbd_ready
    rpc,         \* where the running program is: see Reading
    local,       \* term_read's term_local, the terminal whose buffer it copies
    i,           \* term_read's i
    buf,         \* the program's buffer
    undisturbed  \* no key since term_read saw a line (auxiliary)

flags == <<ctrl_flag, alt_flag, shift_flag, caps_flag>>
vars == <<flags, term_flag, term_arr, rpc, local, i, buf, undisturbed>>

(***************************************************************************)
(* "user"     outside term_read, after a first or another read             *)
(* "poll"     while (!is_kbd_ready());                                     *)
(* "unset"    unset_kbd_ready()                                            *)
(* "get"      get_kbd_buf() and the memset of buf                          *)
(* "test"     term_local[i] != '\n'                                        *)
(* "copy"     buf[i] = term_local[i], a second read of the same byte       *)
(* "overrun"  term_local[i] is beyond kbd_out_buf                          *)
(***************************************************************************)
Reading == {"user", "poll", "unset", "get", "test", "copy", "overrun"}

Init ==
    /\ ctrl_flag = 0 /\ alt_flag = 0 /\ shift_flag = 0 /\ caps_flag = 0
    /\ term_flag = 0
    /\ term_arr = [t \in Terms |-> [kbd_line_cnt |-> 0, kbd_line_buf |-> Blank,
                                    kbd_out_buf |-> Blank, kbd_ready |-> 0]]
    /\ rpc = "user" /\ local = 0 /\ i = 0 /\ buf = Blank /\ undisturbed = FALSE

-----------------------------------------------------------------------------
(* The interrupt handler.                                                  *)

(* Mutation: backspace on an empty line is not refused.                    *)
remove_op_unchecked(t) ==
    [t EXCEPT !.kbd_ready = 0,
              !.kbd_line_cnt = (@ - 1) % 256,
              !.kbd_line_buf[(t.kbd_line_cnt - 1) % 256] = NL]

remove_op(t) ==
    IF t.kbd_line_cnt > 0
    THEN [t EXCEPT !.kbd_ready = 0,
                   !.kbd_line_cnt = @ - 1,
                   !.kbd_line_buf = [@ EXCEPT ![t.kbd_line_cnt - 1] = NL]]
    ELSE [t EXCEPT !.kbd_ready = 0]

(* Mutation: the limit is the whole buffer, no room is kept for '\n'.      *)
LineFullLate(t) == t.kbd_line_cnt >= KBD_BUF_SIZE

LineFull(t) == t.kbd_line_cnt >= KBD_BUF_SIZE - 1

(* Mutation: the buffer is published before the '\n' is stored.            *)
EnterPublishesEarly(t) ==
    [kbd_line_cnt |-> 0, kbd_line_buf |-> Blank,
     kbd_out_buf |-> t.kbd_line_buf, kbd_ready |-> 1]

(* The '\n' arm of insert_op.                                              *)
Enter(t) ==
    [kbd_line_cnt |-> 0, kbd_line_buf |-> Blank,
     kbd_out_buf |-> [t.kbd_line_buf EXCEPT ![t.kbd_line_cnt] = NL],
     kbd_ready |-> 1]

insert_op(t, c) ==
    IF LineFull(t) /\ c # NL
    THEN [t EXCEPT !.kbd_line_buf = [@ EXCEPT ![KBD_BUF_SIZE - 1] = NL]]
    ELSE IF c = TAB THEN t
    ELSE IF c = NL THEN Enter(t)
    ELSE [t EXCEPT !.kbd_ready = 0,
                   !.kbd_line_cnt = @ + 1,
                   !.kbd_line_buf = [@ EXCEPT ![t.kbd_line_cnt] = c]]

(* The flags after key k: make codes set, break codes clear, caps toggles. *)
Flag(k, down, up, f) == IF k \in down THEN 1 ELSE IF k \in up THEN 0 ELSE f

(* The four character tables, chosen by the flags as they are after k.     *)
CharOf(k, shift, caps) ==
    CASE k \in Letters      -> <<k, IF shift = caps THEN 0 ELSE 1>>
      [] k \in Symbols      -> <<k, shift>>
      [] k = "enter"        -> NL
      [] k = "backspace"    -> BS
      [] k = "tab"          -> TAB
      [] k = "unsupported"  -> ONE
      [] OTHER              -> NUL

(* The terminal on screen after key k.                                     *)
SwitchTo(k, alt) ==
    CASE alt = 1 /\ k = "f1" -> 0
      [] alt = 1 /\ k = "f2" -> 1
      [] alt = 1 /\ k = "f3" -> 2
      [] OTHER               -> term_flag

(* With Ctrl held the handler only looks for l, which clears the screen;   *)
(* an unsupported key prints a message.                                    *)
Edited(c, t) ==
    IF ctrl_flag' = 1 \/ c \in {NUL, ONE} THEN t
    ELSE IF c = BS THEN remove_op(t) ELSE insert_op(t, c)

kbd_intr_handler(k) ==
    /\ ctrl_flag' = Flag(k, {"ctrl"}, {"ctrl_up"}, ctrl_flag)
    /\ alt_flag' = Flag(k, {"alt"}, {"alt_up"}, alt_flag)
    /\ shift_flag' = Flag(k, {"lshift", "rshift"}, {"lshift_up", "rshift_up"}, shift_flag)
    /\ caps_flag' = IF k = "caps" THEN 1 - caps_flag ELSE caps_flag
    /\ term_flag' = SwitchTo(k, alt_flag')
    /\ term_arr' = [term_arr EXCEPT
                      ![term_flag'] = Edited(CharOf(k, shift_flag', caps_flag'), @)]
    /\ undisturbed' = FALSE
    /\ UNCHANGED <<rpc, local, i, buf>>

-----------------------------------------------------------------------------
(* term_read.                                                              *)

TermRead ==
    /\ rpc = "user"
    /\ rpc' = "poll"
    /\ UNCHANGED <<flags, term_flag, term_arr, local, i, buf, undisturbed>>

(* -1 for a NULL buffer or a negative nbytes, before anything else.        *)
TermReadRefused ==
    /\ rpc = "user"
    /\ UNCHANGED vars

is_kbd_ready ==
    /\ rpc = "poll"
    /\ term_arr[term_flag].kbd_ready = 1
    /\ rpc' = "unset"
    /\ undisturbed' = TRUE
    /\ UNCHANGED <<flags, term_flag, term_arr, local, i, buf>>

unset_kbd_ready ==
    /\ rpc = "unset"
    /\ term_arr' = [term_arr EXCEPT ![term_flag].kbd_ready = 0]
    /\ rpc' = "get"
    /\ UNCHANGED <<flags, term_flag, local, i, buf, undisturbed>>

get_kbd_buf ==
    /\ rpc = "get"
    /\ local' = term_flag
    /\ i' = 0
    /\ buf' = Blank
    /\ rpc' = "test"
    /\ UNCHANGED <<flags, term_flag, term_arr, undisturbed>>

TestByte ==
    /\ rpc = "test"
    /\ i \in Index
    /\ rpc' = IF term_arr[local].kbd_out_buf[i] = NL THEN "user" ELSE "copy"
    /\ UNCHANGED <<flags, term_flag, term_arr, local, i, buf, undisturbed>>

(* Mutation: the index is not advanced.                                    *)
CopyByteStays ==
    /\ rpc = "copy"
    /\ buf' = [buf EXCEPT ![i] = term_arr[local].kbd_out_buf[i]]
    /\ rpc' = "test"
    /\ UNCHANGED <<flags, term_flag, term_arr, local, i, undisturbed>>

CopyByte ==
    /\ rpc = "copy"
    /\ buf' = [buf EXCEPT ![i] = term_arr[local].kbd_out_buf[i]]
    /\ i' = i + 1
    /\ rpc' = "test"
    /\ UNCHANGED <<flags, term_flag, term_arr, local, undisturbed>>

(* No '\n' in the buffer.  The code has no bound: the loop goes on in the  *)
(* fields that follow, and stores to what follows the program's buffer.    *)
(* Of that this module says nothing, not even that it ends.                *)
Overrun ==
    /\ rpc = "test"
    /\ i \notin Index
    /\ rpc' = "overrun"
    /\ UNCHANGED <<flags, term_flag, term_arr, local, i, buf, undisturbed>>

Read == is_kbd_ready \/ unset_kbd_ready \/ get_kbd_buf \/ TestByte \/ CopyByte \/ Overrun

Keystroke == \E k \in Keys : kbd_intr_handler(k)

Next ==
    \/ Keystroke
    \/ TermRead
    \/ TermReadRefused
    \/ Read

(* A program that reads goes on reading, and the CPU goes on with          *)
(* term_read; nothing is assumed of the user.                              *)
Fairness == WF_vars(TermRead) /\ WF_vars(Read)

Spec == Init /\ [][Next]_vars /\ Fairness

-----------------------------------------------------------------------------
TypeOK ==
    /\ {ctrl_flag, alt_flag, shift_flag, caps_flag} \subseteq {0, 1}
    /\ term_flag \in Terms
    /\ term_arr \in [Terms -> [kbd_line_cnt : 0..KBD_BUF_SIZE,
                               kbd_line_buf : [Index -> Bytes],
                               kbd_out_buf : [Index -> Bytes],
                               kbd_ready : {0, 1}]]
    /\ rpc \in Reading
    /\ local \in Terms
    /\ i \in 0..KBD_BUF_SIZE
    /\ buf \in [Index -> Bytes]
    /\ undisturbed \in BOOLEAN

(* Wherever typing, erasing and switching led, there is room for the '\n'  *)
(* of Enter: insert_op never stores beyond kbd_line_buf.                   *)
LineCntInBounds == \A t \in Terms : term_arr[t].kbd_line_cnt <= KBD_BUF_SIZE - 1

(* A line that is announced, or was ever entered, ends inside the buffer   *)
(* that term_read scans for '\n' without a bound.                          *)
EnteredLineEnds ==
    \A t \in Terms :
        term_arr[t].kbd_ready = 1 \/ term_arr[t].kbd_out_buf # Blank =>
            \E j \in Index : term_arr[t].kbd_out_buf[j] = NL

(* The characters before the first '\n' of a buffer.                       *)
LineOf(b) ==
    IF \E j \in Index : b[j] = NL
    THEN LET n == CHOOSE j \in Index : b[j] = NL /\ \A h \in 0..(j - 1) : b[h] # NL
         IN  [h \in 1..n |-> b[h - 1]]
    ELSE <<>>

(* If no key comes between the poll that sees the line and the return,     *)
(* term_read delivers the line of the terminal on screen, all of it and    *)
(* nothing else, and it leaves the buffer only if a key came.              *)
UndisturbedReadExact ==
    undisturbed => /\ rpc # "overrun"
                   /\ rpc = "user" =>
                        LineOf(term_arr[term_flag].kbd_out_buf) = [h \in 1..i |-> buf[h - 1]]

(* A term_read that has seen a line returns unless a key comes: the loop   *)
(* that looks for '\n' has no bound of its own, so it comes to an end only  *)
(* because whatever was typed, erased and entered before has left a '\n'   *)
(* in the buffer it was announced with.                                    *)
ReadReturns ==
    undisturbed /\ rpc \in {"unset", "get", "test", "copy", "overrun"}
        ~> rpc = "user" \/ ~undisturbed

(* The line being edited on terminal record t.                             *)
TypedOf(t) == [h \in 1..t.kbd_line_cnt |-> t.kbd_line_buf[h - 1]]

TypedLines == [t \in Terms |-> TypedOf(term_arr[t])]
EnteredLines == [t \in Terms |-> LineOf(term_arr[t].kbd_out_buf)]

(* The buffers implement the line editor: the first kbd_line_cnt bytes of  *)
(* kbd_line_buf are the line being edited, kbd_out_buf up to its first     *)
(* '\n' is the line last entered, whatever bytes lie beyond.               *)
Edit == INSTANCE LineEditor
        WITH Chars <- Printable,
             MaxLine <- KBD_BUF_SIZE - 1,
             typed <- TypedLines,
             entered <- EnteredLines

ImplementsLineEditor == Edit!Spec

(* "number of bytes to read (fixed to 128 really)" (dev_term.c): term_read *)
(* stays within the 128 bytes of kbd_out_buf.                              *)
NeverOverruns == rpc # "overrun"

(* "delivers the user input to shell" (dev_term.c): if the user at last    *)
(* stops typing, a program that goes on reading gets the line for which    *)
(* Enter was pressed.                                                      *)
LineDelivered ==
    <>[][~Keystroke]_vars => \A t \in Terms : term_arr[t].kbd_ready = 1 ~> rpc = "unset"
=============================================================================
