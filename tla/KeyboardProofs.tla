---------------------------- MODULE KeyboardProofs ----------------------------
(***************************************************************************)
(* The keyboard's buffers for every buffer size and every set of keys:     *)
(* they are never exceeded, an undisturbed term_read is exact, and they    *)
(* implement the line editor.                                              *)
(***************************************************************************)
EXTENDS Keyboard, SequenceTheorems, TLAPS

Terminal == [kbd_line_cnt : 0..KBD_BUF_SIZE,
             kbd_line_buf : [Index -> Bytes],
             kbd_out_buf  : [Index -> Bytes],
             kbd_ready    : {0, 1}]

HasNewline(b) == \E j \in Index : b[j] = NL

(* One terminal: room for '\n', nothing but printable characters in the    *)
(* line being edited, and an entered line that ends.                       *)
WellFormed(t) ==
    /\ t \in Terminal
    /\ t.kbd_line_cnt <= KBD_BUF_SIZE - 1
    /\ \A h \in 0..(t.kbd_line_cnt - 1) : t.kbd_line_buf[h] \in Printable
    /\ t.kbd_ready = 1 \/ t.kbd_out_buf # Blank => HasNewline(t.kbd_out_buf)

Out == term_arr[local].kbd_out_buf

(* What term_read has established when no key has come since its poll.     *)
ReadSoFar ==
    /\ local = term_flag
    /\ HasNewline(Out)
    /\ \A j \in 0..(i - 1) : Out[j] # NL /\ buf[j] = Out[j]

UndisturbedRead ==
    undisturbed =>
        /\ rpc # "overrun"
        /\ rpc = "unset" => term_arr[term_flag].kbd_ready = 1
        /\ rpc = "get" => HasNewline(term_arr[term_flag].kbd_out_buf)
        /\ rpc \in {"test", "copy", "user"} => ReadSoFar
        /\ rpc = "copy" => Out[i] # NL
        /\ rpc = "user" => i \in Index /\ Out[i] = NL

KInv ==
    /\ TypeOK
    /\ \A t \in Terms : WellFormed(term_arr[t])
    /\ rpc = "copy" => i \in Index
    /\ UndisturbedRead

Characters == Printable \cup {NUL, NL, BS, TAB, ONE}

-----------------------------------------------------------------------------
(* The special characters are neither equal nor printable.                 *)
LEMMA SpecialCharacters ==
    /\ NL \notin Printable /\ NUL \notin Printable /\ BS \notin Printable
    /\ TAB \notin Printable /\ ONE \notin Printable
    /\ NL # NUL /\ NL # BS /\ NL # TAB /\ NL # ONE
    /\ BS # NUL /\ BS # TAB /\ BS # ONE /\ TAB # NUL /\ TAB # ONE /\ ONE # NUL
<1>1. \A k, n : <<k, n>> \in Printable => k \in Letters \cup Symbols
  BY DEF Printable
<1>2. {"NUL", "NL", "BS", "TAB", "ONE"} \cap (Letters \cup Symbols) = {}
  BY KeysAssumption
<1> QED  BY <1>1, <1>2 DEF NL, NUL, BS, TAB, ONE

(* scancode_decoder's tables hold nothing but these characters.            *)
LEMMA CharOfType ==
    ASSUME NEW k, NEW shift \in {0, 1}, NEW caps \in {0, 1}
    PROVE  CharOf(k, shift, caps) \in Characters
  BY DEF CharOf, Characters, Printable

(* LineOf finds the first newline.                                         *)
LEMMA LineOfFirst ==
    ASSUME NEW b, NEW n \in Index, b[n] = NL, \A h \in 0..(n - 1) : b[h] # NL
    PROVE  LineOf(b) = [h \in 1..n |-> b[h - 1]]
<1> DEFINE First(j) == b[j] = NL /\ \A h \in 0..(j - 1) : b[h] # NL
<1>1. \A j \in Index : First(j) => j = n
  BY BufAssumption DEF Index
<1>2. (CHOOSE j \in Index : First(j)) = n
  BY <1>1
<1> QED  BY <1>2 DEF LineOf

(* A buffer of zeros holds no line.                                        *)
LEMMA LineOfBlank == LineOf(Blank) = <<>>
  BY SpecialCharacters DEF LineOf, Blank, Index

(* What remove_op and insert_op store, field by field.                     *)
LEMMA RemoveStores ==
    ASSUME NEW t \in Terminal
    PROVE  remove_op(t) =
             IF t.kbd_line_cnt > 0
             THEN [kbd_line_cnt |-> t.kbd_line_cnt - 1,
                   kbd_line_buf |-> [t.kbd_line_buf EXCEPT ![t.kbd_line_cnt - 1] = NL],
                   kbd_out_buf |-> t.kbd_out_buf, kbd_ready |-> 0]
             ELSE [kbd_line_cnt |-> t.kbd_line_cnt, kbd_line_buf |-> t.kbd_line_buf,
                   kbd_out_buf |-> t.kbd_out_buf, kbd_ready |-> 0]
<1>1. CASE t.kbd_line_cnt > 0
  <2>1. remove_op(t) = [t EXCEPT !.kbd_ready = 0, !.kbd_line_cnt = @ - 1,
                                 !.kbd_line_buf = [@ EXCEPT ![t.kbd_line_cnt - 1] = NL]]
    BY <1>1, Zenon DEF remove_op
  <2> QED  BY <1>1, <2>1 DEF Terminal
<1>2. CASE ~(t.kbd_line_cnt > 0)
  BY <1>2 DEF Terminal, remove_op
<1> QED  BY <1>1, <1>2

(* A character for which there is no room stores a '\n' in the last byte.  *)
LEMMA OverflowStores ==
    ASSUME NEW t \in Terminal, NEW c, c # NL, LineFull(t)
    PROVE  insert_op(t, c) =
             [kbd_line_cnt |-> t.kbd_line_cnt,
              kbd_line_buf |-> [t.kbd_line_buf EXCEPT ![KBD_BUF_SIZE - 1] = NL],
              kbd_out_buf |-> t.kbd_out_buf, kbd_ready |-> t.kbd_ready]
<1>1. insert_op(t, c) = [t EXCEPT !.kbd_line_buf = [@ EXCEPT ![KBD_BUF_SIZE - 1] = NL]]
  BY Zenon DEF insert_op
<1> QED  BY <1>1 DEF Terminal

(* A character for which there is room is stored behind the line.          *)
LEMMA CharacterStores ==
    ASSUME NEW t \in Terminal, NEW c, c # NL, c # TAB, ~LineFull(t)
    PROVE  insert_op(t, c) =
             [kbd_line_cnt |-> t.kbd_line_cnt + 1,
              kbd_line_buf |-> [t.kbd_line_buf EXCEPT ![t.kbd_line_cnt] = c],
              kbd_out_buf |-> t.kbd_out_buf, kbd_ready |-> 0]
<1>1. insert_op(t, c) =
        [t EXCEPT !.kbd_ready = 0, !.kbd_line_cnt = @ + 1,
                  !.kbd_line_buf = [@ EXCEPT ![t.kbd_line_cnt] = c]]
  BY Zenon DEF insert_op
<1> QED  BY <1>1 DEF Terminal

(* remove_op keeps a terminal well formed.                                 *)
LEMMA RemoveWellFormed ==
    ASSUME NEW t, WellFormed(t)
    PROVE  WellFormed(remove_op(t))
<1> DEFINE u == remove_op(t)
<1>1. t \in Terminal
  BY DEF WellFormed
<1>2. /\ u.kbd_out_buf = t.kbd_out_buf /\ u.kbd_ready = 0
      /\ u \in Terminal
      /\ u.kbd_line_cnt <= t.kbd_line_cnt
      /\ \A h \in 0..(u.kbd_line_cnt - 1) : u.kbd_line_buf[h] = t.kbd_line_buf[h]
  <2>1. CASE t.kbd_line_cnt > 0
    <3>1. u = [kbd_line_cnt |-> t.kbd_line_cnt - 1,
               kbd_line_buf |-> [t.kbd_line_buf EXCEPT ![t.kbd_line_cnt - 1] = NL],
               kbd_out_buf |-> t.kbd_out_buf, kbd_ready |-> 0]
      BY <1>1, <2>1, RemoveStores, Zenon
    <3> HIDE DEF u
    <3> QED  BY <1>1, <2>1, <3>1, BufAssumption DEF Terminal, Index, Bytes
  <2>2. CASE ~(t.kbd_line_cnt > 0)
    BY <1>1, <2>2, RemoveStores, BufAssumption DEF Terminal, Index, Bytes
  <2> QED  BY <2>1, <2>2
<1> HIDE DEF u
<1>3. WellFormed(u)
  BY <1>1, <1>2, BufAssumption DEF WellFormed, Terminal
<1> QED  BY <1>3 DEF u

(* Enter publishes a line that ends, and starts an empty one.              *)
LEMMA EnterWellFormed ==
    ASSUME NEW t, WellFormed(t)
    PROVE  WellFormed(Enter(t))
<1>1. t.kbd_line_cnt \in Index
  BY BufAssumption DEF WellFormed, Terminal, Index
<1>2. Enter(t) \in Terminal
  BY <1>1, BufAssumption DEF WellFormed, Terminal, Enter, Index, Bytes, Blank
<1>3. HasNewline(Enter(t).kbd_out_buf)
  BY <1>1 DEF WellFormed, Terminal, Enter, HasNewline
<1> QED  BY <1>2, <1>3, BufAssumption DEF WellFormed, Enter

(* insert_op keeps a terminal well formed.                                 *)
LEMMA InsertWellFormed ==
    ASSUME NEW t, WellFormed(t), NEW c \in Printable \cup {NL, TAB}
    PROVE  WellFormed(insert_op(t, c))
<1>1. CASE c = NL
  BY <1>1, EnterWellFormed, SpecialCharacters DEF insert_op
<1>2. CASE c # NL /\ LineFull(t)
  BY <1>2, OverflowStores, BufAssumption
     DEF LineFull, WellFormed, Terminal, Index, Bytes, HasNewline
<1>3. CASE c # NL /\ ~LineFull(t) /\ c = TAB
  BY <1>3 DEF insert_op
<1>4. CASE c # NL /\ ~LineFull(t) /\ c # TAB
  <2> DEFINE u == insert_op(t, c)
             n == t.kbd_line_cnt
  <2>1. t \in Terminal /\ n \in Nat /\ n < KBD_BUF_SIZE - 1 /\ c \in Printable
    BY <1>4, BufAssumption DEF WellFormed, Terminal, LineFull
  <2>2. /\ u.kbd_out_buf = t.kbd_out_buf /\ u.kbd_ready = 0
        /\ u.kbd_line_cnt = n + 1
        /\ u.kbd_line_buf = [t.kbd_line_buf EXCEPT ![n] = c]
        /\ u \in Terminal
    BY <1>4, <2>1, CharacterStores, BufAssumption DEF Terminal, Index, Bytes
  <2> HIDE DEF u
  <2>3. \A h \in 0..n : u.kbd_line_buf[h] = IF h = n THEN c ELSE t.kbd_line_buf[h]
    BY <2>1, <2>2, BufAssumption DEF Terminal, Index
  <2>4. \A h \in 0..(u.kbd_line_cnt - 1) : u.kbd_line_buf[h] \in Printable
    BY <2>1, <2>2, <2>3 DEF WellFormed
  <2>5. WellFormed(u)
    BY <2>1, <2>2, <2>4, BufAssumption DEF WellFormed
  <2> QED  BY <2>5 DEF u
<1> QED  BY <1>1, <1>2, <1>3, <1>4

-----------------------------------------------------------------------------
(* The line of a well formed terminal is a sequence.                       *)
LEMMA TypedType ==
    ASSUME NEW t, WellFormed(t)
    PROVE  TypedOf(t) \in Seq(Printable) /\ Len(TypedOf(t)) = t.kbd_line_cnt
<1>1. t.kbd_line_cnt \in Nat /\ \A h \in 1..t.kbd_line_cnt : t.kbd_line_buf[h - 1] \in Printable
  BY DEF WellFormed, Terminal
<1> QED  BY <1>1, IsASeq, LenProperties DEF TypedOf

(* Bytes behind the line do not matter.                                    *)
LEMMA SameLine ==
    ASSUME NEW t, NEW u, u.kbd_line_cnt = t.kbd_line_cnt,
           \A h \in 0..(t.kbd_line_cnt - 1) : u.kbd_line_buf[h] = t.kbd_line_buf[h],
           t.kbd_line_cnt \in Nat
    PROVE  TypedOf(u) = TypedOf(t)
  BY DEF TypedOf

(* remove_op takes away the last character of the line, if there is one.   *)
LEMMA RemoveErases ==
    ASSUME NEW t, WellFormed(t), TypedOf(t) # <<>>
    PROVE  TypedOf(remove_op(t)) = SubSeq(TypedOf(t), 1, Len(TypedOf(t)) - 1)
<1> DEFINE n == t.kbd_line_cnt
           u == remove_op(t)
<1>1. n \in Nat /\ n <= KBD_BUF_SIZE - 1 /\ t \in Terminal
  BY DEF WellFormed, Terminal
<1>2. n > 0
  BY <1>1, TypedType, EmptySeq
<1>3. u.kbd_line_cnt = n - 1 /\ \A h \in 0..(n - 2) : u.kbd_line_buf[h] = t.kbd_line_buf[h]
  BY <1>1, <1>2, RemoveStores, BufAssumption DEF Terminal, Index
<1>4. SubSeq(TypedOf(t), 1, n - 1) = [h \in 1..(n - 1) |-> TypedOf(t)[h]]
  BY <1>1, <1>2, TypedType
<1>5. TypedOf(u) = [h \in 1..(n - 1) |-> u.kbd_line_buf[h - 1]]
  BY <1>3 DEF TypedOf
<1>6. \A h \in 1..(n - 1) : TypedOf(t)[h] = u.kbd_line_buf[h - 1]
  BY <1>1, <1>3 DEF TypedOf
<1>7. [h \in 1..(n - 1) |-> TypedOf(t)[h]] = [h \in 1..(n - 1) |-> u.kbd_line_buf[h - 1]]
  BY <1>6
<1> QED  BY <1>4, <1>5, <1>7, TypedType

(* A printable character is appended, if there is room.                    *)
LEMMA InsertAppends ==
    ASSUME NEW t, WellFormed(t), NEW c \in Printable, ~LineFull(t)
    PROVE  /\ Len(TypedOf(t)) < KBD_BUF_SIZE - 1
           /\ TypedOf(insert_op(t, c)) = Append(TypedOf(t), c)
<1> DEFINE n == t.kbd_line_cnt
           u == insert_op(t, c)
<1>1. n \in Nat /\ n < KBD_BUF_SIZE - 1 /\ t \in Terminal
  BY BufAssumption DEF WellFormed, Terminal, LineFull
<1>2. /\ u.kbd_line_cnt = n + 1 /\ u.kbd_line_buf[n] = c
      /\ \A h \in 0..(n - 1) : u.kbd_line_buf[h] = t.kbd_line_buf[h]
  BY <1>1, CharacterStores, SpecialCharacters, BufAssumption DEF Terminal, Index
<1>3. /\ Append(TypedOf(t), c) \in Seq(Printable)
      /\ Len(Append(TypedOf(t), c)) = n + 1
      /\ Append(TypedOf(t), c)[n + 1] = c
      /\ \A h \in 1..n : Append(TypedOf(t), c)[h] = TypedOf(t)[h]
  BY TypedType, AppendProperties
<1>4. \A h \in 1..n : TypedOf(t)[h] = t.kbd_line_buf[h - 1]
  BY <1>1 DEF TypedOf
<1>5. \A h \in 1..(n + 1) : u.kbd_line_buf[h - 1] = Append(TypedOf(t), c)[h]
  BY <1>1, <1>2, <1>3, <1>4
<1>6. WellFormed(u)
  BY InsertWellFormed
<1>7. /\ TypedOf(u) \in Seq(Printable) /\ Len(TypedOf(u)) = n + 1
      /\ \A h \in 1..(n + 1) : TypedOf(u)[h] = u.kbd_line_buf[h - 1]
  BY <1>2, <1>6, TypedType DEF TypedOf
<1>8. \A h \in 1..Len(TypedOf(u)) : TypedOf(u)[h] = Append(TypedOf(t), c)[h]
  BY <1>5, <1>7
<1>9. TypedOf(u) = Append(TypedOf(t), c)
  BY <1>3, <1>7, <1>8, SeqEqual
<1> QED  BY <1>1, <1>9, TypedType

(* Enter makes all of the line, and nothing else, the entered one.         *)
LEMMA EnterEnters ==
    ASSUME NEW t, WellFormed(t)
    PROVE  TypedOf(Enter(t)) = <<>> /\ LineOf(Enter(t).kbd_out_buf) = TypedOf(t)
<1> DEFINE n == t.kbd_line_cnt
           b == Enter(t).kbd_out_buf
<1>1. n \in Index /\ t \in Terminal
  BY BufAssumption DEF WellFormed, Terminal, Index
<1>2. b[n] = NL /\ \A h \in 0..(n - 1) : b[h] = t.kbd_line_buf[h] /\ b[h] # NL
  <2>1. b = [t.kbd_line_buf EXCEPT ![n] = NL] /\ t.kbd_line_buf \in [Index -> Bytes]
    BY <1>1 DEF Enter, Terminal
  <2>2. \A h \in 0..(n - 1) : t.kbd_line_buf[h] \in Printable
    BY DEF WellFormed
  <2>3. \A h \in 0..(n - 1) : h \in Index /\ h # n
    BY <1>1, BufAssumption DEF Index
  <2> HIDE DEF b
  <2> QED  BY <1>1, <2>1, <2>2, <2>3, SpecialCharacters
<1>3. LineOf(b) = [h \in 1..n |-> b[h - 1]]
  BY <1>1, <1>2, LineOfFirst
<1>4. [h \in 1..n |-> b[h - 1]] = TypedOf(t)
  BY <1>1, <1>2 DEF TypedOf, Index
<1>5. TypedOf(Enter(t)) = <<>>
  BY DEF TypedOf, Enter
<1> QED  BY <1>3, <1>4, <1>5
-----------------------------------------------------------------------------
(* The handler edits the terminal that is on screen after the key; what    *)
(* Edited makes of its record is one of three things.                      *)
LEMMA EditedCases ==
    ASSUME NEW t, NEW c \in Characters
    PROVE  \/ Edited(c, t) = t
           \/ Edited(c, t) = remove_op(t)
           \/ c \in Printable \cup {NL, TAB} /\ Edited(c, t) = insert_op(t, c)
  BY DEF Edited, Characters

(* After a key the flags, the terminal on screen and the character are in  *)
(* their ranges.                                                           *)
LEMMA KeyType ==
    ASSUME TypeOK, NEW k \in Keys, kbd_intr_handler(k)
    PROVE  /\ {ctrl_flag', alt_flag', shift_flag', caps_flag'} \subseteq {0, 1}
           /\ term_flag' \in Terms
           /\ CharOf(k, shift_flag', caps_flag') \in Characters
<1>1. \A down, up, f : f \in {0, 1} => Flag(k, down, up, f) \in {0, 1}
  BY DEF Flag
<1>2. {ctrl_flag', alt_flag', shift_flag', caps_flag'} \subseteq {0, 1}
  BY <1>1 DEF TypeOK, kbd_intr_handler
<1>3. SwitchTo(k, alt_flag') \in {0, 1, 2, term_flag}
  BY DEF SwitchTo
<1> QED  BY <1>2, <1>3, CharOfType DEF TypeOK, kbd_intr_handler, Terms

(* The keyboard handler on well formed terminals: only the record of the   *)
(* terminal on screen after the key changes, and it stays well formed.     *)
LEMMA KeyEdits ==
    ASSUME KInv, NEW k \in Keys, kbd_intr_handler(k)
    PROVE  \E c \in Characters :
             /\ term_arr' = [term_arr EXCEPT ![term_flag'] = Edited(c, term_arr[term_flag'])]
             /\ WellFormed(Edited(c, term_arr[term_flag']))
<1> DEFINE c == CharOf(k, shift_flag', caps_flag')
<1>1. term_flag' \in Terms /\ c \in Characters
  BY KeyType DEF KInv
<1>2. WellFormed(term_arr[term_flag'])
  BY <1>1 DEF KInv
<1> HIDE DEF c
<1>3. WellFormed(Edited(c, term_arr[term_flag']))
  BY <1>1, <1>2, EditedCases, RemoveWellFormed, InsertWellFormed
<1>4. term_arr' = [term_arr EXCEPT ![term_flag'] = Edited(c, term_arr[term_flag'])]
  BY DEF kbd_intr_handler, c
<1> QED  BY <1>1, <1>3, <1>4

(* The invariant holds when the machine is booted.                         *)
LEMMA InitKInv == Init => KInv
<1> SUFFICES ASSUME Init PROVE KInv
  OBVIOUS
<1> USE BufAssumption DEF Init
<1>1. Blank \in [Index -> Bytes]
  BY DEF Blank, Bytes
<1>2. ASSUME NEW t \in Terms
      PROVE  WellFormed(term_arr[t])
  BY <1>1 DEF WellFormed, Terminal
<1>3. term_arr \in [Terms -> Terminal]
  BY <1>1 DEF Terminal
<1>4. 0 \in Terms /\ 0 \in 0..KBD_BUF_SIZE
  BY DEF Terms
<1>5. TypeOK
  BY <1>1, <1>3, <1>4, Zenon DEF TypeOK, Reading, Terminal
<1> QED  BY <1>2, <1>5 DEF KInv, UndisturbedRead

(* Every keystroke and every step of term_read keep the invariant.         *)
LEMMA NextKInv == KInv /\ [Next]_vars => KInv'
<1> SUFFICES ASSUME KInv, [Next]_vars PROVE KInv'
  OBVIOUS
<1> USE BufAssumption
<1>t. TypeOK /\ \A t \in Terms : WellFormed(term_arr[t])
  BY DEF KInv
<1>a. term_arr \in [Terms -> Terminal]
  BY <1>t DEF TypeOK, Terminal
<1>1. ASSUME NEW k \in Keys, kbd_intr_handler(k) PROVE KInv'
  <2>1. PICK c \in Characters :
             /\ term_arr' = [term_arr EXCEPT ![term_flag'] = Edited(c, term_arr[term_flag'])]
             /\ WellFormed(Edited(c, term_arr[term_flag']))
    BY <1>1, KeyEdits
  <2>2. term_flag' \in Terms /\ {ctrl_flag', alt_flag', shift_flag', caps_flag'} \subseteq {0, 1}
    BY <1>1, <1>t, KeyType
  <2>3. \A t \in Terms : WellFormed(term_arr'[t])
    BY <1>a, <1>t, <2>1, <2>2
  <2>4. term_arr' \in [Terms -> Terminal]
    BY <1>a, <2>1, <2>2 DEF WellFormed
  <2>5. TypeOK'
    BY <1>1, <1>t, <2>2, <2>4 DEF TypeOK, Terminal, kbd_intr_handler
  <2>6. undisturbed' = FALSE /\ UNCHANGED <<rpc, i>>
    BY <1>1 DEF kbd_intr_handler
  <2> QED  BY <2>3, <2>5, <2>6 DEF KInv, UndisturbedRead
<1>2. CASE TermRead
  BY <1>2 DEF KInv, TermRead, TypeOK, Reading, flags, UndisturbedRead, WellFormed
<1>3. CASE is_kbd_ready
  BY <1>3 DEF KInv, is_kbd_ready, TypeOK, Reading, flags, UndisturbedRead
<1>4. CASE unset_kbd_ready
  <2> DEFINE u == [term_arr[term_flag] EXCEPT !.kbd_ready = 0]
  <2>1. term_flag \in Terms /\ term_arr' = [term_arr EXCEPT ![term_flag] = u]
    BY <1>4, <1>t DEF unset_kbd_ready, TypeOK
  <2>2. u \in Terminal /\ u.kbd_out_buf = term_arr[term_flag].kbd_out_buf /\ WellFormed(u)
    BY <1>a, <1>t, <2>1 DEF Terminal, WellFormed
  <2> HIDE DEF u
  <2>3. /\ term_arr' \in [Terms -> Terminal]
        /\ \A t \in Terms : WellFormed(term_arr'[t])
        /\ \A t \in Terms : term_arr'[t].kbd_out_buf = term_arr[t].kbd_out_buf
    BY <1>a, <1>t, <2>1, <2>2
  <2>4. TypeOK'
    BY <1>4, <1>t, <2>3 DEF unset_kbd_ready, TypeOK, Reading, flags, Terminal
  <2>5. undisturbed => HasNewline(term_arr[term_flag].kbd_out_buf)
    BY <1>4, <2>1 DEF KInv, UndisturbedRead, unset_kbd_ready, WellFormed
  <2>6. UndisturbedRead'
    BY <1>4, <2>1, <2>3, <2>5 DEF unset_kbd_ready, UndisturbedRead
  <2> QED  BY <1>4, <2>3, <2>4, <2>6 DEF KInv, unset_kbd_ready
<1>5. CASE get_kbd_buf
  <2>1. Blank \in [Index -> Bytes]
    BY DEF Blank, Bytes
  <2>2. TypeOK'
    BY <1>5, <1>t, <2>1 DEF get_kbd_buf, TypeOK, Reading, flags
  <2>3. UndisturbedRead'
    BY <1>5, <1>t DEF KInv, get_kbd_buf, TypeOK, UndisturbedRead, ReadSoFar, Out, HasNewline
  <2> QED  BY <1>5, <1>t, <2>2, <2>3 DEF KInv, get_kbd_buf, WellFormed
<1>6. CASE TestByte
  BY <1>6 DEF KInv, TestByte, TypeOK, Reading, flags, UndisturbedRead, ReadSoFar, Out, HasNewline, WellFormed
<1>7. CASE CopyByte
  <2>1. i \in Index /\ local \in Terms /\ Out \in [Index -> Bytes] /\ buf \in [Index -> Bytes]
    BY <1>7, <1>t, <1>a DEF KInv, CopyByte, TypeOK, Terminal, Out
  <2>2. buf' \in [Index -> Bytes] /\ buf' = [buf EXCEPT ![i] = Out[i]] /\ i' = i + 1
    BY <1>7, <2>1 DEF CopyByte, Out
  <2>3. TypeOK'
    BY <1>7, <1>t, <2>1, <2>2 DEF CopyByte, TypeOK, Reading, flags, Index
  <2>4. undisturbed => ReadSoFar /\ Out[i] # NL
    BY <1>7 DEF KInv, UndisturbedRead, CopyByte
  <2>5. undisturbed => \A j \in 0..i : Out[j] # NL /\ buf'[j] = Out[j]
    BY <2>1, <2>2, <2>4 DEF ReadSoFar, Index
  <2>6. UndisturbedRead'
    BY <1>7, <2>1, <2>2, <2>4, <2>5
       DEF UndisturbedRead, CopyByte, ReadSoFar, Out, Index, HasNewline
  <2> QED  BY <1>7, <1>t, <2>3, <2>6 DEF KInv, CopyByte, WellFormed
<1>8. CASE Overrun
  BY <1>8 DEF KInv, Overrun, TypeOK, Reading, flags, UndisturbedRead, ReadSoFar, Out,
              HasNewline, Index, WellFormed
<1>9. CASE TermReadRefused \/ UNCHANGED vars
  BY <1>9
  DEF TermReadRefused, KInv, vars, flags, TypeOK, UndisturbedRead, ReadSoFar, Out, HasNewline, WellFormed
<1> QED  BY <1>1, <1>2, <1>3, <1>4, <1>5, <1>6, <1>7, <1>8, <1>9 DEF Next, Keystroke, Read

(* The inductive invariant of handler and term_read.                       *)
THEOREM KeyboardInvariance == Spec => []KInv
  BY InitKInv, NextKInv, PTL DEF Spec

(* Every buffer, counter and index of handler and term_read stays in its   *)
(* range, for every buffer size.                                           *)
THEOREM KeyboardTypes == Spec => []TypeOK
  BY KeyboardInvariance, PTL DEF KInv

(* insert_op always finds room for a '\n' in kbd_line_buf.                 *)
THEOREM LineFits == Spec => []LineCntInBounds
<1>1. KInv => LineCntInBounds
  BY DEF KInv, WellFormed, LineCntInBounds
<1> QED  BY <1>1, KeyboardInvariance, PTL

(* A line that is announced, or was entered, has its '\n' in kbd_out_buf.  *)
THEOREM LineEnds == Spec => []EnteredLineEnds
<1>1. KInv => EnteredLineEnds
  BY DEF KInv, WellFormed, EnteredLineEnds, HasNewline
<1> QED  BY <1>1, KeyboardInvariance, PTL

(* term_read delivers exactly the line if no key comes while it runs.      *)
THEOREM ReadExact == Spec => []UndisturbedReadExact
<1>1. KInv => UndisturbedReadExact
  <2> SUFFICES ASSUME KInv, undisturbed, rpc = "user"
               PROVE  LineOf(Out) = [h \in 1..i |-> buf[h - 1]] /\ local = term_flag
    BY DEF KInv, UndisturbedRead, UndisturbedReadExact, Out
  <2>1. ReadSoFar /\ i \in Index /\ Out[i] = NL
    BY DEF KInv, UndisturbedRead
  <2>2. LineOf(Out) = [h \in 1..i |-> Out[h - 1]]
    BY <2>1, LineOfFirst DEF ReadSoFar
  <2>3. \A h \in 1..i : Out[h - 1] = buf[h - 1]
    BY <2>1 DEF ReadSoFar, Index
  <2> QED  BY <2>1, <2>2, <2>3 DEF ReadSoFar
<1> QED  BY <1>1, KeyboardInvariance, PTL

-----------------------------------------------------------------------------
(* What a new record u of terminal t is in the line editor.                *)
LEMMA RecordReplaced ==
    ASSUME KInv, NEW t \in Terms, NEW u, term_arr' = [term_arr EXCEPT ![t] = u]
    PROVE  /\ TypedLines' = [TypedLines EXCEPT ![t] = TypedOf(u)]
           /\ EnteredLines' = [EnteredLines EXCEPT ![t] = LineOf(u.kbd_out_buf)]
<1>1. \A s \in Terms : term_arr'[s] = IF s = t THEN u ELSE term_arr[s]
  BY DEF KInv, TypeOK
<1>2. TypedLines' = [s \in Terms |-> TypedOf(term_arr'[s])]
  BY DEF TypedLines, TypedOf
<1>3. EnteredLines' = [s \in Terms |-> LineOf(term_arr'[s].kbd_out_buf)]
  BY DEF EnteredLines, LineOf
<1>4. ASSUME NEW s \in Terms
      PROVE  /\ TypedLines'[s] = IF s = t THEN TypedOf(u) ELSE TypedLines[s]
             /\ EnteredLines'[s] = IF s = t THEN LineOf(u.kbd_out_buf) ELSE EnteredLines[s]
  <2>1. CASE s = t
    BY <1>1, <1>2, <1>3, <2>1
  <2>2. CASE s # t
    <3>1. term_arr'[s] = term_arr[s]
      BY <1>1, <2>2
    <3> QED  BY <1>2, <1>3, <2>2, <3>1 DEF TypedLines, EnteredLines
  <2> QED  BY <2>1, <2>2
<1>5. /\ TypedLines \in [Terms -> {TypedOf(term_arr[s]) : s \in Terms}]
      /\ EnteredLines \in [Terms -> {LineOf(term_arr[s].kbd_out_buf) : s \in Terms}]
  BY DEF TypedLines, EnteredLines
<1>6. /\ TypedLines' = [s \in Terms |-> TypedLines'[s]]
      /\ EnteredLines' = [s \in Terms |-> EnteredLines'[s]]
  BY <1>2, <1>3
<1> QED  BY <1>4, <1>5, <1>6, Zenon

(* A record whose two lines are those of the old one is a stutter.         *)
LEMMA RecordStutters ==
    ASSUME KInv, NEW t \in Terms, NEW u, term_arr' = [term_arr EXCEPT ![t] = u],
           TypedOf(u) = TypedOf(term_arr[t]), u.kbd_out_buf = term_arr[t].kbd_out_buf
    PROVE  UNCHANGED Edit!vars
<1>1. TypedLines[t] = TypedOf(u) /\ EnteredLines[t] = LineOf(u.kbd_out_buf)
  BY DEF TypedLines, EnteredLines
<1>2. TypedLines' = TypedLines /\ EnteredLines' = EnteredLines
  BY <1>1, RecordReplaced DEF TypedLines, EnteredLines
<1> QED  BY <1>2 DEF Edit!vars

(* A keystroke is an operation of the line editor on the terminal on       *)
(* screen, or none.                                                        *)
LEMMA KeyRefines ==
    ASSUME KInv, NEW k \in Keys, kbd_intr_handler(k)
    PROVE  [Edit!Next]_(Edit!vars)
<1> DEFINE t == term_flag'
           r == term_arr[t]
<1>1. PICK c \in Characters : term_arr' = [term_arr EXCEPT ![t] = Edited(c, r)]
  BY KeyEdits
<1>2. t \in Terms /\ WellFormed(r) /\ r \in Terminal
  BY KeyType DEF KInv, WellFormed
<1>3. TypedLines[t] = TypedOf(r) /\ EnteredLines[t] = LineOf(r.kbd_out_buf)
  BY <1>2 DEF TypedLines, EnteredLines
<1> HIDE DEF t, r
<1>4. CASE Edited(c, r) = r
  BY <1>1, <1>2, <1>4, RecordStutters DEF r
<1>5. CASE Edited(c, r) = remove_op(r)
  <2>1. remove_op(r).kbd_out_buf = r.kbd_out_buf
    BY <1>2, RemoveStores
  <2>2. CASE TypedOf(r) = <<>>
    <3>1. r.kbd_line_cnt = 0
      BY <1>2, <2>2, TypedType, EmptySeq
    <3>2. TypedOf(remove_op(r)) = TypedOf(r)
      BY <1>2, <3>1, RemoveStores, SameLine
    <3> QED  BY <1>1, <1>2, <1>5, <2>1, <3>2, RecordStutters DEF r
  <2>3. CASE TypedOf(r) # <<>>
    <3>1. /\ TypedLines' = [TypedLines EXCEPT ![t] = TypedOf(remove_op(r))]
          /\ EnteredLines' = [EnteredLines EXCEPT ![t] = EnteredLines[t]]
      <4>1. LineOf(remove_op(r).kbd_out_buf) = EnteredLines[t]
        BY <1>3, <2>1
      <4> QED  BY <1>1, <1>2, <1>5, <4>1, RecordReplaced
    <3>2. EnteredLines' = EnteredLines
      BY <3>1 DEF EnteredLines
    <3>3. TypedOf(remove_op(r)) = SubSeq(TypedLines[t], 1, Len(TypedLines[t]) - 1)
      BY <1>2, <1>3, <2>3, RemoveErases
    <3>4. Edit!Erase(t)
      BY <1>3, <2>3, <3>1, <3>2, <3>3, Zenon DEF Edit!Erase
    <3> QED  BY <1>2, <3>4 DEF Edit!Next
  <2> QED  BY <2>2, <2>3
<1>6. CASE c \in Printable \cup {NL, TAB} /\ Edited(c, r) = insert_op(r, c)
  <2>1. CASE c = NL
    <3>1. insert_op(r, c) = Enter(r)
      BY <2>1, SpecialCharacters DEF insert_op
    <3>2. /\ TypedLines' = [TypedLines EXCEPT ![t] = TypedOf(Enter(r))]
          /\ EnteredLines' = [EnteredLines EXCEPT ![t] = LineOf(Enter(r).kbd_out_buf)]
      BY <1>1, <1>2, <1>6, <3>1, RecordReplaced
    <3>3. Edit!Enter(t)
      BY <1>2, <1>3, <3>2, EnterEnters DEF Edit!Enter
    <3> QED  BY <1>2, <3>3 DEF Edit!Next
  <2>2. CASE c # NL /\ LineFull(r)
    <3>1. insert_op(r, c).kbd_out_buf = r.kbd_out_buf
      BY <1>2, <2>2, OverflowStores
    <3>2. /\ insert_op(r, c).kbd_line_cnt = r.kbd_line_cnt
          /\ r.kbd_line_cnt \in Nat
          /\ \A h \in 0..(r.kbd_line_cnt - 1) :
                insert_op(r, c).kbd_line_buf[h] = r.kbd_line_buf[h]
      BY <1>2, <2>2, OverflowStores, BufAssumption DEF Terminal, WellFormed, Index
    <3>3. TypedOf(insert_op(r, c)) = TypedOf(r)
      BY <3>2, SameLine
    <3> QED  BY <1>1, <1>2, <1>6, <3>1, <3>3, RecordStutters DEF r
  <2>3. CASE c = TAB /\ ~LineFull(r)
    <3>1. insert_op(r, c) = r
      BY <2>3, Zenon DEF insert_op
    <3> QED  BY <1>1, <1>2, <1>6, <3>1, RecordStutters DEF r
  <2>4. CASE c \in Printable /\ ~LineFull(r)
    <3>1. insert_op(r, c).kbd_out_buf = r.kbd_out_buf
      BY <1>2, <2>4, CharacterStores, SpecialCharacters
    <3>2. /\ TypedLines' = [TypedLines EXCEPT ![t] = TypedOf(insert_op(r, c))]
          /\ EnteredLines' = [EnteredLines EXCEPT ![t] = EnteredLines[t]]
      <4>1. LineOf(insert_op(r, c).kbd_out_buf) = EnteredLines[t]
        BY <1>3, <3>1
      <4> QED  BY <1>1, <1>2, <1>6, <4>1, RecordReplaced
    <3>3. EnteredLines' = EnteredLines
      BY <3>2 DEF EnteredLines
    <3>4. /\ Len(TypedLines[t]) < KBD_BUF_SIZE - 1
          /\ TypedOf(insert_op(r, c)) = Append(TypedLines[t], c)
      BY <1>2, <1>3, <2>4, InsertAppends
    <3>5. Edit!Type(t, c)
      BY <3>2, <3>3, <3>4, Zenon DEF Edit!Type
    <3> QED  BY <1>2, <2>4, <3>5 DEF Edit!Next
  <2> QED  BY <1>6, <2>1, <2>2, <2>3, <2>4
<1> QED  BY <1>2, <1>4, <1>5, <1>6, EditedCases

(* term_read reads the entered line and changes neither.                   *)
LEMMA StepRefines ==
    ASSUME KInv, [Next]_vars
    PROVE  [Edit!Next]_(Edit!vars)
<1>1. ASSUME NEW k \in Keys, kbd_intr_handler(k) PROVE [Edit!Next]_(Edit!vars)
  BY <1>1, KeyRefines
<1>2. CASE unset_kbd_ready
  <2> DEFINE u == [term_arr[term_flag] EXCEPT !.kbd_ready = 0]
  <2>1. term_flag \in Terms /\ term_arr[term_flag] \in Terminal
    BY DEF KInv, TypeOK, WellFormed
  <2>2. term_arr' = [term_arr EXCEPT ![term_flag] = u]
    BY <1>2, <2>1 DEF KInv, unset_kbd_ready, TypeOK
  <2>3. /\ u.kbd_out_buf = term_arr[term_flag].kbd_out_buf
        /\ u.kbd_line_buf = term_arr[term_flag].kbd_line_buf
        /\ u.kbd_line_cnt = term_arr[term_flag].kbd_line_cnt
    BY <2>1 DEF Terminal
  <2> HIDE DEF u
  <2>4. TypedOf(u) = TypedOf(term_arr[term_flag])
    BY <2>3 DEF TypedOf
  <2> QED  BY <2>1, <2>2, <2>3, <2>4, RecordStutters
<1>3. CASE UNCHANGED term_arr
  <2>1. TypedLines' = TypedLines /\ EnteredLines' = EnteredLines
    BY <1>3 DEF TypedLines, TypedOf, EnteredLines, LineOf
  <2> QED  BY <2>1 DEF Edit!vars
<1> QED
  BY <1>1, <1>2, <1>3
     DEF Next, Keystroke, TermRead, TermReadRefused, Read, is_kbd_ready, get_kbd_buf,
         TestByte, CopyByte, Overrun, vars

(* The handler's buffers implement the line editor: whatever is typed,     *)
(* erased, entered and switched while programs read, the line a program    *)
(* can read is the one that was typed.                                     *)
THEOREM KeyboardImplementsLineEditor == Spec => ImplementsLineEditor
<1>1. Init => Edit!Init
  <2> SUFFICES ASSUME Init PROVE Edit!Init
    OBVIOUS
  <2>1. \A t \in Terms : TypedOf(term_arr[t]) = <<>>
    BY DEF Init, TypedOf
  <2>2. \A t \in Terms : LineOf(term_arr[t].kbd_out_buf) = <<>>
    BY LineOfBlank DEF Init
  <2> QED  BY <2>1, <2>2 DEF Edit!Init, TypedLines, EnteredLines
<1>2. KInv /\ [Next]_vars => [Edit!Next]_(Edit!vars)
  BY StepRefines
<1> QED  BY <1>1, <1>2, KeyboardInvariance, PTL DEF Spec, ImplementsLineEditor, Edit!Spec
=============================================================================
