---------------------------- MODULE ConsoleProofs ----------------------------
(***************************************************************************)
(* Proofs about Console, for every size of the screen, every page that     *)
(* ends within the row behind it, every prompt shorter than a row and any  *)
(* number of keystrokes.                                                   *)
(***************************************************************************)
EXTENDS Console, NaturalLemmas, TLAPS

-----------------------------------------------------------------------------
(* puts.                                                                   *)

(* What putc preserves, puts preserves: the set S of consoles is closed    *)
(* under every character of the text.                                      *)
LEMMA PutsKeeps ==
    ASSUME NEW A, NEW text \in Seq(A), NEW S, NEW s \in S,
           \A z \in S : \A c \in A : putc(z, c) \in S
    PROVE  puts(s, text) \in S
<1> DEFINE N == Len(text)
           step(f, w) == IF w = {} THEN s ELSE putc(f[w \ {Max(w)}], text[Max(w)])
           fold(f, D) == [w \in SUBSET D |-> step(f, w)]
           at == CHOOSE f : f = fold(f, DOMAIN text)
<1>1. N \in Nat /\ DOMAIN text = 1..N /\ \A i \in 1..N : text[i] \in A
  OBVIOUS
<1>2. puts(s, text) = at[DOMAIN text]
  BY DEF puts, FoldLeft, MapThenFoldSet
<1> HIDE DEF at
<1>3. \E f : f = fold(f, 1..N)
  <2> DEFINE G == {n \in 0..N : \E f : f = fold(f, 1..n)}
  <2>1. 0 \in G
    <3>1. 1..0 = {} /\ 0 \in 0..N
      BY <1>1
    <3> DEFINE f == [w \in SUBSET (1..0) |-> s]
    <3>2. f = fold(f, 1..0)
      BY <3>1
    <3> QED BY <3>1, <3>2
  <2>2. ASSUME NEW n \in 0..(N - 1), n \in G PROVE n + 1 \in G
    <3>1. PICK f : f = fold(f, 1..n)
      BY <2>2
    <3> DEFINE D == 1..(n + 1)
               g == [w \in SUBSET D |-> IF n + 1 \in w THEN putc(f[w \ {n + 1}], text[n + 1])
                                                       ELSE f[w]]
    <3>2. ASSUME NEW w \in SUBSET D, n + 1 \in w
          PROVE  Max(w) = n + 1 /\ w # {} /\ g[w \ {n + 1}] = f[w \ {n + 1}]
      <4>1. w \subseteq Int /\ \A y \in w : n + 1 >= y
        BY <1>1
      <4>2. w \ {n + 1} \in SUBSET D /\ n + 1 \notin w \ {n + 1}
        OBVIOUS
      <4>3. Max(w) = n + 1
        BY <3>2, <4>1, MaxOnly
      <4> QED BY <3>2, <4>2, <4>3
    <3>3. ASSUME NEW w \in SUBSET D, n + 1 \notin w
          PROVE  w \in SUBSET (1..n) /\ f[w] = step(f, w) /\ step(g, w) = step(f, w)
      <4>1. w \in SUBSET (1..n)
        BY <3>3, <1>1
      <4>2. f[w] = step(f, w)
        <5> HIDE DEF step
        <5> QED BY <4>1, <3>1
      <4>3. w \ {Max(w)} \in SUBSET D /\ n + 1 \notin w \ {Max(w)}
        BY <3>3
      <4>4. g[w \ {Max(w)}] = f[w \ {Max(w)}]
        BY <4>3
      <4> HIDE DEF g
      <4> QED BY <4>1, <4>2, <4>4
    <3>4. ASSUME NEW w \in SUBSET D PROVE g[w] = step(g, w)
      <4>1. CASE n + 1 \in w
        <5>1. g[w] = putc(f[w \ {n + 1}], text[n + 1])
          BY <4>1
        <5> HIDE DEF g
        <5> QED BY <5>1, <4>1, <3>2
      <4>2. CASE n + 1 \notin w
        <5>1. g[w] = f[w]
          BY <4>2
        <5> HIDE DEF g, step
        <5> QED BY <5>1, <4>2, <3>3
      <4> QED BY <4>1, <4>2
    <3>5. g = [w \in SUBSET D |-> g[w]]
      OBVIOUS
    <3> HIDE DEF g, step
    <3>6. g = fold(g, D)
      BY <3>4, <3>5
    <3>7. n + 1 \in 0..N
      BY <1>1
    <3> QED BY <3>6, <3>7
  <2>3. \A n \in 0..N : n \in G
    <3> HIDE DEF G
    <3> QED BY <1>1, <2>1, <2>2, Induction
  <2>4. N \in 0..N
    BY <1>1
  <2> QED BY <2>3, <2>4
<1>4. at = fold(at, 1..N)
  <2> HIDE DEF fold
  <2> QED BY <1>1, <1>3 DEF at
<1>5. \A w \in SUBSET (1..N) : at[w] = step(at, w)
  <2> HIDE DEF step
  <2> QED BY <1>4
<1> DEFINE G == {n \in 0..N : at[1..n] \in S}
<1>6. 0 \in G
  <2>1. 1..0 = {} /\ 0 \in 0..N
    BY <1>1
  <2>2. at[{}] = s
    BY <1>5
  <2> QED BY <2>1, <2>2
<1>7. ASSUME NEW n \in 0..(N - 1), n \in G PROVE n + 1 \in G
  <2>1. n + 1 \in 0..N /\ n + 1 \in 1..N /\ 1..(n + 1) \in SUBSET (1..N) /\ 1..(n + 1) # {}
    <3> HIDE DEF G, N
    <3>1. n + 1 \in 0..N /\ n + 1 \in 1..N /\ n + 1 \in 1..(n + 1)
      BY <1>1
    <3>2. 1..(n + 1) \subseteq 1..N
      BY <1>1
    <3> QED BY <3>1, <3>2
  <2>2. Max(1..(n + 1)) = n + 1
    <3>1. 1..(n + 1) \subseteq Int /\ n + 1 \in 1..(n + 1) /\ \A y \in 1..(n + 1) : n + 1 >= y
      BY <1>1
    <3> QED BY <3>1, MaxOnly
  <2>3. 1..(n + 1) \ {n + 1} = 1..n
    BY <1>1
  <2>4. at[1..(n + 1)] = putc(at[1..n], text[n + 1])
    BY <1>5, <2>1, <2>2, <2>3
  <2> QED BY <2>1, <2>4, <1>1, <1>7
<1>8. \A n \in 0..N : n \in G
  <2> HIDE DEF G
  <2> QED BY <1>1, <1>6, <1>7, Induction
<1>9. N \in 0..N
  BY <1>1
<1> QED BY <1>1, <1>2, <1>8, <1>9

-----------------------------------------------------------------------------
(* putc and the other functions on a whole console.                        *)

Consoles == [video : [Cells -> Chars], x : Nat, y : Nat, fault : BOOLEAN]

(* The products the address arithmetic needs.                              *)
LEMMA Sizes ==
    /\ NUM_COLS * NUM_ROWS = NUM_ROWS * NUM_COLS
    /\ NUM_COLS * NUM_ROWS \in Nat /\ NUM_COLS * (NUM_ROWS - 1) \in Nat
    /\ NUM_COLS * (NUM_ROWS - 1) + NUM_COLS = NUM_COLS * NUM_ROWS
    /\ PageCells \in Nat /\ NUM_COLS * NUM_ROWS <= PageCells
BY SizeAssumption

(* A position on the screen is a cell of the screen, and of the page.      *)
LEMMA LocOnScreen ==
    ASSUME NEW x \in Nat, NEW y \in Nat, x < NUM_COLS, y < NUM_ROWS
    PROVE  /\ get_screen_loc(x, y) \in Screen /\ get_screen_loc(x, y) \in Cells
           /\ NUM_COLS * y \in Nat /\ NUM_COLS * y <= NUM_COLS * (NUM_ROWS - 1)
<1>1. NUM_COLS \in Nat /\ NUM_ROWS - 1 \in Nat /\ y <= NUM_ROWS - 1
  BY SizeAssumption
<1>2. ASSUME NEW a \in Nat, NEW b \in Nat, NEW d \in Nat, b <= d
      PROVE  a * b \in Nat /\ a * b <= a * d
  BY <1>2
<1>3. NUM_COLS * y \in Nat /\ NUM_COLS * y <= NUM_COLS * (NUM_ROWS - 1)
  BY <1>1, <1>2
<1> QED BY <1>1, <1>3, Sizes DEF get_screen_loc, Screen, Cells

(* A store changes one cell, or faults.                                    *)
LEMMA StoreIs ==
    ASSUME NEW s \in Consoles, NEW c \in Chars
    PROVE  LET loc == get_screen_loc(s.x, s.y)
           IN  Store(s, c) = [video |-> IF loc \in Cells THEN [s.video EXCEPT ![loc] = c]
                                                         ELSE s.video,
                              x |-> s.x, y |-> s.y,
                              fault |-> IF loc \in Cells THEN s.fault ELSE TRUE]
BY DEF Store, Consoles

(* Consoles with some fields replaced.                                     *)
Moved(s, x, y) == [s EXCEPT !.x = x, !.y = y]
Redrawn(s, v, x, y) == [s EXCEPT !.video = v, !.x = x, !.y = y]

(* They are these records.                                                 *)
LEMMA ExceptIs ==
    ASSUME NEW s \in Consoles, NEW v \in [Cells -> Chars], NEW x \in Nat, NEW y \in Nat
    PROVE  /\ Moved(s, x, y) = [video |-> s.video, x |-> x, y |-> y, fault |-> s.fault]
           /\ Redrawn(s, v, x, y) = [video |-> v, x |-> x, y |-> y, fault |-> s.fault]
<1>1. ASSUME NEW z \in Consoles
      PROVE  [z EXCEPT !.x = x, !.y = y]
                = [video |-> z.video, x |-> x, y |-> y, fault |-> z.fault]
  <2> DEFINE t == [z EXCEPT !.x = x]
  <2>1. t = [video |-> z.video, x |-> x, y |-> z.y, fault |-> z.fault]
    BY DEF Consoles
  <2>2. t \in Consoles
    BY <2>1 DEF Consoles
  <2>3. [z EXCEPT !.x = x, !.y = y] = [t EXCEPT !.y = y]
    BY DEF Consoles
  <2> HIDE DEF t
  <2>4. [t EXCEPT !.y = y] = [video |-> t.video, x |-> t.x, y |-> y, fault |-> t.fault]
    BY <2>2 DEF Consoles
  <2> QED BY <2>1, <2>3, <2>4
<1> DEFINE t == [s EXCEPT !.video = v]
<1>2. t = [video |-> v, x |-> s.x, y |-> s.y, fault |-> s.fault]
  BY DEF Consoles
<1>3. t \in Consoles
  BY <1>2 DEF Consoles
<1>4. [s EXCEPT !.video = v, !.x = x, !.y = y] = [t EXCEPT !.x = x, !.y = y]
  BY DEF Consoles
<1> HIDE DEF t
<1>5. [s EXCEPT !.video = v, !.x = x, !.y = y]
        = [video |-> v, x |-> x, y |-> y, fault |-> s.fault]
  BY <1>1, <1>2, <1>3, <1>4
<1> QED BY <1>1, <1>5 DEF Moved, Redrawn

(* The end of a row: the next one, or a scrolled screen.                   *)
LEMMA NewlineIs ==
    ASSUME NEW s \in Consoles
    PROVE  /\ newline(s) \in Consoles
           /\ newline(s).fault = s.fault
           /\ newline(s).x = 0
           /\ newline(s).y = IF s.y + 1 >= NUM_ROWS THEN NUM_ROWS - 1 ELSE s.y + 1
<1>1. s.video \in [Cells -> Chars] /\ s.x \in Nat /\ s.y \in Nat /\ s.fault \in BOOLEAN
  BY DEF Consoles
<1>2. scroll(s.video) \in [Cells -> Chars]
  <2>1. ASSUME NEW i \in Cells, i < NUM_COLS * (NUM_ROWS - 1) PROVE i + NUM_COLS \in Cells
    BY <2>1, Sizes, SizeAssumption DEF Cells
  <2>2. clear(s.video) \in [Cells -> Chars]
    BY <1>1 DEF clear, Chars
  <2> QED BY <1>1, <2>1, <2>2 DEF scroll
<1> DEFINE v == scroll(s.video)
<1> HIDE DEF v
<1>3. CASE s.y + 1 >= NUM_ROWS
  <2>1. newline(s) = [video |-> v, x |-> 0, y |-> NUM_ROWS - 1, fault |-> s.fault]
    BY <1>3 DEF newline, Consoles, v
  <2>2. NUM_ROWS - 1 \in Nat
    BY SizeAssumption
  <2> QED BY <2>1, <2>2, <1>1, <1>2, <1>3 DEF Consoles, v
<1>4. CASE ~(s.y + 1 >= NUM_ROWS)
  <2>1. newline(s) = [video |-> s.video, x |-> 0, y |-> s.y + 1, fault |-> s.fault]
    BY <1>4 DEF newline, Consoles
  <2> QED BY <2>1, <1>1, <1>4 DEF Consoles
<1> QED BY <1>3, <1>4

(* What putc does to the position, and when it faults.                     *)
LEMMA PutcIs ==
    ASSUME NEW s \in Consoles, NEW c \in Glyphs \cup {BLANK, NL}
    PROVE  LET wraps == c = NL \/ s.x + 1 >= NUM_COLS
           IN  /\ putc(s, c) \in Consoles
               /\ putc(s, c).x = IF wraps THEN 0 ELSE s.x + 1
               /\ putc(s, c).y = IF ~wraps THEN s.y
                                 ELSE IF s.y + 1 >= NUM_ROWS THEN NUM_ROWS - 1 ELSE s.y + 1
               /\ get_screen_loc(s.x, s.y) \in Cells => putc(s, c).fault = s.fault
<1>1. s.video \in [Cells -> Chars] /\ s.x \in Nat /\ s.y \in Nat /\ s.fault \in BOOLEAN
  BY DEF Consoles
<1>2. CASE c = NL
  BY <1>2, NewlineIs DEF putc
<1>3. CASE c # NL
  <2> DEFINE loc == get_screen_loc(s.x, s.y)
             v == IF loc \in Cells THEN [s.video EXCEPT ![loc] = c] ELSE s.video
             b == IF loc \in Cells THEN s.fault ELSE TRUE
             t == [video |-> v, x |-> s.x, y |-> s.y, fault |-> b]
  <2>1. c \in Chars
    BY <1>3 DEF Chars
  <2>2. Store(s, c) = t
    BY <2>1, StoreIs
  <2>3. v \in [Cells -> Chars]
    BY <1>1, <2>1
  <2>4. b \in BOOLEAN /\ (loc \in Cells => b = s.fault)
    BY <1>1
  <2> HIDE DEF v, b, loc
  <2>5. t \in Consoles /\ t.x = s.x /\ t.y = s.y /\ t.fault = b /\ t.video = v
    BY <1>1, <2>3, <2>4 DEF Consoles
  <2> HIDE DEF t
  <2>6. CASE s.x + 1 >= NUM_COLS
    <3>1. putc(s, c) = newline(t)
      BY <1>3, <2>2, <2>6 DEF putc
    <3> QED BY <3>1, <2>4, <2>5, <2>6, <1>3, NewlineIs DEF loc
  <2>7. CASE ~(s.x + 1 >= NUM_COLS)
    <3>1. putc(s, c) = [t EXCEPT !.x = @ + 1]
      BY <1>3, <2>2, <2>7 DEF putc
    <3>2. [t EXCEPT !.x = @ + 1] = [video |-> v, x |-> s.x + 1, y |-> s.y, fault |-> b]
      BY DEF t
    <3> QED BY <3>1, <3>2, <2>3, <2>4, <2>7, <1>1, <1>3 DEF Consoles, loc
  <2> QED BY <2>6, <2>7
<1> QED BY <1>2, <1>3

(* The consoles whose position is at most (X, Y), and the ones with the    *)
(* position on the screen and no fault.                                    *)
Within(X, Y) == {s \in Consoles : s.x <= X /\ s.y <= Y}

OnScreen == {s \in Consoles : s.x < NUM_COLS /\ s.y < NUM_ROWS /\ s.fault = FALSE}

(* Printing never takes the position further out than it was ...           *)
LEMMA PutcWithin ==
    ASSUME NEW X \in Nat, NEW Y \in Nat, X >= NUM_COLS - 1, Y >= NUM_ROWS - 1,
           NEW s \in Within(X, Y), NEW c \in Glyphs \cup {BLANK, NL}
    PROVE  putc(s, c) \in Within(X, Y)
<1>1. s \in Consoles /\ s.x \in Nat /\ s.y \in Nat /\ s.x <= X /\ s.y <= Y
  BY DEF Within, Consoles
<1> QED BY <1>1, PutcIs, SizeAssumption DEF Within

(* ... and on the screen it stays there.                                   *)
LEMMA PutcOnScreen ==
    ASSUME NEW s \in OnScreen, NEW c \in Glyphs \cup {BLANK, NL}
    PROVE  putc(s, c) \in OnScreen
<1>1. s \in Consoles /\ s.x \in Nat /\ s.y \in Nat /\ s.x < NUM_COLS /\ s.y < NUM_ROWS
  BY DEF OnScreen, Consoles
<1>2. get_screen_loc(s.x, s.y) \in Cells
  BY <1>1, LocOnScreen
<1>3. putc(s, c) \in Consoles /\ putc(s, c).fault = FALSE
  BY <1>1, <1>2, PutcIs DEF OnScreen
<1>4. putc(s, c).x < NUM_COLS /\ putc(s, c).y < NUM_ROWS
  BY <1>1, PutcIs, SizeAssumption
<1> QED BY <1>3, <1>4 DEF OnScreen

(* The same of a whole text ...                                            *)
LEMMA PutsWithin ==
    ASSUME NEW X \in Nat, NEW Y \in Nat, X >= NUM_COLS - 1, Y >= NUM_ROWS - 1,
           NEW s \in Within(X, Y)
    PROVE  puts(s, Complaint) \in Within(X, Y)
<1>1. Complaint \in Seq(Glyphs \cup {BLANK, NL})
  BY TextAssumption
<1> QED BY <1>1, PutcWithin, PutsKeeps

(* ... and on the screen.                                                  *)
LEMMA PutsOnScreen ==
    ASSUME NEW s \in OnScreen
    PROVE  puts(s, Complaint) \in OnScreen
<1>1. Complaint \in Seq(Glyphs \cup {BLANK, NL})
  BY TextAssumption
<1> QED BY <1>1, PutcOnScreen, PutsKeeps

(* Clearing the screen brings the position back from anywhere.             *)
LEMMA ClearOnScreen ==
    ASSUME NEW s \in Consoles, s.fault = FALSE
    PROVE  clear_screen(s) \in OnScreen
<1> DEFINE t == [video |-> clear(s.video), x |-> 0, y |-> 0, fault |-> s.fault]
<1>1. clear(s.video) \in [Cells -> Chars]
  BY DEF Consoles, clear, Chars
<1>2. [s EXCEPT !.video = clear(@), !.x = 0, !.y = 0] = t
  <2>1. Redrawn(s, clear(s.video), 0, 0) = t
    BY <1>1, ExceptIs
  <2> QED BY <2>1 DEF Redrawn
<1>3. t \in OnScreen
  <2> DEFINE v == clear(s.video)
  <2> HIDE DEF v
  <2>1. v \in [Cells -> Chars] /\ t = [video |-> v, x |-> 0, y |-> 0, fault |-> s.fault]
    BY <1>1 DEF v
  <2>2. s.fault \in BOOLEAN /\ s.fault = FALSE
    BY DEF Consoles
  <2> QED BY <2>1, <2>2, SizeAssumption DEF OnScreen, Consoles
<1> HIDE DEF t
<1>4. Prompt \in Seq(Glyphs \cup {BLANK})
  BY TextAssumption
<1>5. \A z \in OnScreen : \A c \in Glyphs \cup {BLANK} : putc(z, c) \in OnScreen
  BY PutcOnScreen
<1>6. puts(t, Prompt) \in OnScreen
  BY <1>3, <1>4, <1>5, PutsKeeps
<1> QED BY <1>2, <1>6 DEF clear_screen

(* Erasing a character: one column back, or the end of the row above.      *)
LEMMA EraseIs ==
    ASSUME NEW s \in Consoles, s.fault = FALSE
    PROVE  LET t == erase_char(s)
           IN  /\ t \in Consoles
               /\ t.x = IF s.x > 0 THEN s.x - 1 ELSE IF s.y > 0 THEN NUM_COLS - 1 ELSE 0
               /\ t.y = IF s.x = 0 /\ s.y > 0 THEN s.y - 1 ELSE s.y
               /\ get_screen_loc(t.x, t.y) \in Cells => t.fault = FALSE
<1> DEFINE px == IF s.x > 0 THEN s.x - 1 ELSE IF s.y > 0 THEN NUM_COLS - 1 ELSE 0
           py == IF s.x = 0 /\ s.y > 0 THEN s.y - 1 ELSE s.y
           t == [video |-> s.video, x |-> px, y |-> py, fault |-> s.fault]
<1>1. s.video \in [Cells -> Chars] /\ s.x \in Nat /\ s.y \in Nat
  BY DEF Consoles
<1>2. px \in Nat /\ py \in Nat
  BY <1>1, SizeAssumption
<1>3. [s EXCEPT !.x = IF s.x > 0 THEN s.x - 1 ELSE IF s.y > 0 THEN NUM_COLS - 1 ELSE 0,
                !.y = IF s.x = 0 /\ s.y > 0 THEN @ - 1 ELSE @] = t
  <2>1. Moved(s, px, py) = t
    BY <1>1, <1>2, ExceptIs
  <2> QED BY <2>1 DEF Moved
<1>4. erase_char(s) = Store(t, BLANK)
  BY <1>3 DEF erase_char
<1> HIDE DEF px, py
<1>5. t \in Consoles /\ t.x = px /\ t.y = py /\ t.fault = s.fault /\ t.video = s.video
  BY <1>1, <1>2 DEF Consoles
<1> HIDE DEF t
<1> DEFINE loc == get_screen_loc(px, py)
           v == IF loc \in Cells THEN [s.video EXCEPT ![loc] = BLANK] ELSE s.video
           b == IF loc \in Cells THEN s.fault ELSE TRUE
<1>6. Store(t, BLANK) = [video |-> v, x |-> px, y |-> py, fault |-> b]
  BY <1>5, StoreIs DEF Chars
<1>7. v \in [Cells -> Chars] /\ b \in BOOLEAN /\ (loc \in Cells => b = FALSE)
  BY <1>1 DEF Chars, Consoles
<1> HIDE DEF v, b, loc
<1>8. [video |-> v, x |-> px, y |-> py, fault |-> b] \in Consoles
  BY <1>2, <1>7 DEF Consoles
<1> QED BY <1>4, <1>6, <1>7, <1>8 DEF px, py, loc

(* It never takes the position further out either ...                      *)
LEMMA EraseWithin ==
    ASSUME NEW X \in Nat, NEW Y \in Nat, X >= NUM_COLS - 1, NEW s \in Within(X, Y),
           s.fault = FALSE
    PROVE  erase_char(s) \in Within(X, Y)
<1>1. s \in Consoles /\ s.x \in Nat /\ s.y \in Nat /\ s.x <= X /\ s.y <= Y
  BY DEF Within, Consoles
<1> DEFINE t == erase_char(s)
<1>2. /\ t \in Consoles
      /\ t.x = IF s.x > 0 THEN s.x - 1 ELSE IF s.y > 0 THEN NUM_COLS - 1 ELSE 0
      /\ t.y = IF s.x = 0 /\ s.y > 0 THEN s.y - 1 ELSE s.y
  BY <1>1, EraseIs
<1> HIDE DEF t
<1>3. t.x <= X /\ t.y <= Y
  BY <1>1, <1>2, SizeAssumption
<1>4. t \in Within(X, Y)
  BY <1>2, <1>3 DEF Within
<1> QED BY <1>4 DEF t

(* ... and on the screen it stays there.                                   *)
LEMMA EraseOnScreen ==
    ASSUME NEW s \in OnScreen
    PROVE  erase_char(s) \in OnScreen
<1>1. /\ s \in Consoles /\ s.fault = FALSE
      /\ s.x \in Nat /\ s.y \in Nat /\ s.x < NUM_COLS /\ s.y < NUM_ROWS
  BY DEF OnScreen, Consoles
<1> DEFINE t == erase_char(s)
<1>2. /\ t \in Consoles
      /\ t.x = IF s.x > 0 THEN s.x - 1 ELSE IF s.y > 0 THEN NUM_COLS - 1 ELSE 0
      /\ t.y = IF s.x = 0 /\ s.y > 0 THEN s.y - 1 ELSE s.y
      /\ get_screen_loc(t.x, t.y) \in Cells => t.fault = FALSE
  BY <1>1, EraseIs
<1> HIDE DEF t
<1>3. t.x \in Nat /\ t.y \in Nat /\ t.x < NUM_COLS /\ t.y < NUM_ROWS
  BY <1>1, <1>2, SizeAssumption
<1>4. get_screen_loc(t.x, t.y) \in Cells
  BY <1>3, LocOnScreen
<1>5. t \in OnScreen
  BY <1>2, <1>3, <1>4 DEF OnScreen
<1> QED BY <1>5 DEF t

-----------------------------------------------------------------------------
(* The inductive invariant.                                                *)

(* Where putc's own updates may leave the position outside: in the column  *)
(* behind the row, or in the row below the screen.                         *)
BehindRow == {"x_test", "nl_load", "nl_store", "nl_x"}
BelowScreen == {"nl_x", "nl_test", "move", "fill", "bottom"}

Columns == IF wpc \in BehindRow THEN NUM_COLS ELSE NUM_COLS - 1
Rows == IF wpc \in BelowScreen THEN NUM_ROWS ELSE NUM_ROWS - 1

(* Unless a terminal was left in such a moment, the position is outside    *)
(* nowhere else, and what the program has loaded is from the screen.       *)
Position ==
    raced # "switch" =>
        /\ wpc # "fault" => screen_x <= Columns /\ screen_y <= Rows
        /\ wpc = "x_store" => reg <= NUM_COLS - 1
        /\ wpc = "nl_store" => reg <= NUM_ROWS - 1
        /\ wpc \in {"col", "attr_col"} => reg <= NUM_COLS * (NUM_ROWS - 1)
        /\ wpc \in {"store", "attr"} => reg \in Screen
        /\ \A t \in Terms : saved[t].x < NUM_COLS /\ saved[t].y < NUM_ROWS

(* The loops of scroll stay on the screen.                                 *)
Scrolling ==
    /\ wpc = "move" => reg <= NUM_COLS * (NUM_ROWS - 1)
    /\ wpc = "fill" => reg < NUM_COLS * NUM_ROWS

(* A newline is not stored.                                                *)
Printing == wpc \in {"row", "col", "store"} => ch \in Glyphs

(* How far a program's set_cursor_loc has come with the position it read.  *)
Sending ==
    LET bytes == CursorBytes(get_screen_loc(screen_x, screen_y))
    IN  untimely = FALSE =>
            /\ wpc = "loc_col" => reg = NUM_COLS * screen_y
            /\ wpc \in {"save", "high_idx", "high", "low_idx", "low"} =>
                  reg = get_screen_loc(screen_x, screen_y)
            /\ wpc \in {"low_idx", "low"} => crt[1] = bytes[1]
            /\ wpc \in {"restore", "idle", "next"} => crt = bytes

(* What was on a terminal's screen is in its buffer, before the first NUL. *)
Kept ==
    \A t \in Terms :
        /\ left[t].x = saved[t].x /\ left[t].y = saved[t].y
        /\ \A i \in DOMAIN left[t].cells :
              /\ i \in Cells
              /\ left[t].cells[i] = saved[t].vid_buf[i]
              /\ \A j \in 0..i : saved[t].vid_buf[j] # NUL

IInv ==
    /\ TypeOK
    /\ Position
    /\ StoresInPage
    /\ Scrolling
    /\ Printing
    /\ CursorRegisterSelected
    /\ Sending
    /\ Kept

(* What the handler finds is a console without fault.                      *)
LEMMA SharedIs ==
    ASSUME TypeOK
    PROVE  /\ Shared \in Consoles
           /\ Shared.video = video /\ Shared.x = screen_x /\ Shared.y = screen_y
           /\ Shared.fault = FALSE
           /\ ~OffScreen(screen_x, screen_y) => Shared \in OnScreen
<1>1. video \in [Cells -> Chars] /\ screen_x \in Nat /\ screen_y \in Nat
  BY DEF TypeOK
<1>2. Shared \in Consoles
  BY <1>1 DEF Shared, Consoles
<1>3. /\ Shared.video = video /\ Shared.x = screen_x /\ Shared.y = screen_y
      /\ Shared.fault = FALSE
  BY DEF Shared
<1> QED BY <1>1, <1>2, <1>3, SizeAssumption DEF OffScreen, OnScreen

(* Every location fits in the two cursor registers.                        *)
LEMMA BytesType ==
    ASSUME NEW loc \in Nat
    PROVE  CursorBytes(loc) \in (0..(CursorByte - 1)) \X (0..(CursorByte - 1))
<1>1. loc \div CursorByte \in Nat
  BY SizeAssumption
<1>2. (loc \div CursorByte) % CursorByte \in 0..(CursorByte - 1)
  BY <1>1, SizeAssumption
<1>3. loc % CursorByte \in 0..(CursorByte - 1)
  BY SizeAssumption
<1> QED BY <1>2, <1>3 DEF CursorBytes

(* Locations are natural numbers.                                          *)
LEMMA LocType ==
    ASSUME NEW x \in Nat, NEW y \in Nat
    PROVE  get_screen_loc(x, y) \in Nat
<1>1. NUM_COLS * y \in Nat
  BY SizeAssumption
<1> QED BY <1>1 DEF get_screen_loc

(* The boot leaves a prompt on a cleared screen.                           *)
LEMMA InitIInv == Init => IInv
<1> SUFFICES ASSUME Init PROVE IInv
  OBVIOUS
<1> DEFINE boot == [video |-> [i \in Cells |-> Behind], x |-> 0, y |-> 0, fault |-> FALSE]
           shown == clear_screen(boot)
<1>1. boot \in Consoles /\ boot.fault = FALSE
  BY TextAssumption DEF Consoles, Chars
<1>2. video = shown.video /\ screen_x = shown.x /\ screen_y = shown.y
  BY DEF Init
<1> HIDE DEF boot
<1>3. shown \in OnScreen
  BY <1>1, ClearOnScreen
<1> HIDE DEF shown
<1>4. /\ video \in [Cells -> Chars] /\ screen_x \in Nat /\ screen_y \in Nat
      /\ screen_x < NUM_COLS /\ screen_y < NUM_ROWS
  BY <1>2, <1>3 DEF OnScreen, Consoles
<1>5. CursorBytes(0) \in (0..(CursorByte - 1)) \X (0..(CursorByte - 1))
  BY BytesType
<1>6. /\ sel = "other" /\ addr_reg = "other" /\ crt = CursorBytes(0)
      /\ term_flag = 0
      /\ kbd_line_cnt = [t \in Terms |-> 0]
      /\ saved = [t \in Terms |-> Fresh]
      /\ left = [t \in Terms |-> [cells |-> << >>, x |-> 0, y |-> 0]]
      /\ wpc = "idle" /\ ch = NUL /\ togo = 0 /\ reg = 0
      /\ keys = 0 /\ raced = "no" /\ untimely = TRUE
  BY DEF Init
<1>7. Fresh.vid_buf \in [Cells -> Chars] /\ Fresh.x = 0 /\ Fresh.y = 0
  BY DEF Fresh, Chars
<1>8. TypeOK
  <2>1. 0 \in 0..(KBD_BUF_SIZE - 1) /\ 0 \in 0..MaxKeys
    BY SizeAssumption
  <2> QED BY <1>4, <1>5, <1>6, <1>7, <2>1, TermsAssumption DEF TypeOK, Writing, Registers
<1>9. Position
  BY <1>4, <1>6, <1>7, SizeAssumption DEF Position, Columns, Rows, BehindRow, BelowScreen
<1>10. Kept
  BY <1>6, <1>7 DEF Kept
<1>11. StoresInPage /\ Scrolling /\ Printing /\ CursorRegisterSelected /\ Sending
  BY <1>6 DEF StoresInPage, Scrolling, Printing, CursorRegisterSelected, Sending
<1> QED BY <1>8, <1>9, <1>10, <1>11 DEF IInv

-----------------------------------------------------------------------------
(* The program's steps.                                                    *)

(* What no step of the program touches stays kept.                         *)
LEMMA TermUnchanged ==
    ASSUME Kept, UNCHANGED <<saved, left>>
    PROVE  Kept'
BY DEF Kept

(* Every access of term_write, putc, scroll and set_cursor_loc preserves   *)
(* the invariant.                                                          *)
LEMMA ProgramKeeps ==
    ASSUME IInv, Program
    PROVE  IInv'
<1> USE SizeAssumption, TermUnchanged
<1> USE DEF con, port, term, aux, Goto, Load
<1> USE DEF IInv, TypeOK, Writing, Position, Columns, Rows, BehindRow, BelowScreen, StoresInPage,
            Scrolling, Printing, CursorRegisterSelected, Sending
<1>1. /\ NUM_COLS * NUM_ROWS \in Nat /\ NUM_COLS * (NUM_ROWS - 1) \in Nat
      /\ NUM_COLS * (NUM_ROWS - 1) + NUM_COLS = NUM_COLS * NUM_ROWS
      /\ PageCells \in Nat /\ NUM_COLS * NUM_ROWS <= PageCells
  BY Sizes
<1>2. CASE EndOfText
  BY <1>2 DEF EndOfText
<1>3. ASSUME NEW c \in Glyphs \cup {NL}, Character(c) PROVE IInv'
  BY <1>3 DEF Character
<1>4. ASSUME wpc \in {"row", "attr_row", "loc_row"}, raced # "switch"
      PROVE  NUM_COLS * screen_y <= NUM_COLS * (NUM_ROWS - 1)
  BY <1>4, LocOnScreen
<1>5. ASSUME wpc \in {"col", "attr_col"}, raced # "switch"
      PROVE  reg + screen_x \in Screen
  BY <1>1, <1>5, Sizes DEF Screen
<1>6. Screen \subseteq Cells
  BY <1>1, Sizes DEF Screen, Cells
<1>7. CASE RowOf("row", "col")
  BY <1>4, <1>7 DEF RowOf
<1>8. CASE ColOf("col", "store")
  BY <1>5, <1>8 DEF ColOf
<1>9. CASE StoreChar
  <2>1. video' \in [Cells -> Chars]
    BY <1>9 DEF StoreChar, Chars
  <2> QED BY <1>6, <1>9, <2>1 DEF StoreChar
<1>10. CASE RowOf("attr_row", "attr_col")
  BY <1>4, <1>10 DEF RowOf
<1>11. CASE ColOf("attr_col", "attr")
  BY <1>5, <1>11 DEF ColOf
<1>12. CASE StoreAttr
  BY <1>6, <1>12 DEF StoreAttr
<1>13. CASE XLoad
  BY <1>13 DEF XLoad
<1>14. CASE XStore
  BY <1>14 DEF XStore
<1>15. CASE XTest
  BY <1>15 DEF XTest
<1>16. CASE YLoad
  BY <1>16 DEF YLoad
<1>17. CASE YStore
  BY <1>17 DEF YStore
<1>18. CASE XReset
  BY <1>18 DEF XReset
<1>19. CASE YTest
  BY <1>1, <1>19 DEF YTest
<1>20. CASE Move
  <2>1. video' \in [Cells -> Chars]
    <3>1. reg < NUM_COLS * (NUM_ROWS - 1) => reg + NUM_COLS \in Cells
      BY <1>1 DEF Cells
    <3> QED BY <1>20, <3>1 DEF Move
  <2> QED BY <1>1, <1>20, <2>1 DEF Move
<1>21. CASE Fill
  <2>1. video' \in [Cells -> Chars]
    BY <1>21 DEF Fill, Chars
  <2> QED BY <1>1, <1>21, <2>1 DEF Fill
<1>22. CASE Bottom
  BY <1>22 DEF Bottom
<1>23. CASE Locate
  <2>1. NUM_COLS * screen_y \in Nat
    OBVIOUS
  <2>2. TypeOK'
    BY <1>23, <2>1 DEF Locate
  <2> QED BY <1>23, <2>2 DEF Locate
<1>24. CASE ColOf("loc_col", "save")
  BY <1>24 DEF ColOf, get_screen_loc
<1>25. CASE SaveSel
  BY <1>25 DEF SaveSel
<1>26. CASE Select("high_idx", "high", "high")
  BY <1>26 DEF Select, Registers
<1>27. CASE SendHigh
  BY <1>27, BytesType DEF SendHigh, DataPort
<1>28. CASE Select("low_idx", "low", "low")
  BY <1>28 DEF Select, Registers
<1>29. CASE SendLow
  BY <1>29, BytesType DEF SendLow, DataPort
<1>30. CASE Restore
  BY <1>30 DEF Restore
<1> QED BY <1>2, <1>3, <1>7, <1>8, <1>9, <1>10, <1>11, <1>12, <1>13, <1>14, <1>15, <1>16, <1>17,
           <1>18, <1>19, <1>20, <1>21, <1>22, <1>23, <1>24, <1>25, <1>26, <1>27, <1>28, <1>29,
           <1>30 DEF Program

-----------------------------------------------------------------------------
(* The keyboard handler's steps.                                           *)

(* A key that stays on the terminal: what it prints keeps the position     *)
(* inside the bounds of the moment it came in, and faults only if the      *)
(* position was off the screen.                                            *)
LEMMA KeyKeeps ==
    ASSUME IInv, Pressed("key"), NEW s \in Consoles, NEW loc \in Nat, Handled(s, loc),
           ~OffScreen(screen_x, screen_y) => s.fault = FALSE,
           raced # "switch" /\ wpc # "fault" => s \in Within(Columns, Rows),
           kbd_line_cnt' \in [Terms -> 0..(KBD_BUF_SIZE - 1)],
           UNCHANGED <<term_flag, saved, left, ch, togo, reg>>
    PROVE  IInv'
<1> USE SizeAssumption
<1>1. /\ keys' \in 0..MaxKeys /\ wpc # "fault"
      /\ raced' \in {"no", "key", "switch"}
      /\ raced' # "switch" => raced # "switch"
      /\ raced' = "no" => ~OffScreen(screen_x, screen_y)
  BY DEF Pressed, IInv, TypeOK
<1>2. Kept'
  BY TermUnchanged DEF IInv
<1>3. s.fault \in BOOLEAN /\ s.video \in [Cells -> Chars] /\ s.x \in Nat /\ s.y \in Nat
  BY DEF Consoles
<1>4. CASE s.fault = TRUE
  <2>1. wpc' = "fault" /\ UNCHANGED <<con, port, untimely>>
    BY <1>4 DEF Handled
  <2>2. raced' # "no"
    BY <1>1, <1>4
  <2>3. TypeOK'
    BY <2>1, <1>1 DEF IInv, TypeOK, Writing, con, port
  <2>4. Position'
    BY <2>1, <1>1 DEF IInv, Position
  <2>5. StoresInPage' /\ Scrolling' /\ Printing' /\ CursorRegisterSelected' /\ Sending'
    BY <2>1, <2>2 DEF StoresInPage, Scrolling, Printing, CursorRegisterSelected, Sending
  <2> QED BY <1>2, <2>3, <2>4, <2>5 DEF IInv
<1>5. CASE s.fault = FALSE
  <2>1. /\ video' = s.video /\ screen_x' = s.x /\ screen_y' = s.y
        /\ crt' = CursorBytes(loc) /\ addr_reg' = sel /\ sel' = sel
        /\ wpc' = wpc
    BY <1>5 DEF Handled, set_cursor_loc
  <2>2. untimely' = (SendingCursor \/ loc # get_screen_loc(s.x, s.y))
    BY <1>5 DEF Handled
  <2>3. untimely' \in BOOLEAN
    BY <2>2, Zenon
  <2>4. untimely' = FALSE => ~SendingCursor /\ loc = get_screen_loc(s.x, s.y)
    BY <2>2, Zenon
  <2>5. TypeOK'
    <3>1. crt' \in (0..(CursorByte - 1)) \X (0..(CursorByte - 1))
      BY <2>1, BytesType
    <3> QED BY <1>1, <1>3, <2>1, <2>3, <3>1 DEF IInv, TypeOK
  <2>6. Position'
    <3>1. raced # "switch" => s.x <= Columns /\ s.y <= Rows
      BY <1>1 DEF Within
    <3>2. Columns' = Columns /\ Rows' = Rows
      BY <2>1 DEF Columns, Rows
    <3> QED BY <1>1, <2>1, <3>1, <3>2 DEF IInv, Position
  <2>7. StoresInPage' /\ Scrolling' /\ Printing' /\ CursorRegisterSelected'
    BY <1>1, <2>1 DEF IInv, StoresInPage, Scrolling, Printing, CursorRegisterSelected
  <2>8. Sending'
    BY <2>1, <2>4 DEF Sending, SendingCursor
  <2> QED BY <1>2, <2>5, <2>6, <2>7, <2>8 DEF IInv
<1> QED BY <1>3, <1>4, <1>5

(* What the handler does with the console it finds, whatever key came.     *)
LEMMA ShownKeeps ==
    ASSUME IInv, NEW s \in Consoles,
           ~OffScreen(screen_x, screen_y) => s \in OnScreen,
           raced # "switch" /\ wpc # "fault" => s \in Within(Columns, Rows),
           Pressed("key"), Handled(s, get_screen_loc(s.x, s.y)),
           kbd_line_cnt' \in [Terms -> 0..(KBD_BUF_SIZE - 1)],
           UNCHANGED <<term_flag, saved, left, ch, togo, reg>>
    PROVE  IInv'
<1>1. get_screen_loc(s.x, s.y) \in Nat
  BY LocType DEF Consoles
<1>2. ~OffScreen(screen_x, screen_y) => s.fault = FALSE
  BY DEF OnScreen
<1> QED BY <1>1, <1>2, KeyKeeps

(* The bounds of the moment, and the console the handler finds in them.    *)
LEMMA BoundsAre ==
    ASSUME IInv
    PROVE  /\ Columns \in Nat /\ Rows \in Nat
           /\ Columns >= NUM_COLS - 1 /\ Rows >= NUM_ROWS - 1
           /\ raced # "switch" /\ wpc # "fault" => Shared \in Within(Columns, Rows)
<1>1. Shared \in Consoles /\ Shared.x = screen_x /\ Shared.y = screen_y
  BY SharedIs DEF IInv
<1>2. /\ Columns \in Nat /\ Rows \in Nat
      /\ Columns >= NUM_COLS - 1 /\ Rows >= NUM_ROWS - 1
  BY SizeAssumption DEF Columns, Rows
<1> QED BY <1>1, <1>2 DEF IInv, Position, Within

(* A character or a newline is typed.                                      *)
LEMMA InsertKeeps ==
    ASSUME IInv, NEW c \in Glyphs \cup {NL}, insert_op(c)
    PROVE  IInv'
<1> DEFINE s == IF c = NL \/ kbd_line_cnt[term_flag] < KBD_BUF_SIZE - 1
                THEN putc(Shared, c) ELSE Shared
<1>1. /\ Pressed("key") /\ Handled(s, get_screen_loc(s.x, s.y))
      /\ kbd_line_cnt' = [kbd_line_cnt EXCEPT ![term_flag] =
                               IF c = NL THEN 0
                               ELSE IF @ < KBD_BUF_SIZE - 1 THEN @ + 1 ELSE @]
      /\ UNCHANGED <<term_flag, saved, left, ch, togo, reg>>
  BY DEF insert_op
<1>2. /\ Shared \in Consoles
      /\ ~OffScreen(screen_x, screen_y) => Shared \in OnScreen
  BY SharedIs DEF IInv
<1>3. s \in Consoles
  BY <1>2, PutcIs
<1>4. ~OffScreen(screen_x, screen_y) => s \in OnScreen
  BY <1>2, PutcOnScreen
<1>5. raced # "switch" /\ wpc # "fault" => s \in Within(Columns, Rows)
  BY BoundsAre, PutcWithin
<1>6. kbd_line_cnt' \in [Terms -> 0..(KBD_BUF_SIZE - 1)]
  BY <1>1, SizeAssumption DEF IInv, TypeOK
<1> HIDE DEF s
<1> QED BY <1>1, <1>3, <1>4, <1>5, <1>6, ShownKeeps

(* Backspace.                                                              *)
LEMMA RemoveKeeps ==
    ASSUME IInv, remove_op
    PROVE  IInv'
<1> DEFINE s == erase_char(Shared)
<1>1. /\ Pressed("key") /\ Handled(s, get_screen_loc(s.x, s.y))
      /\ kbd_line_cnt[term_flag] > 0
      /\ kbd_line_cnt' = [kbd_line_cnt EXCEPT ![term_flag] = @ - 1]
      /\ UNCHANGED <<term_flag, saved, left, ch, togo, reg>>
  BY DEF remove_op
<1>2. /\ Shared \in Consoles /\ Shared.fault = FALSE
      /\ ~OffScreen(screen_x, screen_y) => Shared \in OnScreen
  BY SharedIs DEF IInv
<1>3. s \in Consoles
  BY <1>2, EraseIs
<1>4. ~OffScreen(screen_x, screen_y) => s \in OnScreen
  BY <1>2, EraseOnScreen
<1>5. raced # "switch" /\ wpc # "fault" => s \in Within(Columns, Rows)
  BY <1>2, BoundsAre, EraseWithin
<1>6. kbd_line_cnt' \in [Terms -> 0..(KBD_BUF_SIZE - 1)]
  BY <1>1, SizeAssumption DEF IInv, TypeOK
<1> HIDE DEF s
<1> QED BY <1>1, <1>3, <1>4, <1>5, <1>6, ShownKeeps

(* A key that is not supported.                                            *)
LEMMA ComplaintKeeps ==
    ASSUME IInv, Unsupported
    PROVE  IInv'
<1> DEFINE s == puts(Shared, Complaint)
<1>1. /\ Pressed("key") /\ Handled(s, get_screen_loc(s.x, s.y))
      /\ UNCHANGED <<term_flag, kbd_line_cnt, saved, left, ch, togo, reg>>
  BY DEF Unsupported, term
<1>2. /\ Shared \in Consoles
      /\ ~OffScreen(screen_x, screen_y) => Shared \in OnScreen
  BY SharedIs DEF IInv
<1>3. s \in Consoles
  <2>1. \A z \in Consoles : \A c \in Glyphs \cup {BLANK, NL} : putc(z, c) \in Consoles
    BY PutcIs
  <2>2. Complaint \in Seq(Glyphs \cup {BLANK, NL})
    BY TextAssumption
  <2> QED BY <1>2, <2>1, <2>2, PutsKeeps
<1>4. ~OffScreen(screen_x, screen_y) => s \in OnScreen
  BY <1>2, PutsOnScreen
<1>5. raced # "switch" /\ wpc # "fault" => s \in Within(Columns, Rows)
  BY BoundsAre, PutsWithin
<1>6. kbd_line_cnt' \in [Terms -> 0..(KBD_BUF_SIZE - 1)]
  BY <1>1 DEF IInv, TypeOK
<1> HIDE DEF s
<1> QED BY <1>1, <1>3, <1>4, <1>5, <1>6, ShownKeeps

(* Ctrl-L: the cursor goes elsewhere than the position.                    *)
LEMMA ClearKeeps ==
    ASSUME IInv, ClearScreen
    PROVE  IInv'
<1> DEFINE s == clear_screen(Shared)
<1>1. /\ Pressed("key") /\ Handled(s, 0)
      /\ UNCHANGED <<term_flag, kbd_line_cnt, saved, left, ch, togo, reg>>
  BY DEF ClearScreen, term
<1>2. Shared \in Consoles /\ Shared.fault = FALSE
  BY SharedIs DEF IInv
<1>3. s \in OnScreen
  BY <1>2, ClearOnScreen
<1>4. s \in Consoles /\ s.fault = FALSE /\ s \in Within(Columns, Rows)
  <2>1. /\ s \in Consoles /\ s.fault = FALSE
        /\ s.x \in Nat /\ s.y \in Nat /\ s.x < NUM_COLS /\ s.y < NUM_ROWS
    BY <1>3 DEF OnScreen, Consoles
  <2>2. s.x <= Columns /\ s.y <= Rows
    BY <2>1, SizeAssumption DEF Columns, Rows
  <2> QED BY <2>1, <2>2 DEF Within
<1>5. kbd_line_cnt' \in [Terms -> 0..(KBD_BUF_SIZE - 1)]
  BY <1>1 DEF IInv, TypeOK
<1> HIDE DEF s
<1>6. 0 \in Nat
  OBVIOUS
<1> QED BY <1>1, <1>4, <1>5, <1>6, KeyKeeps

(* Every other key.                                                        *)
LEMMA OtherKeeps ==
    ASSUME IInv, OtherKey
    PROVE  IInv'
<1>1. /\ Shared \in Consoles /\ Shared.x = screen_x /\ Shared.y = screen_y
      /\ ~OffScreen(screen_x, screen_y) => Shared \in OnScreen
  BY SharedIs DEF IInv
<1>2. /\ Pressed("key") /\ Handled(Shared, get_screen_loc(screen_x, screen_y))
      /\ UNCHANGED <<term_flag, kbd_line_cnt, saved, left, ch, togo, reg>>
  BY DEF OtherKey, term
<1>3. Handled(Shared, get_screen_loc(Shared.x, Shared.y))
  BY <1>1, <1>2
<1>4. kbd_line_cnt' \in [Terms -> 0..(KBD_BUF_SIZE - 1)]
  BY <1>2 DEF IInv, TypeOK
<1> QED BY <1>1, <1>2, <1>3, <1>4, BoundsAre, ShownKeeps

-----------------------------------------------------------------------------
(* Switching terminals.                                                    *)

(* The cells that switch_term copies: up to and including the first NUL.   *)
Copied(v) == {i \in Cells : \A j \in 0..(i - 1) : v[j] # NUL}

(* It never faults, takes the position from the terminal it goes to, and   *)
(* shows its buffer in the copied cells.                                   *)
LEMMA SwitchIs ==
    ASSUME NEW s \in Consoles, s.fault = FALSE, NEW t,
           t.vid_buf \in [Cells -> Chars], t.x \in Nat, t.y \in Nat
    PROVE  LET z == switch_term(s, t)
           IN  /\ z \in Consoles /\ z.fault = FALSE /\ z.x = t.x /\ z.y = t.y
               /\ \A i \in Copied(t.vid_buf) : z.video[i] = t.vid_buf[i]
<1> DEFINE blank == clear_screen(s)
           v == [i \in Cells |-> IF i \in Copied(t.vid_buf) THEN t.vid_buf[i]
                                                            ELSE blank.video[i]]
<1>1. blank \in Consoles /\ blank.fault = FALSE /\ blank.video \in [Cells -> Chars]
  BY ClearOnScreen DEF OnScreen, Consoles
<1>2. v \in [Cells -> Chars]
  BY <1>1
<1>3. \A i \in Copied(t.vid_buf) : v[i] = t.vid_buf[i]
  BY DEF Copied
<1>4. switch_term(s, t) = Redrawn(blank, v, t.x, t.y)
  BY DEF switch_term, Redrawn, Copied
<1> HIDE DEF v, blank
<1>5. switch_term(s, t) = [video |-> v, x |-> t.x, y |-> t.y, fault |-> blank.fault]
  BY <1>1, <1>2, <1>4, ExceptIs
<1>6. [video |-> v, x |-> t.x, y |-> t.y, fault |-> blank.fault] \in Consoles
  BY <1>1, <1>2 DEF Consoles
<1> QED BY <1>1, <1>3, <1>5, <1>6

(* save_term keeps the position and every cell before the first NUL.       *)
LEMMA SaveIs ==
    ASSUME NEW s \in Consoles
    PROVE  LET t == save_term(s)
           IN  /\ t.vid_buf \in [Cells -> Chars] /\ t.x = s.x /\ t.y = s.y
               /\ \A i \in Readable(s.video) :
                     /\ i \in Cells /\ t.vid_buf[i] = s.video[i]
                     /\ \A j \in 0..i : t.vid_buf[j] # NUL
<1> DEFINE b == [i \in Cells |-> IF i \in Readable(s.video) THEN s.video[i] ELSE NUL]
<1>1. save_term(s) = [vid_buf |-> b, x |-> s.x, y |-> s.y]
  BY DEF save_term
<1>2. b \in [Cells -> Chars]
  BY DEF Consoles, Chars
<1>3. ASSUME NEW i \in Readable(s.video)
      PROVE  /\ i \in Cells /\ b[i] = s.video[i]
             /\ \A j \in 0..i : b[j] # NUL
  <2>1. i \in Cells /\ \A j \in 0..i : s.video[j] # NUL
    BY DEF Readable
  <2>2. ASSUME NEW j \in 0..i PROVE j \in Cells /\ j \in Readable(s.video)
    <3>1. j \in Cells /\ \A k \in 0..j : k \in 0..i
      BY <2>1, Sizes DEF Cells
    <3> QED BY <3>1, <2>1 DEF Readable
  <2> QED BY <2>1, <2>2
<1> HIDE DEF b
<1> QED BY <1>1, <1>2, <1>3

(* A switch of terminals.                                                  *)
LEMMA SwitchStep ==
    ASSUME IInv, NEW t \in Terms, SwitchTerm(t)
    PROVE  IInv' /\ term_flag' = t /\ Restored(t)
<1> DEFINE s == switch_term(Shared, saved[t])
           mine == save_term(Shared)
           shown == [cells |-> [i \in Readable(video) |-> video[i]],
                     x |-> screen_x, y |-> screen_y]
           none == [cells |-> << >>, x |-> 0, y |-> 0]
<1> USE SizeAssumption
<1>1. /\ Pressed("switch") /\ t # term_flag
      /\ Handled(s, get_screen_loc(s.x, s.y))
      /\ term_flag' = t
      /\ saved' = [saved EXCEPT ![term_flag] = mine, ![t] = Fresh]
      /\ left' = [left EXCEPT ![term_flag] = shown, ![t] = none]
      /\ UNCHANGED <<kbd_line_cnt, ch, togo, reg>>
  BY DEF SwitchTerm
<1>2. /\ Shared \in Consoles /\ Shared.fault = FALSE
      /\ Shared.video = video /\ Shared.x = screen_x /\ Shared.y = screen_y
  BY SharedIs DEF IInv
<1>3. /\ saved[t].vid_buf \in [Cells -> Chars] /\ saved[t].x \in Nat /\ saved[t].y \in Nat
      /\ DOMAIN saved = Terms /\ DOMAIN left = Terms /\ term_flag \in Terms
      /\ screen_x \in Nat /\ screen_y \in Nat
  BY DEF IInv, TypeOK
<1>4. /\ s \in Consoles /\ s.fault = FALSE /\ s.x = saved[t].x /\ s.y = saved[t].y
      /\ \A i \in Copied(saved[t].vid_buf) : s.video[i] = saved[t].vid_buf[i]
  BY <1>2, <1>3, SwitchIs
<1>5. /\ mine.vid_buf \in [Cells -> Chars] /\ mine.x = screen_x /\ mine.y = screen_y
      /\ \A i \in Readable(video) : /\ i \in Cells /\ mine.vid_buf[i] = video[i]
                                    /\ \A j \in 0..i : mine.vid_buf[j] # NUL
  BY <1>2, SaveIs
<1>6. Fresh.vid_buf \in [Cells -> Chars] /\ Fresh.x = 0 /\ Fresh.y = 0
  BY DEF Fresh, Chars
<1> HIDE DEF s, mine
<1>7. /\ video' = s.video /\ screen_x' = s.x /\ screen_y' = s.y
      /\ crt' = CursorBytes(get_screen_loc(s.x, s.y)) /\ addr_reg' = sel /\ sel' = sel
      /\ wpc' = wpc
  BY <1>1, <1>4 DEF Handled, set_cursor_loc
<1>8. untimely' \in BOOLEAN /\ (untimely' = FALSE => ~SendingCursor)
  <2>1. untimely' = (SendingCursor \/ get_screen_loc(s.x, s.y) # get_screen_loc(s.x, s.y))
    BY <1>1, <1>4 DEF Handled
  <2> QED BY <2>1, Zenon
<1>9. /\ keys' \in 0..MaxKeys /\ wpc # "fault"
      /\ raced' \in {"no", "key", "switch"}
      /\ raced' # "switch" => raced # "switch" /\ ~OffScreen(screen_x, screen_y)
  BY <1>1 DEF Pressed, IInv, TypeOK
<1>10. /\ DOMAIN saved' = Terms
       /\ saved'[term_flag] = mine /\ saved'[t] = Fresh
       /\ \A u \in Terms \ {t, term_flag} : saved'[u] = saved[u]
  BY <1>1, <1>3
<1>11. shown.cells = [i \in Readable(video) |-> video[i]]
       /\ shown.x = screen_x /\ shown.y = screen_y
       /\ none.cells = << >> /\ none.x = 0 /\ none.y = 0
  OBVIOUS
<1> HIDE DEF shown, none
<1>12. /\ DOMAIN left' = Terms
       /\ left'[term_flag] = shown /\ left'[t] = none
       /\ \A u \in Terms \ {t, term_flag} : left'[u] = left[u]
  BY <1>1, <1>3
<1>13. Restored(t)
  <2>1. /\ left[t].x = saved[t].x /\ left[t].y = saved[t].y
        /\ \A i \in DOMAIN left[t].cells :
              /\ i \in Cells
              /\ left[t].cells[i] = saved[t].vid_buf[i]
              /\ \A j \in 0..i : saved[t].vid_buf[j] # NUL
    BY DEF IInv, Kept
  <2>2. ASSUME NEW i \in DOMAIN left[t].cells PROVE video'[i] = left[t].cells[i]
    <3>1. i \in Cells /\ \A j \in 0..(i - 1) : j \in 0..i
      BY <2>1, Sizes DEF Cells
    <3>2. i \in Copied(saved[t].vid_buf)
      BY <3>1, <2>1 DEF Copied
    <3> QED BY <3>2, <2>1, <1>4, <1>7
  <2> QED BY <2>1, <2>2, <1>4, <1>7 DEF Restored
<1>14. TypeOK'
  <2>1. crt' \in (0..(CursorByte - 1)) \X (0..(CursorByte - 1))
    <3>1. get_screen_loc(s.x, s.y) \in Nat
      BY <1>4, LocType DEF Consoles
    <3> QED BY <3>1, <1>7, BytesType
  <2>2. video' \in [Cells -> Chars] /\ screen_x' \in Nat /\ screen_y' \in Nat
    BY <1>4, <1>7 DEF Consoles
  <2>3. ASSUME NEW u \in Terms
        PROVE  /\ saved'[u].vid_buf \in [Cells -> Chars]
               /\ saved'[u].x \in Nat /\ saved'[u].y \in Nat
    BY <1>3, <1>5, <1>6, <1>10 DEF IInv, TypeOK
  <2> QED BY <1>1, <1>7, <1>8, <1>9, <1>10, <1>12, <2>1, <2>2, <2>3 DEF IInv, TypeOK
<1>15. Position'
  <2> SUFFICES ASSUME raced' # "switch" PROVE Position'
    BY DEF Position
  <2>1. raced # "switch" /\ screen_x < NUM_COLS /\ screen_y < NUM_ROWS
    BY <1>3, <1>9 DEF OffScreen
  <2>2. ASSUME NEW u \in Terms PROVE saved'[u].x < NUM_COLS /\ saved'[u].y < NUM_ROWS
    BY <2>1, <1>5, <1>6, <1>10 DEF IInv, Position
  <2>3. saved[t].x < NUM_COLS /\ saved[t].y < NUM_ROWS
    BY <2>1 DEF IInv, Position
  <2>4. screen_x' <= Columns' /\ screen_y' <= Rows'
    BY <2>3, <1>3, <1>4, <1>7 DEF Columns, Rows
  <2> QED BY <2>1, <2>2, <2>4, <1>1, <1>7 DEF IInv, Position
<1>16. StoresInPage' /\ Scrolling' /\ Printing' /\ CursorRegisterSelected'
  BY <1>1, <1>7, <1>9 DEF IInv, StoresInPage, Scrolling, Printing, CursorRegisterSelected
<1>17. Sending'
  BY <1>1, <1>7, <1>8 DEF Sending, SendingCursor
<1>18. Kept'
  <2> SUFFICES ASSUME NEW u \in Terms
               PROVE  /\ left'[u].x = saved'[u].x /\ left'[u].y = saved'[u].y
                      /\ \A i \in DOMAIN left'[u].cells :
                            /\ i \in Cells
                            /\ left'[u].cells[i] = saved'[u].vid_buf[i]
                            /\ \A j \in 0..i : saved'[u].vid_buf[j] # NUL
    BY DEF Kept
  <2>1. CASE u = t
    BY <2>1, <1>6, <1>10, <1>11, <1>12
  <2>2. CASE u = term_flag
    BY <2>2, <1>5, <1>10, <1>11, <1>12
  <2>3. CASE u \notin {t, term_flag}
    BY <2>3, <1>10, <1>12 DEF IInv, Kept
  <2> QED BY <2>1, <2>2, <2>3
<1> QED BY <1>1, <1>13, <1>14, <1>15, <1>16, <1>17, <1>18 DEF IInv

-----------------------------------------------------------------------------
(* Every step preserves the invariant.                                     *)
LEMMA NextIInv == IInv /\ [Next]_vars => IInv'
<1> SUFFICES ASSUME IInv, [Next]_vars PROVE IInv'
  OBVIOUS
<1>1. ASSUME NEW n \in Lengths, write(n) PROVE IInv'
  BY <1>1, TermUnchanged, SizeAssumption
     DEF write, Goto, con, port, term, aux, IInv, TypeOK, Writing, Position, Columns, Rows,
         BehindRow, BelowScreen, StoresInPage, Scrolling, Printing, CursorRegisterSelected,
         Sending
<1>2. CASE Program
  BY <1>2, ProgramKeeps
<1>3. CASE Key
  BY <1>3, InsertKeeps, RemoveKeeps, ComplaintKeeps, ClearKeeps, OtherKeeps, SwitchStep DEF Key
<1>4. CASE Fault \/ UNCHANGED vars
  <2>1. UNCHANGED vars
    BY <1>4 DEF Fault
  <2>2. UNCHANGED <<con, port, term, aux, wpc, ch, togo, reg>>
    BY <2>1 DEF vars
  <2> QED BY <2>2, TermUnchanged
          DEF con, port, term, aux, IInv, TypeOK, Position, Columns, Rows, StoresInPage,
              Scrolling, Printing, CursorRegisterSelected, Sending
<1> QED BY <1>1, <1>2, <1>3, <1>4 DEF Next

(* Only SwitchTerm changes the terminal on screen.                         *)
LEMMA SwitchRestores == IInv /\ [Next]_vars => [term_flag' # term_flag => Restored(term_flag')]_vars
<1> SUFFICES ASSUME IInv, Next, term_flag' # term_flag PROVE Restored(term_flag')
  BY DEF vars, term
<1>1. ASSUME NEW n \in Lengths, write(n) PROVE FALSE
  BY <1>1 DEF write, term
<1>2. CASE Program
  BY <1>2 DEF Program, EndOfText, Character, RowOf, ColOf, StoreChar, StoreAttr, XLoad, XStore,
              XTest, YLoad, YStore, XReset, YTest, Move, Fill, Bottom, Locate, SaveSel, Select,
              SendHigh, SendLow, DataPort, Restore, Load, term
<1>3. CASE Key
  <2>1. PICK t \in Terms : SwitchTerm(t)
    BY <1>3 DEF Key, insert_op, remove_op, Unsupported, ClearScreen, OtherKey, term
  <2>2. term_flag' = t /\ Restored(t)
    BY <2>1, SwitchStep
  <2> QED BY <2>2 DEF Restored
<1>4. CASE Fault
  BY <1>4 DEF Fault, vars, term
<1> QED BY <1>1, <1>2, <1>3, <1>4 DEF Next

-----------------------------------------------------------------------------
(* The invariant holds in every reachable state.                           *)
THEOREM ConsoleInvariance == Spec => []IInv
BY InitIInv, NextIInv, PTL DEF Spec

(* Every variable has its type; in particular the screen and the saved     *)
(* buffers hold characters, and the counts of typed characters stay below  *)
(* KBD_BUF_SIZE.                                                           *)
THEOREM ConsoleTypes == Spec => []TypeOK
<1>1. IInv => TypeOK
  BY DEF IInv
<1> QED BY ConsoleInvariance, <1>1, PTL

(* After every write the next character goes to a cell of the screen,      *)
(* whatever keys were echoed in the middle of putc, unless a terminal was  *)
(* left while the position was off the screen.                             *)
THEOREM PositionCorrect == Spec => []CursorOnScreen
<1>1. IInv => CursorOnScreen
  BY SizeAssumption DEF IInv, TypeOK, Position, CursorOnScreen, OffScreen, Columns, Rows,
                        BehindRow, BelowScreen
<1> QED BY ConsoleInvariance, <1>1, PTL

(* No store of putc, of its echo or of scroll leaves the page of video     *)
(* memory unless a key came while the position was off the screen.         *)
THEOREM PageCorrect == Spec => []StoresInPage
<1>1. IInv => StoresInPage
  BY DEF IInv
<1> QED BY ConsoleInvariance, <1>1, PTL

(* The program's writes to the CRT data port reach the register it         *)
(* selected.                                                               *)
THEOREM RegisterCorrect == Spec => []CursorRegisterSelected
<1>1. IInv => CursorRegisterSelected
  BY DEF IInv
<1> QED BY ConsoleInvariance, <1>1, PTL

(* Between writes the cursor shown is where the next character goes,       *)
(* unless a key came too late for it.                                      *)
THEOREM CursorCorrect == Spec => []CursorShown
<1>1. IInv => CursorShown
  <2> SUFFICES ASSUME IInv, wpc = "idle", ~untimely
               PROVE  crt = CursorBytes(get_screen_loc(screen_x, screen_y))
    BY DEF CursorShown
  <2>1. untimely \in BOOLEAN
    BY DEF IInv, TypeOK
  <2>2. untimely = FALSE
    BY <2>1, Zenon
  <2> QED BY <2>2 DEF IInv, Sending
<1> QED BY ConsoleInvariance, <1>1, PTL

(* Going back to a terminal brings back its screen, its position and its   *)
(* cursor.                                                                 *)
THEOREM SwitchCorrect == Spec => ScreenRestored
<1>1. Spec => [][Next]_vars /\ []IInv
  BY ConsoleInvariance, PTL DEF Spec
<1>2. IInv /\ [Next]_vars => [term_flag' # term_flag => Restored(term_flag')]_vars
  BY SwitchRestores
<1> QED BY <1>1, <1>2, PTL DEF ScreenRestored
=============================================================================
