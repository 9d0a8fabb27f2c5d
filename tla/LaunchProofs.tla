----------------------------- MODULE LaunchProofs -----------------------------
(***************************************************************************)
(* Proofs about Launch, for every buffer size, every length of names,      *)
(* every directory and every number of processes.                          *)
(*                                                                         *)
(* First the parser: what the two loops of execute find in a command is    *)
(* what the reference Asked says is there.  Then the search: the entry     *)
(* that strncmp selects is the first one of that name.  Then the           *)
(* invariant.                                                              *)
(***************************************************************************)
EXTENDS Launch, NaturalLemmas, FiniteSetTheorems, TLAPS

-----------------------------------------------------------------------------
(* The parsing loops.                                                      *)

(* s is where a scan that starts at byte i must stop.                      *)
First(c, i, s) ==
    /\ s \in i..KBD_BUF_SIZE
    /\ s = KBD_BUF_SIZE \/ c[s] \in Stops
    /\ \A k \in i..(s - 1) : c[k] \notin Stops

(* There is such a place ...                                               *)
LEMMA FirstExists ==
    ASSUME NEW c, NEW i \in 0..KBD_BUF_SIZE
    PROVE  \E s \in i..KBD_BUF_SIZE : First(c, i, s)
<1> DEFINE T == {k \in i..KBD_BUF_SIZE : k = KBD_BUF_SIZE \/ c[k] \in Stops}
<1>1. T \subseteq Nat /\ KBD_BUF_SIZE \in T
  BY SizeAssumption
<1>2. PICK s \in T : \A y \in T : s <= y
  BY <1>1, Least
<1>3. First(c, i, s)
  <2>1. s \in i..KBD_BUF_SIZE /\ (s = KBD_BUF_SIZE \/ c[s] \in Stops)
    OBVIOUS
  <2>2. ASSUME NEW k \in i..(s - 1) PROVE c[k] \notin Stops
    <3>1. k \in i..KBD_BUF_SIZE /\ k < s
      BY SizeAssumption
    <3> QED BY <3>1, <1>2
  <2> QED BY <2>1, <2>2 DEF First
<1> QED BY <1>3

(* ... and only one.                                                       *)
LEMMA FirstOnly ==
    ASSUME NEW c, NEW i \in Nat, NEW s, NEW t, First(c, i, s), First(c, i, t)
    PROVE  s = t
<1>1. s \in Int /\ t \in Int /\ i <= s /\ i <= t /\ s <= KBD_BUF_SIZE /\ t <= KBD_BUF_SIZE
  BY SizeAssumption DEF First
<1>2. CASE s < t
  <2>1. s \in i..(t - 1) /\ s # KBD_BUF_SIZE
    BY <1>1, <1>2, SizeAssumption
  <2> QED BY <2>1 DEF First
<1>3. CASE t < s
  <2>1. t \in i..(s - 1) /\ t # KBD_BUF_SIZE
    BY <1>1, <1>3, SizeAssumption
  <2> QED BY <2>1 DEF First
<1> QED BY <1>1, <1>2, <1>3

(* The loops stop there: the equation that defines Scan has a solution,    *)
(* and every solution counts up to the first stop.                         *)
LEMMA ScanFirst ==
    ASSUME NEW c, NEW i \in 0..KBD_BUF_SIZE
    PROVE  First(c, i, Scan(c, i))
<1> DEFINE stop(k) == k = KBD_BUF_SIZE \/ c[k] \in Stops
           D == i..KBD_BUF_SIZE
           loop(f) == [k \in D |-> IF k = KBD_BUF_SIZE \/ c[k] \in Stops THEN k ELSE f[k + 1]]
           at == CHOOSE f : f = loop(f)
           g == [k \in D |-> CHOOSE s \in D : First(c, k, s)]
<1> USE SizeAssumption
<1>1. ASSUME NEW k \in D PROVE g[k] \in D /\ First(c, k, g[k])
  <2>1. \E s \in D : First(c, k, s)
    <3>1. PICK s \in k..KBD_BUF_SIZE : First(c, k, s)
      BY FirstExists
    <3> QED BY <3>1
  <2> QED BY <2>1
<1>2. g = loop(g)
  <2>1. ASSUME NEW k \in D, stop(k) PROVE g[k] = k
    <3>1. First(c, k, k)
      BY <2>1 DEF First
    <3> QED BY <3>1, <1>1, FirstOnly
  <2>2. ASSUME NEW k \in D, ~stop(k) PROVE g[k] = g[k + 1]
    <3>1. k + 1 \in D
      BY <2>2
    <3>2. First(c, k + 1, g[k + 1])
      BY <3>1, <1>1
    <3>3. First(c, k, g[k + 1])
      <4> HIDE DEF g
      <4>1. \A j \in k..(g[k + 1] - 1) : j = k \/ j \in (k + 1)..(g[k + 1] - 1)
        BY <3>2 DEF First
      <4> QED BY <3>2, <4>1, <2>2 DEF First
    <3> QED BY <3>3, <1>1, FirstOnly
  <2>3. g = [k \in D |-> g[k]]
    OBVIOUS
  <2>4. \A k \in D : g[k] = IF k = KBD_BUF_SIZE \/ c[k] \in Stops THEN k ELSE g[k + 1]
    BY <2>1, <2>2
  <2> HIDE DEF g
  <2> QED BY <2>3, <2>4
<1>3. at = loop(at)
  <2> HIDE DEF g, loop
  <2> QED BY <1>2
<1>4. \A k \in D : at[k] = IF k = KBD_BUF_SIZE \/ c[k] \in Stops THEN k ELSE at[k + 1]
  <2> HIDE DEF at
  <2> QED BY <1>3
<1>5. Scan(c, i) = at[i]
  BY DEF Scan
<1> HIDE DEF at, g
<1>6. PICK s \in i..KBD_BUF_SIZE : First(c, i, s)
  BY FirstExists
<1>7. at[i] = s
  <2> DEFINE T == {d \in Nat : d <= s - i /\ at[s - d] # s}
  <2>1. SUFFICES ASSUME T # {} PROVE FALSE
    <3>1. s - i \in Nat /\ s - (s - i) = i
      OBVIOUS
    <3> QED BY <3>1
  <2>2. PICK d \in T : \A y \in T : d <= y
    BY <2>1, Least
  <2>3. d # 0
    <3>1. at[s] = s
      BY <1>4, <1>6 DEF First
    <3> QED BY <3>1, <2>2
  <2>4. d - 1 \in Nat /\ d - 1 \notin T /\ s - (d - 1) = (s - d) + 1
    BY <2>2, <2>3
  <2>5. at[(s - d) + 1] = s
    BY <2>4, <2>2
  <2>6. s - d \in i..(s - 1) /\ s - d \in D /\ s - d # KBD_BUF_SIZE
    BY <2>2, <2>3
  <2>7. at[s - d] = at[(s - d) + 1]
    BY <2>6, <1>4, <1>6 DEF First
  <2> QED BY <2>5, <2>7, <2>2
<1> QED BY <1>5, <1>6, <1>7

-----------------------------------------------------------------------------
(* What the loops find is what the command says.                           *)

(* The text of a command ends with its first 0 or newline.                 *)
LEMMA TextEndIs ==
    ASSUME NEW c \in Commands
    PROVE  /\ TextEnd(c) \in 0..KBD_BUF_SIZE
           /\ TextEnd(c) # KBD_BUF_SIZE => c[TextEnd(c)] \in {NUL, NL}
           /\ \A i \in 0..(TextEnd(c) - 1) : c[i] \notin {NUL, NL}
<1> DEFINE T == {i \in DOMAIN c : c[i] \in {NUL, NL}} \cup {KBD_BUF_SIZE}
<1> USE SizeAssumption
<1>1. DOMAIN c = 0..(KBD_BUF_SIZE - 1)
  BY DEF Commands
<1>2. T \subseteq Nat /\ T # {}
  BY <1>1
<1>3. Min(T) \in T /\ \A y \in T : Min(T) <= y
  BY <1>2, MinIs
<1>4. ASSUME NEW m \in T, \A y \in T : m <= y
      PROVE  /\ m \in 0..KBD_BUF_SIZE
             /\ m # KBD_BUF_SIZE => c[m] \in {NUL, NL}
             /\ \A i \in 0..(m - 1) : c[i] \notin {NUL, NL}
  <2>1. m \in 0..KBD_BUF_SIZE /\ (m # KBD_BUF_SIZE => c[m] \in {NUL, NL})
    BY <1>1
  <2>2. ASSUME NEW i \in 0..(m - 1), c[i] \in {NUL, NL} PROVE FALSE
    <3>1. i \in DOMAIN c /\ i < m
      BY <1>1, <2>1
    <3>2. i \in T
      BY <3>1, <2>2
    <3> QED BY <3>1, <3>2, <1>4, <2>1
  <2> QED BY <2>1, <2>2
<1> QED BY <1>3, <1>4 DEF TextEnd

(* The file name execute takes is the first word.                          *)
LEMMA NameEndIs ==
    ASSUME NEW c \in Commands
    PROVE  /\ NameEnd(c) = Min(Cuts(c))
           /\ First(c, 0, NameEnd(c))
           /\ NameEnd(c) \in 0..TextEnd(c)
           /\ NameEnd(c) # TextEnd(c) => c[NameEnd(c)] = BLANK
<1> USE SizeAssumption
<1> DEFINE te == TextEnd(c)
<1>1. /\ te \in 0..KBD_BUF_SIZE
      /\ te # KBD_BUF_SIZE => c[te] \in {NUL, NL}
      /\ \A i \in 0..(te - 1) : c[i] \notin {NUL, NL}
  BY TextEndIs
<1>2. Cuts(c) = {i \in 0..(te - 1) : c[i] = BLANK} \cup {te}
  BY DEF Cuts
<1> HIDE DEF te
<1>3. Cuts(c) \subseteq Nat /\ Cuts(c) # {}
  BY <1>1, <1>2
<1>4. PICK m \in Cuts(c) : m = Min(Cuts(c)) /\ \A y \in Cuts(c) : m <= y
  BY <1>3, MinIs
<1>5. /\ m \in 0..te
      /\ m # te => c[m] = BLANK
      /\ \A i \in 0..(m - 1) : c[i] # BLANK
  <2>1. m \in 0..te /\ (m # te => c[m] = BLANK)
    BY <1>1, <1>2
  <2>2. ASSUME NEW i \in 0..(m - 1), c[i] = BLANK PROVE FALSE
    <3>1. i \in 0..(te - 1) /\ i < m
      BY <1>1, <2>1
    <3>2. i \in Cuts(c)
      BY <3>1, <2>2, <1>2
    <3> QED BY <3>1, <3>2, <1>4, <2>1, <1>1
  <2> QED BY <2>1, <2>2
<1>6. First(c, 0, m)
  <2>1. m \in 0..KBD_BUF_SIZE
    BY <1>1, <1>5
  <2>2. m = KBD_BUF_SIZE \/ c[m] \in Stops
    BY <1>1, <1>5 DEF Stops
  <2>3. ASSUME NEW k \in 0..(m - 1) PROVE c[k] \notin Stops
    <3>1. k \in 0..(te - 1)
      BY <1>1, <1>5
    <3> QED BY <3>1, <1>1, <1>5 DEF Stops
  <2> QED BY <2>1, <2>2, <2>3 DEF First
<1>7. First(c, 0, NameEnd(c))
  BY ScanFirst DEF NameEnd
<1>8. NameEnd(c) = m
  BY <1>6, <1>7, FirstOnly
<1> QED BY <1>4, <1>5, <1>7, <1>8 DEF te

(* The argument it takes is the second word, if there are two or if only   *)
(* zeros follow the text.                                                  *)
LEMMA ArgIs ==
    ASSUME NEW c \in Commands, ~NameTooLong(c), Asked(c).sure
    PROVE  exe_args(c) = Asked(c).arg
<1> USE SizeAssumption
<1> DEFINE te == TextEnd(c)
           one == NameEnd(c)
           two == Min((Cuts(c) \ {one}) \cup {te})
           from == one + 1
           to == Scan(c, from)
<1>1. /\ te \in 0..KBD_BUF_SIZE
      /\ te # KBD_BUF_SIZE => c[te] \in {NUL, NL}
      /\ \A i \in 0..(te - 1) : c[i] \notin {NUL, NL}
  BY TextEndIs
<1>2. /\ one = Min(Cuts(c))
      /\ one \in 0..te /\ one <= KBD_BUF_SIZE - 1
      /\ First(c, 0, one)
  <2>1. one \in Int /\ ~(one > KBD_BUF_SIZE - 1)
    BY NameEndIs, <1>1 DEF NameTooLong
  <2> QED BY <2>1, NameEndIs
<1>3. Asked(c).arg = [i \in ArgSpace |-> IF from + i < two THEN c[from + i] ELSE NUL]
  BY <1>2 DEF Asked
<1>4. one < te \/ Padded(c)
  BY <1>2 DEF Asked
<1>5. exe_args(c) = [i \in ArgSpace |-> IF from + i < to THEN c[from + i] ELSE NUL]
  BY DEF exe_args, Word, ArgSpace
<1>6. Cuts(c) = {i \in 0..(te - 1) : c[i] = BLANK} \cup {te}
  BY DEF Cuts
<1>7. First(c, from, to)
  <2>1. from \in 0..KBD_BUF_SIZE
    BY <1>1, <1>2
  <2> QED BY <2>1, ScanFirst
<1> HIDE DEF te, one, to
<1>8. CASE one < te
  <2> DEFINE T == (Cuts(c) \ {one}) \cup {te}
  <2>1. T \subseteq Nat /\ T # {}
    BY <1>1, <1>6
  <2>2. PICK m \in T : m = Min(T) /\ \A y \in T : m <= y
    BY <2>1, MinIs
  <2>3. m \in from..te /\ (m # te => c[m] = BLANK)
    <3>1. m \in 0..te /\ (m # te => c[m] = BLANK /\ m # one)
      BY <1>1, <1>6
    <3>2. CASE m = te
      BY <3>2, <3>1, <1>8, <1>1, <1>2
    <3>3. CASE m # te
      <4>1. ~(m < one)
        <5>1. m < one => m \in 0..(one - 1)
          BY <3>1, <1>1, <1>2
        <5> QED BY <5>1, <3>1, <3>3, <1>2 DEF First, Stops
      <4> QED BY <4>1, <3>1, <3>3, <1>1, <1>2
    <3> QED BY <3>2, <3>3
  <2>4. First(c, from, m)
    <3>1. m \in from..KBD_BUF_SIZE
      BY <2>3, <1>1, <1>2
    <3>2. m = KBD_BUF_SIZE \/ c[m] \in Stops
      BY <2>3, <1>1 DEF Stops
    <3>3. ASSUME NEW k \in from..(m - 1) PROVE c[k] \notin Stops
      <4>1. k \in 0..(te - 1) /\ k # one /\ k < m
        BY <2>3, <1>1, <1>2
      <4>2. c[k] # BLANK
        <5>1. c[k] = BLANK => k \in T
          BY <4>1, <1>6
        <5> QED BY <5>1, <4>1, <2>2, <2>3, <1>1, <1>2
      <4> QED BY <4>1, <4>2, <1>1 DEF Stops
    <3> QED BY <3>1, <3>2, <3>3 DEF First
  <2>5. to = m
    <3>1. from \in Nat
      BY <1>1, <1>2
    <3> QED BY <3>1, <2>4, <1>7, FirstOnly
  <2> QED BY <2>2, <2>5, <1>3, <1>5
<1>9. CASE ~(one < te)
  <2>1. one = te /\ Padded(c)
    BY <1>9, <1>4, <1>1, <1>2
  <2>2. two = te
    <3>1. (Cuts(c) \ {one}) \cup {te} \subseteq {te}
      <4>1. ASSUME NEW i \in 0..(te - 1), c[i] = BLANK PROVE FALSE
        BY <4>1, <2>1, <1>2 DEF First, Stops
      <4> QED BY <4>1, <1>6
    <3>2. (Cuts(c) \ {one}) \cup {te} = {te}
      BY <3>1
    <3>3. Min({te}) = te
      <4>1. {te} \subseteq Nat /\ te <= te
        BY <1>1
      <4> QED BY <4>1, MinOnly
    <3> QED BY <3>2, <3>3
  <2>3. to = from
    <3>1. First(c, from, from)
      <4>1. from \in from..KBD_BUF_SIZE
        BY <1>1, <1>2
      <4>2. from = KBD_BUF_SIZE \/ c[from] \in Stops
        <5>1. from # KBD_BUF_SIZE => from \in DOMAIN c /\ from > te
          BY <2>1, <1>1, <1>2 DEF Commands
        <5> QED BY <5>1, <2>1 DEF Padded, te, Stops
      <4> QED BY <4>1, <4>2 DEF First
    <3>2. from \in Nat
      BY <1>1, <1>2
    <3> QED BY <3>1, <3>2, <1>7, FirstOnly
  <2>4. \A i \in ArgSpace : ~(from + i < two) /\ ~(from + i < to)
    BY <2>1, <2>2, <2>3, <1>1 DEF ArgSpace
  <2> HIDE DEF two
  <2>5. exe_args(c) = [i \in ArgSpace |-> NUL] /\ Asked(c).arg = [i \in ArgSpace |-> NUL]
    BY <2>4, <1>3, <1>5
  <2> QED BY <2>5
<1> QED BY <1>8, <1>9

-----------------------------------------------------------------------------
(* Arguments as getargs sees them.                                         *)

(* arg is a word of n characters, a 0 behind it and nothing else.  No      *)
(* separator is in a word.                                                 *)
Ended(arg, n) ==
    /\ arg \in [ArgSpace -> Chars]
    /\ n \in 0..(ArgSize - 1)
    /\ \A i \in ArgSpace : IF i < n THEN arg[i] \notin Stops ELSE arg[i] = NUL

(* strlen is its length.                                                   *)
LEMMA StrlenIs ==
    ASSUME NEW arg, NEW n, Ended(arg, n)
    PROVE  strlen(arg) = n
<1> USE SizeAssumption
<1>1. DOMAIN arg = 0..(ArgSize - 1)
  BY DEF Ended, ArgSpace
<1>2. Cardinality(0..(ArgSize - 1)) = ArgSize
  <2>1. ArgSize - 1 \in Int /\ ~(0 > ArgSize - 1) /\ (ArgSize - 1) - 0 + 1 = ArgSize
    OBVIOUS
  <2> QED BY <2>1, FS_Interval
<1> DEFINE T == {i \in DOMAIN arg : arg[i] = NUL} \cup {ArgSize}
<1>3. strlen(arg) = Min(T)
  BY <1>1, <1>2 DEF strlen
<1>4. T \subseteq Nat /\ n \in T /\ \A y \in T : n <= y
  BY <1>1 DEF Ended, ArgSpace, Stops
<1> HIDE DEF T
<1> QED BY <1>3, <1>4, MinOnly

(* No argument is a word of no characters ...                              *)
LEMMA NoArgEnded == Ended(NoArg, 0)
BY SizeAssumption DEF Ended, NoArg, ArgSpace, Chars

(* ... and what execute takes from a command is a word that leaves room    *)
(* for its 0.                                                              *)
LEMMA ArgEnded ==
    ASSUME NEW c \in Commands, ~NameTooLong(c)
    PROVE  \E n \in 0..(ArgSize - 1) : Ended(exe_args(c), n)
<1> USE SizeAssumption
<1> DEFINE from == NameEnd(c) + 1
           to == Scan(c, from)
           n == to - from
<1>1. from \in 1..KBD_BUF_SIZE
  <2>1. NameEnd(c) \in 0..KBD_BUF_SIZE /\ ~(NameEnd(c) > KBD_BUF_SIZE - 1)
    BY NameEndIs DEF NameTooLong, First
  <2> QED BY <2>1
<1>2. First(c, from, to)
  BY <1>1, ScanFirst
<1>3. exe_args(c) = [i \in ArgSpace |-> IF from + i < to THEN c[from + i] ELSE NUL]
  BY DEF exe_args, Word, ArgSpace
<1> HIDE DEF from, to
<1>4. n \in 0..(ArgSize - 1)
  BY <1>1, <1>2 DEF First
<1>5. ASSUME NEW i \in ArgSpace, i < n
      PROVE  from + i < to /\ c[from + i] \in Chars /\ c[from + i] \notin Stops
  <2>1. from + i \in from..(to - 1) /\ from + i \in 0..(KBD_BUF_SIZE - 1) /\ from + i < to
    BY <1>1, <1>2, <1>5 DEF First, ArgSpace
  <2> QED BY <2>1, <1>2 DEF First, Stops, Commands
<1>6. ASSUME NEW i \in ArgSpace, ~(i < n) PROVE ~(from + i < to)
  BY <1>1, <1>2, <1>6 DEF First, ArgSpace
<1>7. NUL \in Chars
  BY DEF Chars
<1>8. Ended(exe_args(c), n)
  <2> HIDE DEF n
  <2>1. exe_args(c) \in [ArgSpace -> Chars]
    BY <1>3, <1>5, <1>6, <1>7
  <2>2. ASSUME NEW i \in ArgSpace
        PROVE  IF i < n THEN exe_args(c)[i] \notin Stops ELSE exe_args(c)[i] = NUL
    BY <1>3, <1>5, <1>6
  <2> QED BY <1>4, <2>1, <2>2 DEF Ended
<1> HIDE DEF n
<1> QED BY <1>4, <1>8

-----------------------------------------------------------------------------
(* The search of the directory.                                            *)

(* strncmp finds a name of the directory equal to the file name exactly    *)
(* when it is the first word of the command: both end with zeros.          *)
LEMMA MatchIs ==
    ASSUME NEW c \in Commands, NEW e \in DOMAIN Directory
    PROVE  e \in Matches(exe_fname(c)) <=> Directory[e].filename = Asked(c).name
<1> USE SizeAssumption
<1> DEFINE one == NameEnd(c)
           f == Directory[e].filename
           g == exe_fname(c)
<1>1. First(c, 0, one) /\ one = Min(Cuts(c))
  BY NameEndIs
<1>2. /\ f \in [0..(FILENAME_LEN - 1) -> Letters \cup {NUL}]
      /\ \A j \in 0..(FILENAME_LEN - 1) :
            f[j] = NUL => \A i \in j..(FILENAME_LEN - 1) : f[i] = NUL
  BY DirectoryAssumption DEF Name
<1>3. /\ \A i \in 0..(FILENAME_LEN - 1) : Asked(c).name[i] = g[i]
      /\ Asked(c).name = [i \in 0..(FILENAME_LEN - 1) |-> Asked(c).name[i]]
  <2>1. Asked(c).name = [i \in 0..(FILENAME_LEN - 1) |-> IF i < one THEN c[i] ELSE NUL]
    BY <1>1 DEF Asked
  <2>2. g = [i \in 0..(KBD_BUF_SIZE - 1) |-> IF 0 + i < one THEN c[0 + i] ELSE NUL]
    BY DEF exe_fname, Word
  <2>3. \A i \in 0..(FILENAME_LEN - 1) : i \in 0..(KBD_BUF_SIZE - 1) /\ 0 + i = i
    OBVIOUS
  <2> HIDE DEF g, one
  <2>4. \A i \in 0..(FILENAME_LEN - 1) : Asked(c).name[i] = g[i]
    BY <2>1, <2>2, <2>3
  <2>5. ASSUME NEW h, NEW D, NEW a, h = [i \in D |-> IF i < one THEN a[i] ELSE NUL]
        PROVE  h = [i \in D |-> h[i]]
    BY <2>5
  <2> QED BY <2>1, <2>4, <2>5
<1>4. \A i \in 0..(KBD_BUF_SIZE - 1) : g[i] = NUL => \A k \in i..(KBD_BUF_SIZE - 1) : g[k] = NUL
  <2>1. g = [i \in 0..(KBD_BUF_SIZE - 1) |-> IF 0 + i < one THEN c[0 + i] ELSE NUL]
    BY DEF exe_fname, Word
  <2> HIDE DEF g, one
  <2>2. ASSUME NEW i \in 0..(KBD_BUF_SIZE - 1), g[i] = NUL PROVE i >= one
    <3>1. i < one => i \in 0..(one - 1) /\ g[i] = c[i]
      BY <2>1, <1>1 DEF First
    <3> QED BY <3>1, <2>2, <1>1 DEF First, Stops
  <2>3. ASSUME NEW i \in 0..(KBD_BUF_SIZE - 1), NEW k \in i..(KBD_BUF_SIZE - 1), i >= one
        PROVE  g[k] = NUL
    <3>1. ~(0 + k < one) /\ k \in 0..(KBD_BUF_SIZE - 1)
      BY <2>3, <1>1 DEF First
    <3> QED BY <3>1, <2>1
  <2> QED BY <2>2, <2>3
<1>5. e \in Matches(g) <=> strncmp(f, g, FILENAME_LEN)
  BY DEF Matches
<1> HIDE DEF f, g, one
<1>6. ASSUME strncmp(f, g, FILENAME_LEN) PROVE \A i \in 0..(FILENAME_LEN - 1) : f[i] = g[i]
  <2> DEFINE T == {i \in 0..(FILENAME_LEN - 1) : f[i] # g[i]}
  <2>1. SUFFICES ASSUME T # {} PROVE FALSE
    OBVIOUS
  <2>2. PICK i \in T : \A y \in T : i <= y
    <3>1. T \subseteq Nat
      OBVIOUS
    <3> QED BY <2>1, <3>1, Least
  <2>3. \A j \in 0..(i - 1) : j \in 0..(FILENAME_LEN - 1) /\ f[j] = g[j]
    BY <2>2
  <2>4. PICK j \in 0..(i - 1) : f[j] = NUL
    BY <1>6, <2>2, <2>3 DEF strncmp
  <2>5. f[i] = NUL
    BY <1>2, <2>2, <2>3, <2>4
  <2>6. g[i] = NUL
    BY <1>4, <2>2, <2>3, <2>4
  <2> QED BY <2>2, <2>5, <2>6
<1>7. ASSUME \A i \in 0..(FILENAME_LEN - 1) : f[i] = g[i] PROVE strncmp(f, g, FILENAME_LEN)
  BY <1>7 DEF strncmp
<1>8. f = Asked(c).name <=> \A i \in 0..(FILENAME_LEN - 1) : f[i] = g[i]
  <2>1. ASSUME NEW h, h = [i \in 0..(FILENAME_LEN - 1) |-> h[i]],
               \A i \in 0..(FILENAME_LEN - 1) : h[i] = g[i]
        PROVE  f = h <=> \A i \in 0..(FILENAME_LEN - 1) : f[i] = g[i]
    <3>1. f = [i \in 0..(FILENAME_LEN - 1) |-> f[i]]
      BY <1>2
    <3> QED BY <2>1, <3>1
  <2> QED BY <2>1, <1>3
<1> QED BY <1>5, <1>6, <1>7, <1>8 DEF f, g

(* execute runs the first entry of that name, and it is a program.         *)
LEMMA ParsedIs ==
    ASSUME NEW c \in Runnable
    PROVE  LET e == Parsed(c).file
           IN  /\ e \in DOMAIN Directory /\ Directory[e].exe
               /\ Directory[e].filename = Asked(c).name
               /\ \A d \in 1..(e - 1) : Directory[d].filename # Asked(c).name
<1> DEFINE T == Matches(exe_fname(c))
<1>1. c \in Commands
  BY DEF Runnable
<1>2. T \subseteq DOMAIN Directory
  BY DEF Matches
<1>3. DOMAIN Directory \subseteq Nat
     /\ \A e \in DOMAIN Directory : \A d \in 1..(e - 1) : d \in DOMAIN Directory /\ d < e
  <2>1. Cardinality(DOMAIN Directory) \in Nat
    BY DirectoryAssumption, FS_CardinalityType
  <2> QED BY <2>1, DirectoryAssumption
<1>4. PICK e \in read_dentry_by_name(exe_fname(c)) : Directory[e].exe
  BY DEF Runnable
<1>5. T # {} /\ read_dentry_by_name(exe_fname(c)) = {Min(T)} /\ e = Min(T)
  BY <1>4 DEF read_dentry_by_name
<1>6. e \in T /\ \A y \in T : e <= y
  BY <1>5, <1>2, <1>3, MinIs
<1>7. Parsed(c).file = e
  BY <1>5 DEF Parsed
<1>8. ASSUME NEW d \in 1..(e - 1), Directory[d].filename = Asked(c).name PROVE FALSE
  <2>1. d \in DOMAIN Directory /\ d < e
    BY <1>2, <1>3, <1>6
  <2>2. d \in T
    BY <2>1, <1>8, <1>1, MatchIs
  <2> QED BY <2>1, <2>2, <1>2, <1>3, <1>6
<1>9. Directory[e].filename = Asked(c).name
  BY <1>1, <1>2, <1>6, MatchIs
<1> QED BY <1>2, <1>4, <1>6, <1>7, <1>8, <1>9

(* What execute makes of every command it runs.                            *)
GoodLaunch(l) ==
    /\ l.file \in DOMAIN Directory /\ Directory[l.file].exe
    /\ Directory[l.file].filename = l.asked.name
    /\ \A d \in 1..(l.file - 1) : Directory[d].filename # l.asked.name
    /\ \E n \in 0..(ArgSize - 1) : Ended(l.arg, n)
    /\ l.asked.sure => l.arg = l.asked.arg

(* Every launch is good, and the launches of the kernel are among them.    *)
LEMMA LaunchesGood ==
    /\ \A l \in Launches : GoodLaunch(l)
    /\ ShellLaunches \subseteq Launches
<1>1. ASSUME NEW c \in Runnable PROVE GoodLaunch(Parsed(c))
  <2>1. c \in Commands /\ ~NameTooLong(c)
    BY DEF Runnable
  <2>2. Parsed(c).arg = exe_args(c) /\ Parsed(c).asked = Asked(c)
    BY DEF Parsed
  <2>3. \E n \in 0..(ArgSize - 1) : Ended(exe_args(c), n)
    BY <2>1, ArgEnded
  <2>4. Asked(c).sure => exe_args(c) = Asked(c).arg
    BY <2>1, ArgIs
  <2>5. LET e == Parsed(c).file
        IN  /\ e \in DOMAIN Directory /\ Directory[e].exe
            /\ Directory[e].filename = Asked(c).name
            /\ \A d \in 1..(e - 1) : Directory[d].filename # Asked(c).name
    BY ParsedIs
  <2> QED BY <2>2, <2>3, <2>4, <2>5 DEF GoodLaunch
<1> QED BY <1>1 DEF Launches, ShellLaunches

-----------------------------------------------------------------------------
(* The inductive invariant.                                                *)

(* Only before the boot is there no process.                               *)
Alive == cpu = "boot" <=> active_proc = -1

(* The argument in the PCB of every living process is a word ...           *)
ArgsEnded ==
    \A p \in 0..active_proc : \E n \in 0..(ArgSize - 1) : Ended(pcb[p].arg, n)

(* ... and the first of the rest of its command, except for the first      *)
(* process.                                                                *)
ArgsKept ==
    cpu = "user" =>
        \A p \in 1..active_proc : asked[p].sure => pcb[p].arg = asked[p].arg

(* Only a running program has a result of getargs.                         *)
ResultRead == ret # "none" => cpu = "user"

IInv ==
    /\ TypeOK
    /\ Alive
    /\ ArgsEnded
    /\ ArgsKept
    /\ ResultRead
    /\ RunsNamed
    /\ GetargsExact

(* There is no process yet.                                                *)
LEMMA InitIInv == Init => IInv
<1> SUFFICES ASSUME Init PROVE IInv
  OBVIOUS
<1> USE SizeAssumption
<1>1. TypeOK
  BY DEF Init, TypeOK, Procs, Garbage, ArgSpace
<1>2. Alive /\ ArgsEnded /\ ArgsKept /\ ResultRead /\ RunsNamed /\ GetargsExact
  BY DEF Init, Alive, ArgsEnded, ArgsKept, ResultRead, RunsNamed, GetargsExact
<1> QED BY <1>1, <1>2 DEF IInv

(* Starting a program in a new slot or in place of the running one: only   *)
(* this slot's file, argument and command change.                          *)
LEMMA StartKeeps ==
    ASSUME IInv, NEW p \in Procs, NEW l \in Launches, Start(p, l),
           \/ cpu = "boot" /\ p = 0
           \/ cpu = "user" /\ p \in {active_proc, active_proc + 1}
    PROVE  IInv'
<1> USE SizeAssumption
<1> DEFINE arg == IF p = 0 THEN NoArg ELSE l.arg
           r == [file |-> l.file, arg |-> arg]
<1>1. GoodLaunch(l)
  BY LaunchesGood
<1>2. PICK n \in 0..(ArgSize - 1) : Ended(arg, n)
  <2>1. CASE p = 0
    <3>1. 0 \in 0..(ArgSize - 1)
      OBVIOUS
    <3> QED BY <2>1, <3>1, NoArgEnded
  <2>2. CASE p # 0
    BY <2>2, <1>1 DEF GoodLaunch
  <2> QED BY <2>1, <2>2
<1>3. /\ DOMAIN pcb = Procs /\ DOMAIN asked = Procs
      /\ active_proc \in -1..(MaxProcs - 1) /\ p \in 0..(MaxProcs - 1)
  BY DEF IInv, TypeOK, Procs
<1>4. /\ active_proc' = p /\ cpu' = "user"
      /\ buf' = Garbage /\ nbytes' = 0 /\ ret' = "none"
      /\ pcb' = [pcb EXCEPT ![p] = r]
      /\ asked' = [asked EXCEPT ![p] = l.asked]
  BY DEF Start, SaveArg, NoResult
<1>5. r.file = l.file /\ r.arg = arg
  OBVIOUS
<1>6. r \in [file : DOMAIN Directory, arg : [ArgSpace -> Chars]]
  BY <1>1, <1>2 DEF GoodLaunch, Ended
<1> HIDE DEF r, arg
<1>7. /\ DOMAIN pcb' = Procs /\ DOMAIN asked' = Procs
      /\ pcb'[p] = r /\ asked'[p] = l.asked
      /\ \A q \in 0..(p - 1) : pcb'[q] = pcb[q] /\ asked'[q] = asked[q]
  <2>1. \A q \in 0..(p - 1) : q \in Procs /\ q # p
    BY <1>3 DEF Procs
  <2> QED BY <2>1, <1>3, <1>4
<1>8. \A q \in 0..(p - 1) : cpu = "user" /\ q \in 0..active_proc
  <2>1. cpu = "boot" /\ p = 0 => \A q \in 0..(p - 1) : FALSE
    OBVIOUS
  <2>2. ASSUME cpu = "user", p \in {active_proc, active_proc + 1}, NEW q \in 0..(p - 1)
        PROVE  q \in 0..active_proc
    BY <1>3, <2>2
  <2> QED BY <2>1, <2>2
<1>9. \A q \in 0..p : q = p \/ q \in 0..(p - 1)
  BY <1>3
<1>10. TypeOK'
  <2>1. \A q \in 0..p : pcb'[q] \in [file : DOMAIN Directory, arg : [ArgSpace -> Chars]]
    BY <1>6, <1>7, <1>8, <1>9 DEF IInv, TypeOK
  <2>2. Garbage \in [ArgSpace -> Chars \cup {"garbage"}] /\ 0 \in 0..ArgSize
    BY DEF Garbage
  <2> QED BY <1>3, <1>4, <1>7, <2>1, <2>2 DEF TypeOK
<1>11. Alive' /\ ResultRead' /\ GetargsExact'
  BY <1>3, <1>4 DEF Alive, ResultRead, GetargsExact
<1>12. ArgsEnded'
  <2>1. \A q \in 0..p : \E m \in 0..(ArgSize - 1) : Ended(pcb'[q].arg, m)
    BY <1>2, <1>5, <1>7, <1>8, <1>9 DEF IInv, ArgsEnded
  <2> QED BY <2>1, <1>4 DEF ArgsEnded
<1>13. ArgsKept'
  <2>1. ASSUME NEW q \in 1..p, asked'[q].sure PROVE pcb'[q].arg = asked'[q].arg
    <3>1. CASE q = p
      <4>1. l.arg = l.asked.arg /\ p # 0
        BY <3>1, <2>1, <1>1, <1>7 DEF GoodLaunch
      <4> QED BY <3>1, <4>1, <1>5, <1>7 DEF arg
    <3>2. CASE q # p
      <4>1. q \in 0..(p - 1) /\ q \in 1..active_proc /\ cpu = "user"
        BY <3>2, <1>3, <1>8
      <4> QED BY <4>1, <2>1, <1>7 DEF IInv, ArgsKept
    <3> QED BY <3>1, <3>2
  <2> QED BY <2>1, <1>4 DEF ArgsKept
<1>14. RunsNamed'
  <2>1. ASSUME NEW q \in 0..p
        PROVE  /\ Directory[pcb'[q].file].exe
               /\ Directory[pcb'[q].file].filename = asked'[q].name
               /\ \A e \in 1..(pcb'[q].file - 1) : Directory[e].filename # asked'[q].name
    <3>1. CASE q = p
      BY <3>1, <1>1, <1>5, <1>7 DEF GoodLaunch
    <3>2. CASE q # p
      BY <3>2, <1>7, <1>8, <1>9 DEF IInv, RunsNamed
    <3> QED BY <3>1, <3>2
  <2> QED BY <2>1, <1>4 DEF RunsNamed
<1> QED BY <1>10, <1>11, <1>12, <1>13, <1>14 DEF IInv

(* A call of getargs: the word in the PCB is the one that was asked for,   *)
(* and its length decides.                                                 *)
LEMMA GetargsKeeps ==
    ASSUME IInv, NEW k \in 0..ArgSize, getargs(k)
    PROVE  IInv'
<1> USE SizeAssumption
<1> DEFINE arg == pcb[active_proc].arg
<1>1. /\ cpu = "user" /\ active_proc \in 0..(MaxProcs - 1)
      /\ UNCHANGED <<active_proc, pcb, cpu, asked>> /\ nbytes' = k
  BY DEF IInv, TypeOK, Alive, getargs
<1>2. PICK n \in 0..(ArgSize - 1) : Ended(arg, n)
  <2>1. active_proc \in 0..active_proc
    BY <1>1
  <2> QED BY <2>1 DEF IInv, ArgsEnded
<1>3. strlen(arg) = n
  BY <1>2, StrlenIs
<1>4. IF k < n + 1 \/ n = 0
      THEN ret' = "failed" /\ buf' = Garbage
      ELSE ret' = "done" /\ buf' = [i \in ArgSpace |-> IF i < n THEN arg[i] ELSE NUL]
  BY <1>3 DEF getargs
<1> HIDE DEF arg
<1>5. [i \in ArgSpace |-> IF i < n THEN arg[i] ELSE NUL] = arg
  BY <1>2 DEF Ended
<1>6. \/ (k < n + 1 \/ n = 0) /\ ret' = "failed" /\ buf' = Garbage
      \/ ~(k < n + 1 \/ n = 0) /\ ret' = "done" /\ buf' = arg
  BY <1>4, <1>5
<1>7. (arg[0] = NUL \/ k = 0 \/ arg[k - 1] # NUL) <=> (k < n + 1 \/ n = 0)
  <2>1. 0 \in ArgSpace /\ (k # 0 => k - 1 \in ArgSpace)
    BY DEF ArgSpace
  <2>2. arg[0] = NUL <=> n = 0
    BY <2>1, <1>2 DEF Ended, Stops
  <2>3. k # 0 => (arg[k - 1] # NUL <=> k - 1 < n)
    BY <2>1, <1>2 DEF Ended, Stops
  <2> QED BY <2>2, <2>3, <1>2
<1>8. TypeOK'
  <2>1. buf' \in [ArgSpace -> Chars \cup {"garbage"}]
    <3>1. Garbage \in [ArgSpace -> Chars \cup {"garbage"}]
      BY DEF Garbage
    <3>2. arg \in [ArgSpace -> Chars \cup {"garbage"}]
      BY <1>2 DEF Ended
    <3> QED BY <3>1, <3>2, <1>6
  <2>2. ret' \in {"none", "done", "failed"}
    BY <1>6
  <2> QED BY <1>1, <2>1, <2>2 DEF IInv, TypeOK
<1>9. GetargsExact'
  <2> SUFFICES ASSUME active_proc > 0, asked[active_proc].sure
               PROVE  IF asked[active_proc].arg[0] = NUL \/ k = 0
                         \/ asked[active_proc].arg[k - 1] # NUL
                      THEN ret' = "failed"
                      ELSE /\ ret' = "done" /\ buf' = asked[active_proc].arg
                           /\ \A i \in ArgSpace : asked[active_proc].rest[i] = BLANK
                                                    => buf' # asked[active_proc].rest
    BY <1>1 DEF GetargsExact
  <2>1. active_proc \in 1..active_proc
    BY <1>1
  <2>2. asked[active_proc].arg = arg
    BY <2>1, <1>1 DEF IInv, ArgsKept, arg
  <2>3. \A i \in ArgSpace : arg[i] # BLANK
    BY <1>2 DEF Ended, Stops, NUL, BLANK
  <2> QED BY <2>2, <2>3, <1>6, <1>7
<1>10. Alive' /\ ArgsEnded' /\ ArgsKept' /\ ResultRead' /\ RunsNamed'
  BY <1>1 DEF IInv, Alive, ArgsEnded, ArgsKept, ResultRead, RunsNamed
<1> QED BY <1>8, <1>9, <1>10 DEF IInv

(* Every call preserves the invariant.                                     *)
LEMMA NextIInv == IInv /\ [Next]_vars => IInv'
<1> SUFFICES ASSUME IInv, [Next]_vars PROVE IInv'
  OBVIOUS
<1> USE SizeAssumption
<1>live. active_proc \in -1..(MaxProcs - 1) /\ (cpu # "boot" => active_proc \in 0..(MaxProcs - 1))
  BY DEF IInv, TypeOK, Alive
<1>garbage. Garbage \in [ArgSpace -> Chars \cup {"garbage"}] /\ 0 \in 0..ArgSize
  BY DEF Garbage
<1>1. CASE Boot
  <2>1. PICK l \in Launches : Start(0, l)
    BY <1>1, LaunchesGood DEF Boot
  <2>2. 0 \in Procs /\ cpu = "boot"
    BY <1>1 DEF Boot, Procs
  <2> QED BY <2>1, <2>2, StartKeeps
<1>2. ASSUME NEW l \in Launches, Execute(l) PROVE IInv'
  <2>1. active_proc + 1 \in Procs /\ cpu = "user" /\ Start(active_proc + 1, l)
    BY <1>live, <1>2 DEF Execute, Procs
  <2> QED BY <2>1, StartKeeps
<1>3. CASE ExecuteRefused
  BY <1>3, <1>garbage DEF ExecuteRefused, NoResult, IInv, TypeOK, Alive, ArgsEnded, ArgsKept,
                     ResultRead, RunsNamed, GetargsExact
<1>4. CASE ExecuteSmashes
  <2>1. /\ cpu = "user" /\ cpu' = "smashed" /\ ret' = "none"
        /\ buf' = Garbage /\ nbytes' = 0
        /\ UNCHANGED <<active_proc, pcb, asked>>
    BY <1>4 DEF ExecuteSmashes, NoResult
  <2>2. TypeOK'
    BY <2>1, <1>garbage DEF IInv, TypeOK
  <2>3. Alive' /\ ArgsEnded' /\ ArgsKept' /\ ResultRead' /\ RunsNamed' /\ GetargsExact'
    BY <2>1 DEF IInv, Alive, ArgsEnded, ArgsKept, ResultRead, RunsNamed, GetargsExact
  <2> QED BY <2>2, <2>3 DEF IInv
<1>5. CASE Halt
  <2>1. /\ cpu = "user" /\ cpu' = "user" /\ ret' = "none"
        /\ buf' = Garbage /\ nbytes' = 0
        /\ asked' = [asked EXCEPT ![active_proc] = Nothing]
        /\ active_proc > 0 /\ active_proc' = active_proc - 1 /\ pcb' = pcb
    BY <1>5 DEF Halt, NoResult
  <2>2. ASSUME NEW q \in 0..active_proc'
        PROVE  q \in 0..active_proc /\ asked'[q] = asked[q]
    <3>1. q \in 0..active_proc /\ q # active_proc /\ q \in Procs
      BY <1>live, <2>1 DEF Procs
    <3> QED BY <3>1, <2>1 DEF IInv, TypeOK
  <2>3. TypeOK'
    BY <2>1, <2>2, <1>live, <1>garbage DEF IInv, TypeOK
  <2>4. Alive' /\ ResultRead' /\ GetargsExact'
    BY <2>1, <1>live DEF Alive, ResultRead, GetargsExact
  <2>5. ArgsEnded' /\ RunsNamed'
    BY <2>1, <2>2 DEF IInv, ArgsEnded, RunsNamed
  <2>6. ArgsKept'
    <3>1. \A q \in 1..active_proc' : q \in 1..active_proc /\ q \in 0..active_proc'
      BY <2>1, <1>live
    <3> QED BY <3>1, <2>1, <2>2 DEF IInv, ArgsKept
  <2> QED BY <2>3, <2>4, <2>5, <2>6 DEF IInv
<1>6. CASE HaltRestart
  <2>1. PICK l \in Launches : Start(active_proc, l)
    BY <1>6, LaunchesGood DEF HaltRestart
  <2>2. active_proc \in Procs /\ cpu = "user"
    BY <1>live, <1>6 DEF HaltRestart, Procs
  <2> QED BY <2>1, <2>2, StartKeeps
<1>7. ASSUME NEW n \in 0..ArgSize, getargs(n) PROVE IInv'
  BY <1>7, GetargsKeeps
<1>8. CASE Smashed \/ UNCHANGED vars
  BY <1>8 DEF Smashed, vars, IInv, TypeOK, Alive, ArgsEnded, ArgsKept, ResultRead, RunsNamed,
              GetargsExact
<1> QED BY <1>1, <1>2, <1>3, <1>4, <1>5, <1>6, <1>7, <1>8 DEF Next

-----------------------------------------------------------------------------
(* The invariant holds in every reachable state.                           *)
THEOREM LaunchInvariance == Spec => []IInv
BY InitIInv, NextIInv, PTL DEF Spec

(* Every variable has its type; the argument of a living process consists  *)
(* of characters, never of bytes nobody stored.                            *)
THEOREM LaunchTypes == Spec => []TypeOK
<1>1. IInv => TypeOK
  BY DEF IInv
<1> QED BY LaunchInvariance, <1>1, PTL

(* execute runs the first executable of the directory whose name is the    *)
(* first word of the command, for every directory of zero-padded names.    *)
THEOREM RightProgram == Spec => []RunsNamed
<1>1. IInv => RunsNamed
  BY DEF IInv
<1> QED BY LaunchInvariance, <1>1, PTL

(* getargs gives a program the word execute found behind the name, the     *)
(* first of the rest of its command, whatever the programs it started did  *)
(* and whoever used its PCB before, and fails without one.                 *)
THEOREM RightArgument == Spec => []GetargsExact
<1>1. IInv => GetargsExact
  BY DEF IInv
<1> QED BY LaunchInvariance, <1>1, PTL

=============================================================================
