--------------------------- MODULE InterruptsProofs ---------------------------
(***************************************************************************)
(* The interrupt controllers, the handlers and the code they interrupt,    *)
(* for every depth of nesting and every burst of requests.                 *)
(***************************************************************************)
EXTENDS Interrupts, SequenceTheorems, TLAPS

Handlers == {"pit_handler", "kbd_intr_handler", "rtc_handler"}

(* The instructions of each piece of code at which interrupts are off.     *)
Disabled(c, p) ==
    \/ c = "entry" /\ p \in {1} \cup 3..10 \cup 12..17 \cup {22, 23}
    \/ c = "pit_handler" /\ p \in 4..8
    \/ c = "kbd_intr_handler" /\ p \in 2..4
    \/ c = "rtc_handler" /\ p \in 2..6
    \/ c = "rtc_write" /\ p \in 2..7
    \/ c = "execute" /\ p \in {2, 3}

(* The place of a handler's EOI.                                           *)
EoiAt(l) == IF l = PIT_IRQ THEN 4 ELSE IF l = KBD_IRQ THEN 3 ELSE 5

(* What has been interrupted, or has called the kernel.  The PIT's handler *)
(* is interrupted only when it is done: before its EOI by its priority,    *)
(* and then by its cli.                                                    *)
Suspended(f) == ~Disabled(f.code, f.pc) /\ (f.code = "pit_handler" => f.pc = 9)

Frames == [code : DOMAIN Code, pc : Nat \ {0}, flags : BOOLEAN, reg : 0..3]

(* The iret of a frame will enable interrupts.  A program's own frame is   *)
(* never returned from, and the boot sequence has no flags to return with  *)
(* until execute has pushed them.                                          *)
Restores(f) == f.code = "user" \/ (f.code = "entry" /\ f.pc <= 22) \/ f.flags

(* One program, over it at most one system call or the boot sequence, and  *)
(* over that nothing but handlers.                                         *)
StackShape ==
    /\ stack \in Seq(Frames)
    /\ depth >= 1
    /\ \A i \in 1..depth : Restores(stack[i]) /\ stack[i].pc <= Len(Code[stack[i].code]) + 1
    /\ stack[1].code = "user" /\ stack[1].pc = 1
    /\ \A i \in 2..depth : stack[i].code # "user"
    /\ \A i \in 3..depth : stack[i].code \in Handlers

FlagExact ==
    /\ IF_flag = ~Disabled(top.code, top.pc)
    /\ \A i \in 1..(depth - 1) : Suspended(stack[i])

(* The boot sequence has filled a gate before it opens the line.           *)
GatesFilled ==
    /\ PIT_IRQ \in present
    /\ \A i \in 1..depth : stack[i].code = "entry" =>
         /\ stack[i].pc > 8 => RTC_IRQ \in present
         /\ stack[i].pc > 19 => KBD_IRQ \in present

(* curr_exec_term is the terminal whose turn it is or the next one, and    *)
(* what pit_handler knows of it at each of its instructions.               *)
TurnExact ==
    /\ curr_exec_term \in {next_exec_term, next_exec_term + 1, (next_exec_term + 1) % 3}
    /\ top.code = "pit_handler" =>
         /\ top.pc \in {2, 7} => top.reg = curr_exec_term
         /\ top.pc \in 3..5 => curr_exec_term <= 2
         /\ top.pc \in {6, 7} => curr_exec_term = next_exec_term

IInv ==
    /\ TypeOK
    /\ StackShape
    /\ FlagExact
    /\ InServiceExact
    /\ RegisterSelected
    /\ GatesFilled
    /\ GateBeforeLine
    /\ TurnExact

-----------------------------------------------------------------------------
(* Concatenation, hidden from the provers' own encoding of sequences.      *)
Joined(s, t) == s \o t

(* Two pieces of code in a row.                                            *)
LEMMA JoinedCode ==
    ASSUME NEW S, NEW s \in Seq(S), NEW t \in Seq(S)
    PROVE  /\ Joined(s, t) \in Seq(S)
           /\ Len(Joined(s, t)) = Len(s) + Len(t)
           /\ \A i \in 1..Len(s) : Joined(s, t)[i] = s[i]
           /\ \A i \in (Len(s) + 1)..(Len(s) + Len(t)) : Joined(s, t)[i] = t[i - Len(s)]
<1>1. Len(s) \in Nat /\ Len(t) \in Nat
  BY LenProperties
<1>2. /\ Joined(s, t) \in Seq(S)
      /\ Len(Joined(s, t)) = Len(s) + Len(t)
      /\ \A i \in 1..(Len(s) + Len(t)) :
            Joined(s, t)[i] = IF i <= Len(s) THEN s[i] ELSE t[i - Len(s)]
  BY ConcatProperties, Zenon DEF Joined
<1>3. \A i \in 1..Len(s) : Joined(s, t)[i] = s[i]
  BY <1>1, <1>2
<1>4. \A i \in (Len(s) + 1)..(Len(s) + Len(t)) : Joined(s, t)[i] = t[i - Len(s)]
  BY <1>1, <1>2
<1> QED  BY <1>2, <1>3, <1>4

(* The boot sequence, instruction by instruction.                          *)
LEMMA EntryCode ==
    /\ Len(entry) = 22
    /\ entry[1] = sti
    /\ \A i \in 2..10 : entry[i] = rtc_init[i - 1]
    /\ \A i \in 11..17 : entry[i] = rtc_write[i - 10]
    /\ entry[18] = <<"enable_irq", PIT_IRQ>> /\ entry[19] = <<"insert_idt", KBD_IRQ>>
    /\ entry[20] = <<"enable_irq", KBD_IRQ>> /\ entry[21] = cli
    /\ entry[22] = <<"pushf", IF_MASK>>
<1> DEFINE I == {rtc_init[i] : i \in 1..9} \cup {rtc_write[i] : i \in 1..7}
                \cup {sti, cli, init_pit[1], kbd_init[1], kbd_init[2], execute[2]}
           e0 == <<sti>>
           e1 == Joined(e0, rtc_init)
           e2 == Joined(e1, rtc_write)
           e3 == Joined(e2, init_pit)
           e4 == Joined(e3, kbd_init)
<1>1. rtc_init \in Seq(I) /\ Len(rtc_init) = 9
  BY DEF rtc_init
<1>2. rtc_write \in Seq(I) /\ Len(rtc_write) = 7
  BY DEF rtc_write
<1>3. init_pit \in Seq(I) /\ Len(init_pit) = 1 /\ kbd_init \in Seq(I) /\ Len(kbd_init) = 2
  BY DEF init_pit, kbd_init
<1>4. e0 \in Seq(I) /\ Len(e0) = 1 /\ e0[1] = sti /\ execute \in Seq(I) /\ Len(execute) = 2
  BY DEF execute
<1> HIDE DEF I, e0
<1>5. /\ e1 \in Seq(I) /\ Len(e1) = 10
      /\ e1[1] = sti
      /\ \A i \in 2..10 : e1[i] = rtc_init[i - 1]
  <2>1. /\ e1 \in Seq(I)
        /\ Len(e1) = Len(e0) + Len(rtc_init)
        /\ \A i \in 1..Len(e0) : e1[i] = e0[i]
        /\ \A i \in (Len(e0) + 1)..(Len(e0) + Len(rtc_init)) : e1[i] = rtc_init[i - Len(e0)]
    <3>1. e0 \in Seq(I) /\ rtc_init \in Seq(I)
      BY <1>1, <1>4
    <3> QED  BY <3>1, JoinedCode, Zenon
  <2> HIDE DEF e1
  <2> QED  BY <1>1, <1>4, <2>1
<1> HIDE DEF e1
<1>6. /\ e2 \in Seq(I) /\ Len(e2) = 17
      /\ \A i \in 1..10 : e2[i] = e1[i]
      /\ \A i \in 11..17 : e2[i] = rtc_write[i - 10]
  <2>1. /\ e2 \in Seq(I)
        /\ Len(e2) = Len(e1) + Len(rtc_write)
        /\ \A i \in 1..Len(e1) : e2[i] = e1[i]
        /\ \A i \in (Len(e1) + 1)..(Len(e1) + Len(rtc_write)) : e2[i] = rtc_write[i - Len(e1)]
    <3>1. e1 \in Seq(I) /\ rtc_write \in Seq(I)
      BY <1>2, <1>5
    <3> QED  BY <3>1, JoinedCode, Zenon
  <2> HIDE DEF e2
  <2> QED  BY <1>2, <1>5, <2>1
<1> HIDE DEF e2
<1>7. /\ e3 \in Seq(I) /\ Len(e3) = 18
      /\ \A i \in 1..17 : e3[i] = e2[i]
      /\ e3[18] = init_pit[1]
  <2>1. /\ e3 \in Seq(I)
        /\ Len(e3) = Len(e2) + Len(init_pit)
        /\ \A i \in 1..Len(e2) : e3[i] = e2[i]
        /\ \A i \in (Len(e2) + 1)..(Len(e2) + Len(init_pit)) : e3[i] = init_pit[i - Len(e2)]
    <3>1. e2 \in Seq(I) /\ init_pit \in Seq(I)
      BY <1>3, <1>6
    <3> QED  BY <3>1, JoinedCode, Zenon
  <2> HIDE DEF e3
  <2> QED  BY <1>3, <1>6, <2>1
<1> HIDE DEF e3
<1>8. /\ e4 \in Seq(I) /\ Len(e4) = 20
      /\ \A i \in 1..18 : e4[i] = e3[i]
      /\ e4[19] = kbd_init[1] /\ e4[20] = kbd_init[2]
  <2>1. /\ e4 \in Seq(I)
        /\ Len(e4) = Len(e3) + Len(kbd_init)
        /\ \A i \in 1..Len(e3) : e4[i] = e3[i]
        /\ \A i \in (Len(e3) + 1)..(Len(e3) + Len(kbd_init)) : e4[i] = kbd_init[i - Len(e3)]
    <3>1. e3 \in Seq(I) /\ kbd_init \in Seq(I)
      BY <1>3, <1>7
    <3> QED  BY <3>1, JoinedCode, Zenon
  <2> HIDE DEF e4
  <2> QED  BY <1>3, <1>7, <2>1
<1>9. entry = Joined(e4, execute)
  BY Zenon DEF entry, e0, e1, e2, e3, e4, Joined
<1> HIDE DEF e4
<1>10. /\ Len(entry) = 22
       /\ \A i \in 1..20 : entry[i] = e4[i]
       /\ entry[21] = execute[1] /\ entry[22] = execute[2]
  <2>1. /\ entry \in Seq(I)
        /\ Len(entry) = Len(e4) + Len(execute)
        /\ \A i \in 1..Len(e4) : entry[i] = e4[i]
        /\ \A i \in (Len(e4) + 1)..(Len(e4) + Len(execute)) : entry[i] = execute[i - Len(e4)]
    <3>1. e4 \in Seq(I) /\ execute \in Seq(I)
      BY <1>4, <1>8
    <3> QED  BY <3>1, <1>9, JoinedCode, Zenon
  <2> QED  BY <1>4, <1>8, <2>1
<1>11. /\ entry[1] = sti
       /\ \A i \in 2..10 : entry[i] = rtc_init[i - 1]
       /\ \A i \in 11..17 : entry[i] = rtc_write[i - 10]
       /\ entry[18] = init_pit[1] /\ entry[19] = kbd_init[1] /\ entry[20] = kbd_init[2]
  <2>1. ASSUME NEW i \in 1..17 PROVE entry[i] = e2[i]
    <3>1. i \in 1..18 /\ i \in 1..20
      OBVIOUS
    <3>2. entry[i] = e4[i]
      BY <3>1, <1>10, Zenon
    <3>3. e4[i] = e3[i]
      BY <3>1, <1>8, Zenon
    <3>4. e3[i] = e2[i]
      BY <1>7, Zenon
    <3> QED BY <3>2, <3>3, <3>4, Zenon
  <2>2. \A i \in 1..10 : entry[i] = e1[i]
    BY <1>6, <2>1
  <2>3. \A i \in 11..17 : entry[i] = rtc_write[i - 10]
    BY <1>6, <2>1
  <2>4. \A i \in 2..10 : entry[i] = rtc_init[i - 1]
    BY <1>5, <2>2
  <2>5. entry[1] = sti
    BY <1>5, <2>2
  <2>6. entry[18] = init_pit[1] /\ entry[19] = kbd_init[1] /\ entry[20] = kbd_init[2]
    BY <1>7, <1>8, <1>10
  <2> QED  BY <2>3, <2>4, <2>5, <2>6
<1> QED  BY <1>10, <1>11 DEF init_pit, kbd_init, execute

(* The pieces of code.                                                     *)
LEMMA CodeNames ==
    DOMAIN Code = {"entry", "pit_handler", "kbd_intr_handler", "rtc_handler",
                   "rtc_read", "rtc_write", "execute", "user"}
  BY DEF Code

(* Their text.                                                             *)
LEMMA CodeText ==
    /\ Code["entry"] = entry /\ Code["pit_handler"] = pit_handler
    /\ Code["kbd_intr_handler"] = kbd_intr_handler /\ Code["rtc_handler"] = rtc_handler
    /\ Code["rtc_read"] = rtc_read /\ Code["rtc_write"] = rtc_write
    /\ Code["execute"] = execute /\ Code["user"] = << <<"user", 0>> >>
  BY DEF Code

(* The places of each instruction k with operand a.                        *)
Listed(c, p, k, a) ==
    /\ c = "entry" =>
         \/ p \in {1, 10, 17} /\ k = "sti" /\ a = 0
         \/ p \in {2, 11, 21} /\ k = "cli" /\ a = 0
         \/ p = 3 /\ k = "signal" /\ a = 0
         \/ p \in {4, 6} /\ k = "select" /\ a = "B"
         \/ p = 5 /\ k = "in" /\ a = "B"
         \/ p = 7 /\ k = "out" /\ a = "B"
         \/ p = 8 /\ k = "insert_idt" /\ a = RTC_IRQ
         \/ p = 9 /\ k = "enable_irq" /\ a = RTC_IRQ
         \/ p \in {12, 14} /\ k = "select" /\ a = "A"
         \/ p = 13 /\ k = "in" /\ a = "A"
         \/ p = 15 /\ k = "out" /\ a = "A"
         \/ p = 16 /\ k = "eoi" /\ a = RTC_IRQ
         \/ p = 18 /\ k = "enable_irq" /\ a = PIT_IRQ
         \/ p = 19 /\ k = "insert_idt" /\ a = KBD_IRQ
         \/ p = 20 /\ k = "enable_irq" /\ a = KBD_IRQ
         \/ p = 22 /\ k = "pushf" /\ a = IF_MASK
    /\ c = "pit_handler" =>
         \/ p \in {1, 6} /\ k = "load" /\ a = 0
         \/ p = 2 /\ k = "mod3" /\ a = 0
         \/ p = 3 /\ k = "cli" /\ a = 0
         \/ p = 4 /\ k = "eoi" /\ a = PIT_IRQ
         \/ p = 5 /\ k = "next" /\ a = 0
         \/ p = 7 /\ k = "inc" /\ a = 0
         \/ p = 8 /\ k = "sti" /\ a = 0
    /\ c = "kbd_intr_handler" =>
         \/ p = 1 /\ k = "cli" /\ a = 0
         \/ p = 2 /\ k = "inb" /\ a = 0
         \/ p = 3 /\ k = "eoi" /\ a = KBD_IRQ
         \/ p = 4 /\ k = "sti" /\ a = 0
    /\ c = "rtc_handler" =>
         \/ p = 1 /\ k = "cli" /\ a = 0
         \/ p = 2 /\ k = "signal" /\ a = 1
         \/ p = 3 /\ k = "select" /\ a = "C"
         \/ p = 4 /\ k = "in" /\ a = "C"
         \/ p = 5 /\ k = "eoi" /\ a = RTC_IRQ
         \/ p = 6 /\ k = "sti" /\ a = 0
    /\ c = "rtc_read" =>
         \/ p = 1 /\ k = "signal" /\ a = 0
         \/ p = 2 /\ k = "spin" /\ a = 0
    /\ c = "rtc_write" =>
         \/ p = 1 /\ k = "cli" /\ a = 0
         \/ p \in {2, 4} /\ k = "select" /\ a = "A"
         \/ p = 3 /\ k = "in" /\ a = "A"
         \/ p = 5 /\ k = "out" /\ a = "A"
         \/ p = 6 /\ k = "eoi" /\ a = RTC_IRQ
         \/ p = 7 /\ k = "sti" /\ a = 0
    /\ c = "execute" =>
         \/ p = 1 /\ k = "cli" /\ a = 0
         \/ p = 2 /\ k = "pushf" /\ a = IF_MASK
    /\ c = "user" =>
         \/ p = 1 /\ k = "user" /\ a = 0

(* The list is complete.                                                   *)
LEMMA Listing ==
    ASSUME NEW c \in DOMAIN Code, NEW p \in 1..Len(Code[c])
    PROVE  Listed(c, p, Code[c][p][1], Code[c][p][2])
<1>1. CASE c = "entry"
  <2>1. Code[c] = entry /\ Len(entry) = 22
    BY <1>1, CodeText, EntryCode
  <2>2. CASE p \in 2..10
    <3>1. /\ rtc_init[1][1] = "cli" /\ rtc_init[1][2] = 0
          /\ rtc_init[2][1] = "signal" /\ rtc_init[2][2] = 0
          /\ rtc_init[3][1] = "select" /\ rtc_init[3][2] = "B"
          /\ rtc_init[4][1] = "in" /\ rtc_init[4][2] = "B"
          /\ rtc_init[5][1] = "select" /\ rtc_init[5][2] = "B"
          /\ rtc_init[6][1] = "out" /\ rtc_init[6][2] = "B"
          /\ rtc_init[7][1] = "insert_idt" /\ rtc_init[7][2] = RTC_IRQ
          /\ rtc_init[8][1] = "enable_irq" /\ rtc_init[8][2] = RTC_IRQ
          /\ rtc_init[9][1] = "sti" /\ rtc_init[9][2] = 0
      BY DEF rtc_init, cli, sti
    <3>2. p = 2 \/ p = 3 \/ p = 4 \/ p = 5 \/ p = 6 \/ p = 7 \/ p = 8 \/ p = 9 \/ p = 10
      BY <2>2
    <3>3. entry[p] = rtc_init[p - 1]
      BY <2>2, EntryCode
    <3> QED  BY <1>1, <2>1, <3>1, <3>2, <3>3 DEF Listed
  <2>3. CASE p \in 11..17
    <3>1. /\ rtc_write[1][1] = "cli" /\ rtc_write[1][2] = 0
          /\ rtc_write[2][1] = "select" /\ rtc_write[2][2] = "A"
          /\ rtc_write[3][1] = "in" /\ rtc_write[3][2] = "A"
          /\ rtc_write[4][1] = "select" /\ rtc_write[4][2] = "A"
          /\ rtc_write[5][1] = "out" /\ rtc_write[5][2] = "A"
          /\ rtc_write[6][1] = "eoi" /\ rtc_write[6][2] = RTC_IRQ
          /\ rtc_write[7][1] = "sti" /\ rtc_write[7][2] = 0
      BY DEF rtc_write, cli, sti
    <3>2. p = 11 \/ p = 12 \/ p = 13 \/ p = 14 \/ p = 15 \/ p = 16 \/ p = 17
      BY <2>3
    <3>3. entry[p] = rtc_write[p - 10]
      BY <2>3, EntryCode
    <3> QED  BY <1>1, <2>1, <3>1, <3>2, <3>3 DEF Listed
  <2>4. CASE p \in {1, 18, 19, 20, 21, 22}
    BY <1>1, <2>1, <2>4, EntryCode DEF Listed, cli, sti
  <2> QED  BY <2>1, <2>2, <2>3, <2>4
<1>2. CASE c = "pit_handler"
  <2>1. Code[c] = pit_handler
    BY <1>2, CodeText
  <2>2. /\ Len(pit_handler) = 8
        /\ pit_handler[1][1] = "load" /\ pit_handler[1][2] = 0
        /\ pit_handler[2][1] = "mod3" /\ pit_handler[2][2] = 0
        /\ pit_handler[3][1] = "cli" /\ pit_handler[3][2] = 0
        /\ pit_handler[4][1] = "eoi" /\ pit_handler[4][2] = PIT_IRQ
        /\ pit_handler[5][1] = "next" /\ pit_handler[5][2] = 0
        /\ pit_handler[6][1] = "load" /\ pit_handler[6][2] = 0
        /\ pit_handler[7][1] = "inc" /\ pit_handler[7][2] = 0
        /\ pit_handler[8][1] = "sti" /\ pit_handler[8][2] = 0
    BY DEF pit_handler, cli, sti
  <2>3. p = 1 \/ p = 2 \/ p = 3 \/ p = 4 \/ p = 5 \/ p = 6 \/ p = 7 \/ p = 8
    BY <2>1, <2>2
  <2> QED  BY <1>2, <2>1, <2>2, <2>3 DEF Listed
<1>3. CASE c = "kbd_intr_handler"
  <2>1. Code[c] = kbd_intr_handler
    BY <1>3, CodeText
  <2>2. /\ Len(kbd_intr_handler) = 4
        /\ kbd_intr_handler[1][1] = "cli" /\ kbd_intr_handler[1][2] = 0
        /\ kbd_intr_handler[2][1] = "inb" /\ kbd_intr_handler[2][2] = 0
        /\ kbd_intr_handler[3][1] = "eoi" /\ kbd_intr_handler[3][2] = KBD_IRQ
        /\ kbd_intr_handler[4][1] = "sti" /\ kbd_intr_handler[4][2] = 0
    BY DEF kbd_intr_handler, cli, sti
  <2>3. p = 1 \/ p = 2 \/ p = 3 \/ p = 4
    BY <2>1, <2>2
  <2> QED  BY <1>3, <2>1, <2>2, <2>3 DEF Listed
<1>4. CASE c = "rtc_handler"
  <2>1. Code[c] = rtc_handler
    BY <1>4, CodeText
  <2>2. /\ Len(rtc_handler) = 6
        /\ rtc_handler[1][1] = "cli" /\ rtc_handler[1][2] = 0
        /\ rtc_handler[2][1] = "signal" /\ rtc_handler[2][2] = 1
        /\ rtc_handler[3][1] = "select" /\ rtc_handler[3][2] = "C"
        /\ rtc_handler[4][1] = "in" /\ rtc_handler[4][2] = "C"
        /\ rtc_handler[5][1] = "eoi" /\ rtc_handler[5][2] = RTC_IRQ
        /\ rtc_handler[6][1] = "sti" /\ rtc_handler[6][2] = 0
    BY DEF rtc_handler, cli, sti
  <2>3. p = 1 \/ p = 2 \/ p = 3 \/ p = 4 \/ p = 5 \/ p = 6
    BY <2>1, <2>2
  <2> QED  BY <1>4, <2>1, <2>2, <2>3 DEF Listed
<1>5. CASE c = "rtc_read"
  <2>1. Code[c] = rtc_read
    BY <1>5, CodeText
  <2>2. /\ Len(rtc_read) = 2
        /\ rtc_read[1][1] = "signal" /\ rtc_read[1][2] = 0
        /\ rtc_read[2][1] = "spin" /\ rtc_read[2][2] = 0
    BY DEF rtc_read, cli, sti
  <2>3. p = 1 \/ p = 2
    BY <2>1, <2>2
  <2> QED  BY <1>5, <2>1, <2>2, <2>3 DEF Listed
<1>6. CASE c = "rtc_write"
  <2>1. Code[c] = rtc_write
    BY <1>6, CodeText
  <2>2. /\ Len(rtc_write) = 7
        /\ rtc_write[1][1] = "cli" /\ rtc_write[1][2] = 0
        /\ rtc_write[2][1] = "select" /\ rtc_write[2][2] = "A"
        /\ rtc_write[3][1] = "in" /\ rtc_write[3][2] = "A"
        /\ rtc_write[4][1] = "select" /\ rtc_write[4][2] = "A"
        /\ rtc_write[5][1] = "out" /\ rtc_write[5][2] = "A"
        /\ rtc_write[6][1] = "eoi" /\ rtc_write[6][2] = RTC_IRQ
        /\ rtc_write[7][1] = "sti" /\ rtc_write[7][2] = 0
    BY DEF rtc_write, cli, sti
  <2>3. p = 1 \/ p = 2 \/ p = 3 \/ p = 4 \/ p = 5 \/ p = 6 \/ p = 7
    BY <2>1, <2>2
  <2> QED  BY <1>6, <2>1, <2>2, <2>3 DEF Listed
<1>7. CASE c = "execute"
  <2>1. Code[c] = execute
    BY <1>7, CodeText
  <2>2. /\ Len(execute) = 2
        /\ execute[1][1] = "cli" /\ execute[1][2] = 0
        /\ execute[2][1] = "pushf" /\ execute[2][2] = IF_MASK
    BY DEF execute, cli
  <2>3. p = 1 \/ p = 2
    BY <2>1, <2>2
  <2> QED  BY <1>7, <2>1, <2>2, <2>3 DEF Listed
<1>8. CASE c = "user"
  BY <1>8, CodeText DEF Listed
<1> QED  BY <1>1, <1>2, <1>3, <1>4, <1>5, <1>6, <1>7, <1>8, CodeNames

(* cli and sti, and nothing else, change whether interrupts are disabled.  *)
LEMMA FlagFlow ==
    ASSUME NEW c \in DOMAIN Code, NEW p \in Nat, NEW k, NEW a, Listed(c, p, k, a)
    PROVE  /\ k = "cli" => Disabled(c, p + 1)
           /\ k = "sti" => ~Disabled(c, p + 1)
           /\ k \notin {"cli", "sti"} => (Disabled(c, p + 1) <=> Disabled(c, p))
  BY CodeNames DEF Listed, Disabled

(* How long the pieces of code are.                                        *)
LEMMA Lengths ==
    /\ Len(Code["entry"]) = 22 /\ Len(Code["pit_handler"]) = 8
    /\ Len(Code["kbd_intr_handler"]) = 4 /\ Len(Code["rtc_handler"]) = 6
    /\ Len(Code["rtc_read"]) = 2 /\ Len(Code["rtc_write"]) = 7
    /\ Len(Code["execute"]) = 2 /\ Len(Code["user"]) = 1
    /\ \A c \in DOMAIN Code : Len(Code[c]) \in 1..22
<1>1. /\ Len(entry) = 22 /\ Len(pit_handler) = 8 /\ Len(kbd_intr_handler) = 4
      /\ Len(rtc_handler) = 6 /\ Len(rtc_read) = 2 /\ Len(rtc_write) = 7
      /\ Len(execute) = 2 /\ Len(<< <<"user", 0>> >>) = 1
  BY EntryCode DEF pit_handler, kbd_intr_handler, rtc_handler, rtc_read, rtc_write, execute
<1> QED  BY <1>1, CodeText, CodeNames

(* An access to the RTC's data port directly follows the select of its     *)
(* register.                                                               *)
LEMMA SelectFlow ==
    ASSUME NEW c \in DOMAIN Code, NEW p \in Nat, NEW k, NEW a, Listed(c, p, k, a),
           NEW m, NEW b, Listed(c, p + 1, m, b), m \in {"in", "out"}
    PROVE  k = "select" /\ a = b
  BY CodeNames DEF Listed

-----------------------------------------------------------------------------
OpName == Code[top.code][top.pc][1]

TopKnown ==
    /\ depth \in Nat \ {0}
    /\ top \in Frames /\ top = stack[depth]
    /\ top.code \in DOMAIN Code /\ top.pc \in Nat \ {0}
    /\ depth = 1 <=> top.code = "user"
    /\ ~AtEnd => Listed(top.code, top.pc, OpName, Operand)

(* The frame that runs, and its instruction.                               *)
LEMMA TopFrame == StackShape => TopKnown
<1> SUFFICES ASSUME StackShape PROVE TopKnown
  OBVIOUS
<1>1. depth \in Nat \ {0}
  BY LenProperties DEF StackShape, depth
<1>2. top \in Frames
  BY <1>1, ElementOfSeq DEF StackShape, depth, top
<1>3. top.code \in DOMAIN Code /\ top.pc \in Nat \ {0}
  BY <1>2 DEF Frames
<1>4. ~AtEnd => top.pc \in 1..Len(Code[top.code])
  BY <1>3, Lengths DEF AtEnd
<1>5. depth = 1 <=> top.code = "user"
  BY <1>1 DEF StackShape, top
<1> QED  BY <1>1, <1>2, <1>3, <1>4, <1>5, Listing DEF TopKnown, OpName, Operand, top

(* The same after a step.                                                  *)
LEMMA TopFrameNext == StackShape' => TopKnown'
  BY TopFrame, PTL

(* The running frame goes on to its next instruction.                      *)
Stepped ==
    /\ stack' \in Seq(Frames)
    /\ Len(stack') = depth
    /\ \A i \in 1..(depth - 1) : stack'[i] = stack[i]
    /\ stack'[depth].code = top.code
    /\ stack'[depth].pc = top.pc + 1
    /\ Restores(stack'[depth])

(* A frame with another pc, register and flags is a frame.                 *)
LEMMA StepFrame ==
    ASSUME StackShape, NEW r \in 0..3, NEW fl \in BOOLEAN,
           Restores([code |-> top.code, pc |-> top.pc + 1, flags |-> fl, reg |-> r]),
           stack' = [stack EXCEPT ![depth] = [code |-> top.code, pc |-> top.pc + 1,
                                              flags |-> fl, reg |-> r]]
    PROVE  Stepped /\ stack'[depth].reg = r
<1> DEFINE u == [code |-> top.code, pc |-> top.pc + 1, flags |-> fl, reg |-> r]
<1>0. depth \in Nat /\ depth = Len(stack) /\ depth \in 1..Len(stack) /\ stack \in Seq(Frames)
  BY TopFrame DEF TopKnown, StackShape, depth
<1>1. u \in Frames
  <2>1. top \in Frames
    BY TopFrame DEF TopKnown
  <2> QED  BY <2>1 DEF Frames
<1>2. stack' = [stack EXCEPT ![depth] = u]
  OBVIOUS
<1>3. u.code = top.code /\ u.pc = top.pc + 1 /\ u.reg = r /\ Restores(u)
  OBVIOUS
<1> HIDE DEF u
<1>4. /\ stack' \in Seq(Frames) /\ Len(stack') = Len(stack)
      /\ \A i \in 1..Len(stack) : stack'[i] = IF i = depth THEN u ELSE stack[i]
  BY <1>0, <1>1, <1>2, ExceptSeq
<1>5. stack'[depth] = u /\ \A i \in 1..(depth - 1) : stack'[i] = stack[i]
  BY <1>0, <1>4
<1> QED  BY <1>3, <1>4, <1>5 DEF Stepped, depth

(* Every instruction but the pushf of the boot sequence, which has no      *)
(* flags to return with before it, may leave the flags of its frame alone. *)
LEMMA FlagsLeft ==
    ASSUME StackShape, ~AtEnd, OpName # "pushf" \/ top.code = "execute", NEW r
    PROVE  Restores([code |-> top.code, pc |-> top.pc + 1, flags |-> top.flags, reg |-> r])
<1>1. TopKnown /\ Restores(top)
  BY TopFrame DEF TopKnown, StackShape
<1>2. ~(top.code = "entry" /\ top.pc = 22)
  BY <1>1 DEF TopKnown, Listed
<1> QED  BY <1>1, <1>2 DEF TopKnown, Restores

(* Every instruction but load keeps the register.                          *)
LEMMA AdvanceSteps ==
    ASSUME StackShape, ~AtEnd, OpName # "pushf" \/ top.code = "execute", Advance
    PROVE  Stepped /\ stack'[depth].reg = top.reg
<1>1. top \in Frames
  BY TopFrame DEF TopKnown
<1>2. [top EXCEPT !.pc = @ + 1] = [code |-> top.code, pc |-> top.pc + 1,
                                   flags |-> top.flags, reg |-> top.reg]
  BY <1>1 DEF Frames
<1>3. stack' = [stack EXCEPT ![depth] = [top EXCEPT !.pc = @ + 1]]
  BY DEF Advance, top
<1>4. top.reg \in 0..3 /\ top.flags \in BOOLEAN
  BY <1>1 DEF Frames
<1>5. Restores([code |-> top.code, pc |-> top.pc + 1, flags |-> top.flags, reg |-> top.reg])
  BY FlagsLeft
<1> QED  BY <1>2, <1>3, <1>4, <1>5, StepFrame

(* A frame whose pc and one other field change.                            *)
LEMMA FrameFields ==
    ASSUME NEW f \in Frames, NEW x
    PROVE  /\ [f EXCEPT !.pc = @ + 1, !.reg = x] =
                [code |-> f.code, pc |-> f.pc + 1, flags |-> f.flags, reg |-> x]
           /\ [f EXCEPT !.pc = @ + 1, !.flags = x] =
                [code |-> f.code, pc |-> f.pc + 1, flags |-> x, reg |-> f.reg]
<1> DEFINE u == [f EXCEPT !.pc = @ + 1]
<1>1. u = [code |-> f.code, pc |-> f.pc + 1, flags |-> f.flags, reg |-> f.reg]
  BY DEF Frames
<1>2. /\ [f EXCEPT !.pc = @ + 1, !.reg = x] = [u EXCEPT !.reg = x]
      /\ [f EXCEPT !.pc = @ + 1, !.flags = x] = [u EXCEPT !.flags = x]
  BY DEF Frames
<1> HIDE DEF u
<1>3. [u EXCEPT !.reg = x] =
        [code |-> f.code, pc |-> f.pc + 1, flags |-> f.flags, reg |-> x]
  BY <1>1
<1>4. [u EXCEPT !.flags = x] =
        [code |-> f.code, pc |-> f.pc + 1, flags |-> x, reg |-> f.reg]
  BY <1>1
<1> QED  BY <1>2, <1>3, <1>4

(* load.                                                                   *)
LEMMA LoadSteps ==
    ASSUME StackShape, ~AtEnd, OpName # "pushf", curr_exec_term \in 0..3,
           stack' = [stack EXCEPT ![depth].pc = @ + 1, ![depth].reg = curr_exec_term]
    PROVE  Stepped /\ stack'[depth].reg = curr_exec_term
<1>1. top \in Frames /\ depth \in 1..Len(stack) /\ stack \in Seq(Frames)
  BY TopFrame DEF TopKnown, StackShape, depth
<1>2. [top EXCEPT !.pc = @ + 1, !.reg = curr_exec_term] =
        [code |-> top.code, pc |-> top.pc + 1, flags |-> top.flags, reg |-> curr_exec_term]
  BY <1>1, FrameFields
<1>3. stack' = [stack EXCEPT ![depth] = [top EXCEPT !.pc = @ + 1, !.reg = curr_exec_term]]
  BY <1>1 DEF top
<1>4. top.flags \in BOOLEAN
  BY <1>1 DEF Frames
<1>5. Restores([code |-> top.code, pc |-> top.pc + 1, flags |-> top.flags,
                reg |-> curr_exec_term])
  BY FlagsLeft
<1> QED  BY <1>2, <1>3, <1>4, <1>5, StepFrame

(* pushf: IF is or'ed into what is pushed.                                 *)
LEMMA PushFlagsSteps ==
    ASSUME StackShape, Operand = IF_MASK,
           stack' = [stack EXCEPT ![depth].pc = @ + 1,
                                  ![depth].flags = IF_flag \/ Operand = IF_MASK]
    PROVE  Stepped
<1>1. top \in Frames /\ depth \in 1..Len(stack) /\ stack \in Seq(Frames)
  BY TopFrame DEF TopKnown, StackShape, depth
<1>2. stack' = [stack EXCEPT ![depth].pc = @ + 1, ![depth].flags = TRUE]
  <2>1. (IF_flag \/ Operand = IF_MASK) = TRUE
    OBVIOUS
  <2> QED  BY <2>1
<1>3. [top EXCEPT !.pc = @ + 1, !.flags = TRUE] =
        [code |-> top.code, pc |-> top.pc + 1, flags |-> TRUE, reg |-> top.reg]
  BY <1>1, FrameFields
<1>4. stack' = [stack EXCEPT ![depth] = [top EXCEPT !.pc = @ + 1, !.flags = TRUE]]
  BY <1>1, <1>2 DEF top
<1>5. top.reg \in 0..3 /\ TRUE \in BOOLEAN
  BY <1>1 DEF Frames
<1>6. Restores([code |-> top.code, pc |-> top.pc + 1, flags |-> TRUE, reg |-> top.reg])
  BY DEF Restores
<1> QED  BY <1>3, <1>4, <1>5, <1>6, StepFrame

-----------------------------------------------------------------------------
(* What a step of the running frame does to each part of the invariant.    *)

(* The stack keeps its shape.                                              *)
LEMMA SteppedShape ==
    ASSUME StackShape, FlagExact, ~AtEnd, OpName # "user", Stepped
    PROVE  /\ StackShape'
           /\ depth' = depth
           /\ top'.code = top.code /\ top'.pc = top.pc + 1
           /\ \A i \in 1..(depth' - 1) : Suspended(stack[i])'
<1>1. TopKnown
  BY TopFrame
<1>2. top.code # "user" /\ depth # 1
  BY <1>1 DEF TopKnown, Listed
<1>3. depth' = depth /\ depth \in Nat /\ depth >= 2
  BY <1>1, <1>2 DEF TopKnown, Stepped, depth
<1>4. top'.code = top.code /\ top'.pc = top.pc + 1 /\ Restores(stack'[depth])
  BY <1>3 DEF Stepped, top
<1>5. \A i \in 1..depth : i = depth \/ i \in 1..(depth - 1)
  BY <1>3
<1>6. top.pc + 1 <= Len(Code[top.code]) + 1
  BY <1>1, Lengths DEF TopKnown, AtEnd, StackShape
<1>7. \A i \in 1..depth : stack'[i].code = stack[i].code
  BY <1>1, <1>3, <1>5 DEF Stepped, TopKnown
<1>8. \A i \in 1..depth : Restores(stack'[i]) /\ stack'[i].pc <= Len(Code[stack'[i].code]) + 1
  BY <1>3, <1>4, <1>5, <1>6 DEF Stepped, StackShape
<1>9. StackShape'
  <2>1. stack'[1] = stack[1]
    BY <1>3 DEF Stepped
  <2>2. \A i \in 1..depth : Restores(stack[i])' /\ stack'[i].pc <= Len(Code[stack'[i].code]) + 1
    BY <1>8 DEF Restores
  <2> QED  BY <1>3, <1>7, <2>1, <2>2 DEF Stepped, StackShape
<1>10. \A i \in 1..(depth' - 1) : Suspended(stack[i])'
  BY <1>3 DEF Stepped, FlagExact, Suspended, Disabled
<1> QED  BY <1>3, <1>4, <1>9, <1>10

(* The flag and the place in the code agree, unless it is cli or sti.      *)
LEMMA SteppedFlag ==
    ASSUME StackShape, FlagExact, ~AtEnd, OpName \notin {"user", "cli", "sti"}, Stepped,
           UNCHANGED IF_flag
    PROVE  FlagExact'
<1>1. Disabled(top.code, top.pc + 1) <=> Disabled(top.code, top.pc)
  BY TopFrame, FlagFlow DEF TopKnown
<1> QED  BY <1>1, SteppedShape DEF FlagExact

(* A handler of l that has not sent its EOI.                               *)
Waiting(f, l) == f.code = Handler(l) /\ f.pc <= EoiAt(l)

(* The place of a handler's EOI.                                           *)
LEMMA EoiPlace ==
    ASSUME NEW l \in Lines, NEW q \in Nat \ {0}
    PROVE  (\A j \in 1..(q - 1) : Code[Handler(l)][j] # <<"eoi", l>>) <=> q <= EoiAt(l)
<1> USE CodeText DEF Lines, PIT_IRQ, KBD_IRQ, RTC_IRQ, EoiAt
<1>1. CASE l = PIT_IRQ
  <2>1. Code[Handler(l)] = pit_handler
    BY <1>1 DEF Handler
  <2>2. \A j \in 1..3 : pit_handler[j] # <<"eoi", PIT_IRQ>>
    BY DEF pit_handler, cli
  <2>3. pit_handler[4] = <<"eoi", PIT_IRQ>>
    BY DEF pit_handler
  <2> QED  BY <1>1, <2>1, <2>2, <2>3
<1>2. CASE l = KBD_IRQ
  <2>1. Code[Handler(l)] = kbd_intr_handler
    BY <1>2 DEF Handler
  <2>2. \A j \in 1..2 : kbd_intr_handler[j] # <<"eoi", KBD_IRQ>>
    BY DEF kbd_intr_handler, cli
  <2>3. kbd_intr_handler[3] = <<"eoi", KBD_IRQ>>
    BY DEF kbd_intr_handler
  <2> QED  BY <1>2, <2>1, <2>2, <2>3
<1>3. CASE l = RTC_IRQ
  <2>1. Code[Handler(l)] = rtc_handler
    BY <1>3 DEF Handler
  <2>2. \A j \in 1..4 : rtc_handler[j] # <<"eoi", RTC_IRQ>>
    BY DEF rtc_handler, cli
  <2>3. rtc_handler[5] = <<"eoi", RTC_IRQ>>
    BY DEF rtc_handler
  <2> QED  BY <1>3, <2>1, <2>2, <2>3
<1> QED  BY <1>1, <1>2, <1>3

(* The frames that wait with their EOI.                                    *)
LEMMA Waiters ==
    StackShape => \A l \in Lines : BeforeEoi(l) = {i \in 1..depth : Waiting(stack[i], l)}
<1> SUFFICES ASSUME StackShape, NEW l \in Lines
             PROVE  BeforeEoi(l) = {i \in 1..depth : Waiting(stack[i], l)}
  OBVIOUS
<1>1. \A i \in 1..depth : stack[i] \in Frames
  BY ElementOfSeq DEF StackShape, depth
<1>2. \A i \in 1..depth : stack[i].pc \in Nat \ {0}
  BY <1>1 DEF Frames
<1> QED  BY <1>2, EoiPlace DEF BeforeEoi, Waiting

(* The same after a step.                                                  *)
LEMMA WaitersNext ==
    StackShape' =>
        \A l \in Lines : BeforeEoi(l)' = {i \in 1..depth' : Waiting(stack'[i], l)}
<1>1. (StackShape => \A l \in Lines : BeforeEoi(l) = {i \in 1..depth : Waiting(stack[i], l)})'
  BY Waiters, PTL
<1> QED  BY <1>1 DEF Waiting

(* No line comes into service or leaves it, unless it is an EOI.           *)
LEMMA SteppedService ==
    ASSUME StackShape, FlagExact, InServiceExact, ~AtEnd, OpName \notin {"user", "eoi"}, Stepped,
           UNCHANGED <<isr_master, isr_slave>>
    PROVE  InServiceExact'
<1>1. StackShape' /\ depth' = depth /\ TopKnown
  BY SteppedShape, TopFrame
<1>2. ASSUME NEW l \in Lines
      PROVE  BeforeEoi(l)' = BeforeEoi(l)
  <2>1. ~(top.code = Handler(l) /\ top.pc = EoiAt(l))
    BY <1>1, <1>2 DEF TopKnown, Listed, Handler, EoiAt, Lines, PIT_IRQ, KBD_IRQ, RTC_IRQ
  <2>2. Waiting(stack'[depth], l) <=> Waiting(stack[depth], l)
    BY <1>1, <2>1 DEF Stepped, TopKnown, Waiting, EoiAt
  <2>3. \A i \in 1..depth : Waiting(stack'[i], l) <=> Waiting(stack[i], l)
    BY <1>1, <2>2 DEF Stepped, TopKnown
  <2> QED  BY <1>1, <2>3, Waiters, WaitersNext
<1> QED  BY <1>1, <1>2 DEF InServiceExact

(* Nothing but a select is followed by an access to the data port.         *)
LEMMA SteppedRegister ==
    ASSUME StackShape, FlagExact, ~AtEnd, OpName \notin {"user", "select"}, Stepped
    PROVE  RegisterSelected'
<1>1. StackShape' /\ top'.code = top.code /\ top'.pc = top.pc + 1 /\ TopKnown /\ TopKnown'
  BY SteppedShape, TopFrame, TopFrameNext
<1>2. ~AtEnd' => OpName' \notin {"in", "out"}
  <2> SUFFICES ASSUME ~AtEnd', OpName' \in {"in", "out"} PROVE FALSE
    OBVIOUS
  <2>1. Listed(top.code, top.pc, OpName, Operand)
    BY <1>1 DEF TopKnown
  <2>2. Listed(top.code, top.pc + 1, OpName', Operand')
    BY <1>1 DEF TopKnown
  <2> QED  BY <1>1, <2>1, <2>2, SelectFlow DEF TopKnown
<1> QED  BY <1>2 DEF RegisterSelected, At, OpName

(* The gates the boot sequence relies on are still there.                  *)
LEMMA SteppedGates ==
    ASSUME StackShape, FlagExact, GatesFilled, ~AtEnd, OpName \notin {"user", "insert_idt"},
           Stepped, UNCHANGED present
    PROVE  GatesFilled'
<1>1. depth' = depth /\ TopKnown
  BY SteppedShape, TopFrame
<1>2. top.code = "entry" => top.pc \notin {8, 19}
  BY <1>1 DEF TopKnown, Listed
<1>3. \A i \in 1..depth : i = depth \/ i \in 1..(depth - 1)
  BY <1>1 DEF TopKnown
<1> QED  BY <1>1, <1>2, <1>3 DEF GatesFilled, Stepped, TopKnown

(* The turn is left alone by everything but four instructions of           *)
(* pit_handler.                                                            *)
LEMMA SteppedTurn ==
    ASSUME StackShape, FlagExact, TurnExact, ~AtEnd,
           OpName \notin {"user", "load", "mod3", "inc", "next"}, Stepped, UNCHANGED turn
    PROVE  TurnExact'
<1>1. top'.code = top.code /\ top'.pc = top.pc + 1 /\ TopKnown
  BY SteppedShape, TopFrame
<1>2. top.code = "pit_handler" => top.pc \in {3, 4, 8}
  BY <1>1 DEF TopKnown, Listed
<1> QED  BY <1>1, <1>2 DEF TurnExact, turn

(* The frames have their type.                                             *)
LEMMA FrameTypes ==
    StackShape =>
        \A i \in 1..depth :
            stack[i] \in [code : DOMAIN Code, pc : Nat, flags : BOOLEAN, reg : 0..3]
<1> SUFFICES ASSUME StackShape, NEW i \in 1..depth
             PROVE  stack[i] \in [code : DOMAIN Code, pc : Nat, flags : BOOLEAN, reg : 0..3]
  OBVIOUS
<1>1. stack[i] \in Frames
  BY ElementOfSeq DEF StackShape, depth
<1> QED  BY <1>1 DEF Frames

(* The same after a step.                                                  *)
LEMMA FrameTypesNext ==
    StackShape' =>
        \A i \in 1..depth' :
            stack'[i] \in [code : DOMAIN Code, pc : Nat, flags : BOOLEAN, reg : 0..3]
<1>1. (StackShape =>
        \A i \in 1..depth :
            stack[i] \in [code : DOMAIN Code, pc : Nat, flags : BOOLEAN, reg : 0..3])'
  BY FrameTypes, PTL
<1> QED  BY <1>1

-----------------------------------------------------------------------------
(* A frame is pushed by a system call or an interrupt, which find          *)
(* interrupts enabled.                                                     *)
LEMMA PushShape ==
    ASSUME StackShape, FlagExact, NEW c \in SystemCalls \cup Handlers,
           c \in SystemCalls => depth = 1, Suspended(top), IF_flag,
           NEW f \in Frames, f.code = c, f.pc = 1, f.flags,
           stack' = Append(stack, f), UNCHANGED IF_flag
    PROVE  /\ StackShape' /\ FlagExact'
           /\ depth' = depth + 1
           /\ top'.code = c /\ top'.pc = 1
           /\ \A i \in 1..depth : stack'[i] = stack[i]
<1>1. TopKnown
  BY TopFrame
<1>2. f.code = c /\ f.pc = 1 /\ f.flags
  OBVIOUS
<1>3. /\ stack' \in Seq(Frames) /\ Len(stack') = depth + 1
      /\ stack'[depth + 1] = f
      /\ \A i \in 1..depth : stack'[i] = stack[i]
  <2>1. stack \in Seq(Frames)
    BY DEF StackShape
  <2> QED  BY <2>1, AppendProperties DEF depth
<1>4. depth' = depth + 1 /\ top' = f
  BY <1>3 DEF depth, top
<1>5. \A i \in 1..(depth + 1) : i = depth + 1 \/ i \in 1..depth
  BY <1>1 DEF TopKnown
<1>6. Len(Code[c]) \in Nat /\ c # "user" /\ ~Disabled(c, 1)
  <2>1. c \in DOMAIN Code /\ c # "user" /\ c # "entry"
    BY CodeNames DEF SystemCalls, Handlers
  <2>2. Len(Code[c]) \in Nat
    BY <2>1, Lengths
  <2> QED  BY <2>1, <2>2 DEF Disabled
<1>7. \A i \in 1..(depth + 1) : Restores(stack'[i]) /\ stack'[i].pc <= Len(Code[stack'[i].code]) + 1
  <2>1. \A i \in 1..depth : Restores(stack'[i]) /\ stack'[i].pc <= Len(Code[stack'[i].code]) + 1
    BY <1>3 DEF StackShape
  <2>2. stack'[depth + 1].pc <= Len(Code[stack'[depth + 1].code]) + 1 /\ Restores(stack'[depth + 1])
    <3>1. Restores(stack'[depth + 1])
      BY <1>2, <1>3, Zenon DEF Restores
    <3>2. stack'[depth + 1].pc = 1 /\ stack'[depth + 1].code = c
      BY <1>2, <1>3, Zenon
    <3>3. 1 <= Len(Code[c]) + 1
      BY <1>6
    <3> QED  BY <3>1, <3>2, <3>3, Zenon
  <2> QED  BY <1>5, <2>1, <2>2, Zenon
<1>8. StackShape'
  <2>1. stack'[1] = stack[1]
    <3>1. 1 \in 1..depth
      BY <1>1 DEF TopKnown
    <3> QED  BY <1>3, <3>1
  <2>2. \A i \in 2..(depth + 1) : i = depth + 1 \/ (i \in 2..depth /\ i \in 1..depth)
    BY <1>1 DEF TopKnown
  <2>3. \A i \in 2..(depth + 1) : stack'[i].code # "user"
    BY <1>2, <1>3, <1>6, <2>2 DEF StackShape
  <2>4. \A i \in 3..(depth + 1) : stack'[i].code \in Handlers
    <3>1. \A i \in 3..(depth + 1) : i = depth + 1 \/ (i \in 3..depth /\ i \in 1..depth)
      BY <1>1 DEF TopKnown
    <3>2. depth + 1 >= 3 => c \in Handlers
      BY <1>1 DEF TopKnown
    <3>3. \A i \in 3..(depth + 1) : depth + 1 >= 3
      BY <1>1 DEF TopKnown
    <3> QED  BY <1>2, <1>3, <3>1, <3>2, <3>3 DEF StackShape
  <2>5. depth + 1 >= 1
    BY <1>1 DEF TopKnown
  <2> QED  BY <1>3, <1>4, <1>7, <2>1, <2>3, <2>4, <2>5 DEF StackShape, Restores
<1>9. \A i \in 1..depth : Suspended(stack[i])
  BY <1>1 DEF FlagExact, TopKnown
<1>10. FlagExact'
  <2>1. \A i \in 1..depth : Suspended(stack'[i])
    BY <1>3, <1>9
  <2>2. IF_flag' = ~Disabled(top'.code, top'.pc)
    BY <1>2, <1>4, <1>6
  <2>3. depth' - 1 = depth
    BY <1>1, <1>4 DEF TopKnown
  <2> QED  BY <2>1, <2>2, <2>3 DEF FlagExact, Suspended
<1> QED  BY <1>2, <1>3, <1>4, <1>8, <1>10

(* The first instruction of what is pushed accesses nothing, and no other  *)
(* part of the invariant speaks of it.                                     *)
LEMMA PushRest ==
    ASSUME StackShape, GatesFilled, TurnExact, StackShape', depth' = depth + 1,
           top'.code \in SystemCalls \cup Handlers, top'.pc = 1,
           \A i \in 1..depth : stack'[i] = stack[i], UNCHANGED <<present, turn>>
    PROVE  RegisterSelected' /\ GatesFilled' /\ TurnExact'
<1>1. TopKnown /\ TopKnown'
  BY TopFrame, TopFrameNext
<1>2. ~AtEnd' => OpName' \notin {"in", "out"}
  BY <1>1 DEF TopKnown, Listed, SystemCalls, Handlers
<1>3. RegisterSelected'
  BY <1>2 DEF RegisterSelected, At, OpName
<1>4. \A i \in 1..depth' : i \in 1..depth \/ stack'[i].code # "entry"
  BY <1>1 DEF TopKnown, SystemCalls, Handlers
<1>5. GatesFilled'
  BY <1>4 DEF GatesFilled
<1>6. TurnExact'
  BY DEF TurnExact, turn
<1> QED  BY <1>3, <1>5, <1>6

-----------------------------------------------------------------------------
(* The registers, without the stack and the bursts.                        *)
Registers ==
    /\ IF_flag \in BOOLEAN
    /\ present \subseteq Lines
    /\ master_mask \subseteq Bits /\ slave_mask \subseteq Bits
    /\ irr \subseteq Lines
    /\ isr_master \subseteq Bits /\ isr_slave \subseteq Bits
    /\ rtc_index \in {"A", "B", "C"}
    /\ rtc_pie \in BOOLEAN /\ rtc_irqf \in BOOLEAN /\ kbd_full \in BOOLEAN
    /\ next_interrupt \in {0, 1}
    /\ curr_exec_term \in 0..3 /\ next_exec_term \in 0..2

(* The invariant, without the bursts.                                      *)
SInv ==
    /\ Registers
    /\ depth \in 1..MaxNest
    /\ StackShape
    /\ FlagExact
    /\ InServiceExact
    /\ RegisterSelected
    /\ GatesFilled
    /\ GateBeforeLine
    /\ TurnExact

(* What the two invariants differ in.                                      *)
LEMMA SInvIInv == IInv <=> SInv /\ burst \in [Lines -> 0..MaxBurst]
  BY FrameTypes DEF IInv, SInv, Registers, TypeOK

(* The same after a step.                                                  *)
LEMMA SInvIInvNext == IInv' <=> SInv' /\ burst' \in [Lines -> 0..MaxBurst]
<1>1. (IInv <=> SInv /\ burst \in [Lines -> 0..MaxBurst])'
  BY SInvIInv, PTL
<1> QED  BY <1>1

(* What is known at an instruction.                                        *)
LEMMA AtInstruction ==
    ASSUME SInv, NEW k, At(k)
    PROVE  /\ ~AtEnd /\ OpName = k /\ TopKnown
           /\ Listed(top.code, top.pc, k, Operand)
  BY TopFrame DEF SInv, At, OpName, TopKnown

(* An instruction that touches nothing but devices.                        *)
LEMMA PlainStep ==
    ASSUME SInv, ~AtEnd, Stepped, Registers',
           OpName \notin {"user", "cli", "sti", "eoi", "select", "insert_idt",
                          "load", "mod3", "inc", "next"},
           UNCHANGED <<IF_flag, present, master_mask, slave_mask, isr_master, isr_slave, turn>>
    PROVE  SInv'
<1>1. StackShape' /\ depth' = depth
  BY SteppedShape DEF SInv
<1>2. FlagExact' /\ InServiceExact' /\ RegisterSelected' /\ GatesFilled' /\ TurnExact'
  BY SteppedFlag, SteppedService, SteppedRegister, SteppedGates, SteppedTurn DEF SInv
<1>3. GateBeforeLine'
  BY DEF SInv, GateBeforeLine, Unmasked
<1> QED  BY <1>1, <1>2, <1>3 DEF SInv

(* cli and sti.                                                            *)
LEMMA ChangeFlagKeeps ==
    ASSUME SInv, ChangeFlag
    PROVE  SInv'
<1>1. ~AtEnd /\ OpName \in {"cli", "sti"} /\ TopKnown /\ Listed(top.code, top.pc, OpName, Operand)
  BY AtInstruction DEF ChangeFlag
<1>2. Stepped
  BY <1>1, AdvanceSteps DEF SInv, ChangeFlag
<1>3. /\ StackShape' /\ depth' = depth
      /\ top'.code = top.code /\ top'.pc = top.pc + 1
      /\ \A i \in 1..(depth' - 1) : Suspended(stack[i])'
  BY <1>1, <1>2, SteppedShape DEF SInv
<1>4. UNCHANGED <<isr_master, isr_slave, present, turn, master_mask, slave_mask>>
  BY DEF ChangeFlag, pic, turn
<1>5. InServiceExact' /\ RegisterSelected' /\ GatesFilled' /\ TurnExact'
  BY <1>1, <1>2, <1>4, SteppedService, SteppedRegister, SteppedGates, SteppedTurn DEF SInv
<1>6. IF_flag' = ~Disabled(top'.code, top'.pc)
  <2>1. OpName = "cli" => Disabled(top.code, top.pc + 1)
    BY <1>1, FlagFlow DEF TopKnown
  <2>2. OpName = "sti" => ~Disabled(top.code, top.pc + 1)
    BY <1>1, FlagFlow DEF TopKnown
  <2>3. IF_flag' = (OpName = "sti")
    BY <1>1 DEF ChangeFlag, At, OpName
  <2> QED  BY <1>1, <1>3, <2>1, <2>2, <2>3
<1>7. FlagExact'
  BY <1>3, <1>6 DEF FlagExact
<1>8. Registers'
  BY DEF SInv, ChangeFlag, At, Registers, pic, rtc, turn
<1>9. GateBeforeLine'
  BY <1>4 DEF SInv, GateBeforeLine, Unmasked
<1> QED  BY <1>3, <1>5, <1>7, <1>8, <1>9 DEF SInv

(* insert_idt: the boot sequence fills a gate.                             *)
LEMMA InsertIdtKeeps ==
    ASSUME SInv, InsertIdt
    PROVE  SInv'
<1>1. ~AtEnd /\ OpName = "insert_idt" /\ TopKnown /\ Listed(top.code, top.pc, "insert_idt", Operand)
  BY AtInstruction DEF InsertIdt
<1>2. Stepped
  BY <1>1, AdvanceSteps DEF SInv, InsertIdt
<1>3. StackShape' /\ depth' = depth
  BY <1>1, <1>2, SteppedShape DEF SInv
<1>4. UNCHANGED <<IF_flag, isr_master, isr_slave, turn, master_mask, slave_mask>>
      /\ present' = present \cup {Operand}
  BY DEF InsertIdt, pic, turn
<1>5. FlagExact' /\ InServiceExact' /\ RegisterSelected' /\ TurnExact'
  BY <1>1, <1>2, <1>4, SteppedFlag, SteppedService, SteppedRegister, SteppedTurn DEF SInv
<1>6. /\ top.code = "entry"
      /\ \/ top.pc = 8 /\ Operand = RTC_IRQ
         \/ top.pc = 19 /\ Operand = KBD_IRQ
  BY <1>1, CodeNames DEF TopKnown, Listed
<1>7. GatesFilled'
  <2>1. \A i \in 1..depth : i = depth \/ i \in 1..(depth - 1)
    BY <1>1 DEF TopKnown
  <2> QED  BY <1>1, <1>2, <1>3, <1>4, <1>6, <2>1 DEF SInv, GatesFilled, Stepped, TopKnown
<1>8. Registers'
  BY <1>6 DEF SInv, InsertIdt, Registers, Lines, pic, rtc, turn
<1>9. GateBeforeLine'
  BY <1>4 DEF SInv, GateBeforeLine, Unmasked
<1> QED  BY <1>3, <1>5, <1>7, <1>8, <1>9 DEF SInv

(* enable_irq: the boot sequence opens a line whose gate is filled.        *)
LEMMA EnableKeeps ==
    ASSUME SInv, enable_irq
    PROVE  SInv'
<1>1. ~AtEnd /\ OpName = "enable_irq" /\ TopKnown /\ Listed(top.code, top.pc, "enable_irq", Operand)
  BY AtInstruction DEF enable_irq
<1>2. Stepped
  BY <1>1, AdvanceSteps DEF SInv, enable_irq
<1>3. StackShape' /\ depth' = depth
  BY <1>1, <1>2, SteppedShape DEF SInv
<1>4. UNCHANGED <<IF_flag, isr_master, isr_slave, turn, present>>
  BY DEF enable_irq, turn
<1>5. FlagExact' /\ InServiceExact' /\ RegisterSelected' /\ TurnExact' /\ GatesFilled'
  BY <1>1, <1>2, <1>4, SteppedFlag, SteppedService, SteppedRegister, SteppedTurn, SteppedGates
     DEF SInv
<1>6. Operand \in Lines /\ Operand \in present
  <2>1. /\ top.code = "entry"
        /\ \/ top.pc = 9 /\ Operand = RTC_IRQ
           \/ top.pc = 18 /\ Operand = PIT_IRQ
           \/ top.pc = 20 /\ Operand = KBD_IRQ
    BY <1>1, CodeNames DEF TopKnown, Listed
  <2> QED  BY <1>1, <2>1 DEF SInv, GatesFilled, TopKnown, Lines
<1>7. GateBeforeLine'
  <2> SUFFICES ASSUME NEW l \in Lines, Unmasked(l)', l # Operand PROVE Unmasked(l)
    BY <1>4, <1>6 DEF SInv, GateBeforeLine
  <2>1. Master(l) # Master(Operand)
    BY <1>6 DEF Master, Lines, PIT_IRQ, KBD_IRQ, RTC_IRQ, IRQSEQ
  <2>2. l >= IRQSEQ => Operand < IRQSEQ
    BY <1>6 DEF Lines, PIT_IRQ, KBD_IRQ, RTC_IRQ, IRQSEQ
  <2> QED  BY <1>6, <2>1, <2>2 DEF enable_irq, Unmasked, Lines, PIT_IRQ, KBD_IRQ, RTC_IRQ, IRQSEQ
<1>8. Registers'
  BY DEF SInv, enable_irq, Registers, rtc, turn
<1> QED  BY <1>3, <1>5, <1>7, <1>8 DEF SInv

(* send_eoi: a handler ends the service of its own line; the EOI of        *)
(* rtc_write, a system call or part of the boot sequence, ends nobody's,   *)
(* for when it runs there is no handler on the stack.                      *)
LEMMA EoiKeeps ==
    ASSUME SInv, send_eoi
    PROVE  SInv'
<1>1. ~AtEnd /\ OpName = "eoi" /\ TopKnown /\ Listed(top.code, top.pc, "eoi", Operand)
  BY AtInstruction DEF send_eoi
<1>2. Stepped
  BY <1>1, AdvanceSteps DEF SInv, send_eoi
<1>3. StackShape' /\ depth' = depth
  BY <1>1, <1>2, SteppedShape DEF SInv
<1>4. UNCHANGED <<IF_flag, present, turn, master_mask, slave_mask>>
  BY DEF send_eoi, turn
<1>5. FlagExact' /\ RegisterSelected' /\ TurnExact' /\ GatesFilled'
  BY <1>1, <1>2, <1>4, SteppedFlag, SteppedRegister, SteppedTurn, SteppedGates DEF SInv
<1>6. PICK o \in Lines :
         /\ o = Operand
         /\ \/ top.code = Handler(o) /\ top.pc = EoiAt(o)
            \/ top.code \in {"entry", "rtc_write"} /\ Operand = RTC_IRQ
  <2>1. \/ top.code = "pit_handler" /\ top.pc = 4 /\ Operand = PIT_IRQ
        \/ top.code = "kbd_intr_handler" /\ top.pc = 3 /\ Operand = KBD_IRQ
        \/ top.code = "rtc_handler" /\ top.pc = 5 /\ Operand = RTC_IRQ
        \/ top.code \in {"entry", "rtc_write"} /\ Operand = RTC_IRQ
    BY <1>1, CodeNames DEF TopKnown, Listed
  <2> QED  BY <2>1 DEF Lines, Handler, EoiAt, PIT_IRQ, KBD_IRQ, RTC_IRQ
<1>7. ASSUME NEW l \in Lines, l # o
      PROVE  BeforeEoi(l)' = BeforeEoi(l)
  <2>1. top.code # Handler(l)
    BY <1>6, <1>7 DEF Lines, Handler, PIT_IRQ, KBD_IRQ, RTC_IRQ
  <2>2. \A i \in 1..depth : Waiting(stack'[i], l) <=> Waiting(stack[i], l)
    BY <1>1, <1>2, <2>1 DEF Stepped, TopKnown, Waiting
  <2> QED  BY <1>3, <2>2, Waiters, WaitersNext DEF SInv
<1>8. BeforeEoi(o)' = {}
  <2>1. \A i \in 1..depth : ~Waiting(stack'[i], o)
    <3>1. CASE top.code = Handler(o) /\ top.pc = EoiAt(o)
      <4>1. depth \in BeforeEoi(o)
        BY <1>1, <1>6, <3>1, Waiters DEF SInv, TopKnown, Waiting
      <4>2. \A i \in 1..depth : i # depth => ~Waiting(stack[i], o)
        BY <1>6, <4>1, Waiters DEF SInv, InServiceExact
      <4>3. ~Waiting(stack'[depth], o)
        BY <1>1, <1>2, <3>1 DEF Stepped, TopKnown, Waiting
      <4>4. \A i \in 1..depth : i # depth => stack'[i] = stack[i]
        BY <1>1, <1>2 DEF Stepped, TopKnown
      <4> QED  BY <4>2, <4>3, <4>4
    <3>2. CASE top.code \in {"entry", "rtc_write"} /\ o = RTC_IRQ
      <4>1. depth = 2
        BY <1>1, <3>2 DEF SInv, StackShape, TopKnown, Handlers
      <4>2. stack'[1].code = "user" /\ stack'[2].code \in {"entry", "rtc_write"}
        BY <1>2, <1>3, <3>2, <4>1 DEF StackShape, Stepped
      <4>3. \A i \in 1..depth : stack'[i].code # "rtc_handler"
        <5>1. \A i \in 1..2 : i = 1 \/ i = 2
          OBVIOUS
        <5> QED  BY <4>1, <4>2, <5>1
      <4> QED  BY <3>2, <4>3 DEF Waiting, Handler, PIT_IRQ, KBD_IRQ, RTC_IRQ
    <3> QED  BY <1>6, <3>1, <3>2
  <2> QED  BY <1>3, <1>6, <2>1, WaitersNext
<1>9. InServiceExact'
  <2>1. \A l \in Lines : Master(l) \in isr_master' <=> Master(l) \in isr_master /\ l # o
    BY <1>6 DEF send_eoi, Master, Lines, PIT_IRQ, KBD_IRQ, RTC_IRQ, IRQSEQ
  <2>2. \A l \in Lines : IF Master(l) \in isr_master'
                         THEN \E i \in 1..depth' : BeforeEoi(l)' = {i}
                         ELSE BeforeEoi(l)' = {}
    <3> SUFFICES ASSUME NEW l \in Lines
                 PROVE  IF Master(l) \in isr_master'
                        THEN \E i \in 1..depth' : BeforeEoi(l)' = {i}
                        ELSE BeforeEoi(l)' = {}
      OBVIOUS
    <3>1. CASE l = o
      BY <1>8, <2>1, <3>1
    <3>2. CASE l # o
      BY <1>3, <1>7, <2>1, <3>2 DEF SInv, InServiceExact
    <3> QED  BY <3>1, <3>2
  <2>3. 0 \in isr_slave' <=> 2 \in isr_master'
    BY <1>6 DEF SInv, InServiceExact, send_eoi, Master, Lines, PIT_IRQ, KBD_IRQ, RTC_IRQ, IRQSEQ
  <2> QED  BY <2>2, <2>3 DEF InServiceExact
<1>10. Registers'
  BY DEF SInv, send_eoi, Registers, rtc, turn
<1>11. GateBeforeLine'
  BY <1>4 DEF SInv, GateBeforeLine, Unmasked
<1> QED  BY <1>3, <1>5, <1>9, <1>10, <1>11 DEF SInv

(* The select of an RTC register, directly before the access to it.        *)
LEMMA SelectKeeps ==
    ASSUME SInv, SelectRegister
    PROVE  SInv'
<1>1. ~AtEnd /\ OpName = "select" /\ TopKnown /\ Listed(top.code, top.pc, "select", Operand)
  BY AtInstruction DEF SelectRegister
<1>2. Stepped
  BY <1>1, AdvanceSteps DEF SInv, SelectRegister
<1>3. /\ StackShape' /\ depth' = depth
      /\ top'.code = top.code /\ top'.pc = top.pc + 1
  BY <1>1, <1>2, SteppedShape DEF SInv
<1>4. UNCHANGED <<IF_flag, isr_master, isr_slave, turn, present, master_mask, slave_mask>>
  BY DEF SelectRegister, pic, turn
<1>5. FlagExact' /\ InServiceExact' /\ TurnExact' /\ GatesFilled'
  BY <1>1, <1>2, <1>4, SteppedFlag, SteppedService, SteppedTurn, SteppedGates DEF SInv
<1>6. Operand \in {"A", "B", "C"}
  BY <1>1, CodeNames DEF TopKnown, Listed
<1>7. RegisterSelected'
  <2> SUFFICES ASSUME ~AtEnd', OpName' \in {"in", "out"} PROVE Operand' = Operand
    BY DEF RegisterSelected, At, OpName, SelectRegister
  <2>1. Listed(top.code, top.pc + 1, OpName', Operand')
    BY <1>3, TopFrameNext DEF TopKnown
  <2> QED  BY <1>1, <2>1, SelectFlow DEF TopKnown
<1>8. Registers'
  BY <1>6 DEF SInv, SelectRegister, Registers, pic, turn
<1>9. GateBeforeLine'
  BY <1>4 DEF SInv, GateBeforeLine, Unmasked
<1> QED  BY <1>3, <1>5, <1>7, <1>8, <1>9 DEF SInv

(* A step that changes neither the stack nor what the invariant says of    *)
(* it.                                                                     *)
LEMMA StutterKeeps ==
    ASSUME SInv, UNCHANGED <<stack, IF_flag, present, master_mask, slave_mask,
                             isr_master, isr_slave, rtc_index, rtc_pie, next_interrupt, turn>>,
           irr' \subseteq Lines, rtc_irqf' \in BOOLEAN, kbd_full' \in BOOLEAN
    PROVE  SInv'
<1>1. depth' = depth /\ top' = top /\ AtEnd' = AtEnd
  BY DEF depth, top, AtEnd
<1>2. Registers'
  BY DEF SInv, Registers, turn
<1>3. StackShape'
  BY <1>1 DEF SInv, StackShape
<1>4. FlagExact' /\ RegisterSelected'
  BY <1>1 DEF SInv, FlagExact, Suspended, RegisterSelected, At, Operand
<1>5. \A l \in Lines : BeforeEoi(l)' = BeforeEoi(l)
  BY <1>1 DEF BeforeEoi
<1>6. InServiceExact'
  BY <1>1, <1>5 DEF SInv, InServiceExact
<1>7. GatesFilled' /\ GateBeforeLine' /\ TurnExact'
  BY <1>1 DEF SInv, GatesFilled, GateBeforeLine, Unmasked, TurnExact, turn
<1> QED  BY <1>1, <1>2, <1>3, <1>4, <1>6, <1>7 DEF SInv

(* The accesses to devices and rtc_read's loop.                            *)
LEMMA DevicesKeep ==
    ASSUME SInv, RtcData \/ ReadScancode \/ Signal \/ Spin
    PROVE  SInv'
<1>1. CASE RtcData
  <2>1. ~AtEnd /\ OpName \in {"in", "out"}
    BY <1>1, AtInstruction DEF RtcData
  <2>2. Stepped
    BY <1>1, <2>1, AdvanceSteps DEF SInv, RtcData
  <2>3. Registers'
    BY <1>1 DEF SInv, RtcData, Registers, pic, turn
  <2> QED  BY <1>1, <2>1, <2>2, <2>3, PlainStep DEF RtcData, pic
<1>2. CASE ReadScancode
  <2>1. ~AtEnd /\ OpName = "inb"
    BY <1>2, AtInstruction DEF ReadScancode
  <2>2. Stepped
    BY <1>2, <2>1, AdvanceSteps DEF SInv, ReadScancode
  <2>3. Registers'
    BY <1>2 DEF SInv, ReadScancode, Registers, pic, rtc, turn
  <2> QED  BY <1>2, <2>1, <2>2, <2>3, PlainStep DEF ReadScancode, pic
<1>3. CASE Signal
  <2>1. ~AtEnd /\ OpName = "signal" /\ TopKnown /\ Listed(top.code, top.pc, "signal", Operand)
    BY <1>3, AtInstruction DEF Signal
  <2>2. Stepped
    BY <1>3, <2>1, AdvanceSteps DEF SInv, Signal
  <2>3. Operand \in {0, 1}
    BY <2>1, CodeNames DEF TopKnown, Listed
  <2>4. Registers'
    BY <1>3, <2>3 DEF SInv, Signal, Registers, pic, rtc, turn
  <2> QED  BY <1>3, <2>1, <2>2, <2>4, PlainStep DEF Signal, pic
<1>4. CASE Spin
  <2>1. ~AtEnd /\ OpName = "spin"
    BY <1>4, AtInstruction DEF Spin
  <2>2. Registers'
    BY <1>4 DEF SInv, Spin, Registers, pic, rtc, turn
  <2>3. CASE Advance
    <3>1. Stepped
      BY <2>1, <2>3, AdvanceSteps DEF SInv
    <3> QED  BY <1>4, <2>1, <2>2, <3>1, PlainStep DEF Spin, pic
  <2>4. CASE UNCHANGED stack
    BY <1>4, <2>4, StutterKeeps DEF Spin, SInv, Registers, pic, rtc
  <2> QED  BY <1>4, <2>3, <2>4 DEF Spin
<1> QED  BY <1>1, <1>2, <1>3, <1>4

(* pit_handler takes the turn: load, % 3, the new turn, load, + 1.         *)
LEMMA TurnKeeps ==
    ASSUME SInv, LoadTurn \/ StoreTurn \/ GiveTurn
    PROVE  SInv' /\ next_exec_term' \in {next_exec_term, (next_exec_term + 1) % 3}
<1>1. /\ ~AtEnd /\ TopKnown /\ top.code = "pit_handler"
      /\ OpName \in {"load", "mod3", "inc", "next"}
      /\ Listed(top.code, top.pc, OpName, Operand)
  <2>1. ~AtEnd /\ OpName \in {"load", "mod3", "inc", "next"} /\ TopKnown
    BY AtInstruction DEF LoadTurn, StoreTurn, GiveTurn
  <2>2. Listed(top.code, top.pc, OpName, Operand)
    BY <2>1 DEF TopKnown
  <2> QED  BY <2>1, <2>2, CodeNames DEF TopKnown, Listed
<1>2. Stepped /\ stack'[depth].reg = IF LoadTurn THEN curr_exec_term ELSE top.reg
  <2>1. CASE LoadTurn
    BY <1>1, <2>1, LoadSteps DEF SInv, Registers, LoadTurn
  <2>2. CASE ~LoadTurn
    BY <1>1, <2>2, AdvanceSteps DEF SInv, StoreTurn, GiveTurn
  <2> QED  BY <2>1, <2>2
<1>3. /\ StackShape' /\ depth' = depth
      /\ top'.code = top.code /\ top'.pc = top.pc + 1
  BY <1>1, <1>2, SteppedShape DEF SInv
<1>4. top'.reg = IF LoadTurn THEN curr_exec_term ELSE top.reg
  BY <1>2, <1>3 DEF top
<1>5. UNCHANGED <<IF_flag, isr_master, isr_slave, present, master_mask, slave_mask, irr, rtc,
                  kbd_full, next_interrupt>>
  BY DEF LoadTurn, StoreTurn, GiveTurn, pic
<1>6. FlagExact' /\ InServiceExact' /\ RegisterSelected' /\ GatesFilled'
  BY <1>1, <1>2, <1>5, SteppedFlag, SteppedService, SteppedRegister, SteppedGates DEF SInv
<1>7. GateBeforeLine'
  BY <1>5 DEF SInv, GateBeforeLine, Unmasked
<1>8. /\ curr_exec_term \in 0..3 /\ next_exec_term \in 0..2 /\ top.reg \in 0..3
      /\ curr_exec_term \in {next_exec_term, next_exec_term + 1, (next_exec_term + 1) % 3}
  BY <1>1 DEF SInv, Registers, TopKnown, Frames, TurnExact
<1>9. CASE LoadTurn
  <2>1. top.pc \in {1, 6} /\ UNCHANGED <<curr_exec_term, next_exec_term>>
    BY <1>1, <1>9, AtInstruction DEF Listed, LoadTurn, turn
  <2>2. TurnExact'
    BY <1>1, <1>3, <1>4, <1>9, <2>1 DEF SInv, TurnExact
  <2>3. Registers'
    BY <1>5, <2>1 DEF SInv, Registers, rtc
  <2> QED  BY <1>3, <1>6, <1>7, <2>1, <2>2, <2>3 DEF SInv
<1>10. CASE StoreTurn
  <2>1. UNCHANGED next_exec_term
    BY <1>10 DEF StoreTurn
  <2>2. ~LoadTurn
    BY <1>10 DEF StoreTurn, LoadTurn, At
  <2>3. CASE At("mod3")
    <3>1. top.pc = 2 /\ curr_exec_term' = top.reg % 3 /\ top.reg = curr_exec_term
      BY <1>1, <1>10, <2>3, AtInstruction DEF Listed, StoreTurn, SInv, TurnExact
    <3>2. curr_exec_term' \in 0..2 /\ curr_exec_term' \in {next_exec_term, (next_exec_term + 1) % 3}
      BY <1>8, <3>1
    <3>3. TurnExact'
      BY <1>3, <2>1, <3>1, <3>2 DEF TurnExact
    <3>4. Registers'
      BY <1>5, <2>1, <3>2 DEF SInv, Registers, rtc
    <3> QED  BY <1>3, <1>6, <1>7, <2>1, <3>3, <3>4 DEF SInv
  <2>4. CASE At("inc")
    <3>1. /\ top.pc = 7 /\ curr_exec_term' = (top.reg + 1) % 256
          /\ top.reg = next_exec_term
      BY <1>1, <1>10, <2>4, AtInstruction DEF Listed, StoreTurn, SInv, TurnExact, At
    <3>2. curr_exec_term' = next_exec_term + 1 /\ curr_exec_term' \in 0..3
      BY <1>8, <3>1
    <3>3. TurnExact'
      BY <1>3, <2>1, <3>1, <3>2 DEF TurnExact
    <3>4. Registers'
      BY <1>5, <2>1, <3>2 DEF SInv, Registers, rtc
    <3> QED  BY <1>3, <1>6, <1>7, <2>1, <3>3, <3>4 DEF SInv
  <2> QED  BY <1>10, <2>3, <2>4 DEF StoreTurn
<1>11. CASE GiveTurn
  <2>1. /\ top.pc = 5 /\ next_exec_term' = curr_exec_term /\ curr_exec_term' = curr_exec_term
        /\ curr_exec_term <= 2
    BY <1>1, <1>11, AtInstruction DEF Listed, GiveTurn, SInv, TurnExact
  <2>2. curr_exec_term \in 0..2 /\ curr_exec_term \in {next_exec_term, (next_exec_term + 1) % 3}
    BY <1>8, <2>1
  <2>3. TurnExact'
    BY <1>3, <2>1 DEF TurnExact
  <2>4. Registers'
    BY <1>5, <2>1, <2>2 DEF SInv, Registers, rtc
  <2> QED  BY <1>3, <1>6, <1>7, <2>1, <2>2, <2>3, <2>4 DEF SInv
<1> QED  BY <1>9, <1>10, <1>11

(* execute pushes the flags for its iret, or returns its error through     *)
(* that of the system call.                                                *)
LEMMA FlagsKeep ==
    ASSUME SInv, PushFlags \/ ExecuteFails
    PROVE  SInv'
<1>1. /\ ~AtEnd /\ OpName = "pushf" /\ TopKnown
      /\ Listed(top.code, top.pc, "pushf", Operand)
  BY AtInstruction DEF PushFlags, ExecuteFails
<1>2. Stepped
  <2>1. CASE PushFlags
    <3>1. Operand = IF_MASK
      BY <1>1, CodeNames DEF TopKnown, Listed
    <3> QED  BY <2>1, <3>1, PushFlagsSteps DEF SInv, PushFlags
  <2>2. CASE ExecuteFails
    BY <1>1, <2>2, AdvanceSteps DEF SInv, ExecuteFails
  <2> QED  BY <2>1, <2>2
<1>3. /\ UNCHANGED <<IF_flag, present, master_mask, slave_mask, isr_master, isr_slave, turn>>
      /\ Registers'
  BY DEF SInv, Registers, PushFlags, ExecuteFails, pic, rtc, turn
<1> QED  BY <1>1, <1>2, <1>3, PlainStep

(* An access to the data port happens with interrupts disabled.            *)
LEMMA AccessDisabled ==
    ASSUME NEW c \in DOMAIN Code, NEW p \in Nat, NEW k, NEW a, Listed(c, p, k, a),
           k \in {"in", "out"}
    PROVE  Disabled(c, p)
  BY CodeNames DEF Listed, Disabled

(* iret: what was interrupted goes on, with interrupts enabled.            *)
LEMMA IretKeeps ==
    ASSUME SInv, Iret
    PROVE  SInv'
<1>1. TopKnown /\ StackShape /\ AtEnd
  BY TopFrame DEF SInv, Iret
<1>2. depth \in Nat /\ depth >= 2
  <2>1. top.code # "user"
    <3> SUFFICES ASSUME top.code = "user" PROVE FALSE
      OBVIOUS
    <3>1. top.pc = 1
      BY <1>1 DEF TopKnown, StackShape
    <3> QED  BY <1>1, <3>1, Lengths DEF AtEnd
  <2> QED  BY <1>1, <2>1 DEF TopKnown
<1>3. /\ stack' \in Seq(Frames) /\ Len(stack') = depth - 1
      /\ \A i \in 1..(depth - 1) : stack'[i] = stack[i]
  <2>1. \A i \in 1..(depth - 1) : stack[i] \in Frames
    BY <1>1, <1>2, ElementOfSeq DEF StackShape, depth
  <2>2. /\ SubSeq(stack, 1, depth - 1) \in Seq(Frames)
        /\ Len(SubSeq(stack, 1, depth - 1)) = depth - 1
        /\ \A i \in 1..(depth - 1) : SubSeq(stack, 1, depth - 1)[i] = stack[i]
    BY <1>2, <2>1, SubSeqProperties
  <2> QED  BY <2>2 DEF Iret
<1>4. depth' = depth - 1 /\ top' = stack[depth - 1]
  BY <1>2, <1>3 DEF depth, top
<1>5. StackShape'
  <2>1. \A i \in 1..(depth - 1) : i \in 1..depth
    BY <1>2
  <2>2. \A i \in 1..(depth - 1) : Restores(stack'[i]) /\ stack'[i].pc <= Len(Code[stack'[i].code]) + 1
    BY <1>1, <1>3, <2>1 DEF StackShape
  <2>3. \A i \in 2..(depth - 1) : i \in 2..depth /\ i \in 1..(depth - 1)
    BY <1>2
  <2>4. \A i \in 2..(depth - 1) : stack'[i].code # "user"
    BY <1>1, <1>3, <2>3 DEF StackShape
  <2>5. \A i \in 3..(depth - 1) : i \in 3..depth /\ i \in 1..(depth - 1)
    BY <1>2
  <2>6. \A i \in 3..(depth - 1) : stack'[i].code \in Handlers
    BY <1>1, <1>3, <2>5 DEF StackShape
  <2>7. stack'[1] = stack[1] /\ depth - 1 >= 1
    BY <1>2, <1>3
  <2> QED  BY <1>1, <1>3, <1>4, <2>2, <2>4, <2>6, <2>7 DEF StackShape, Restores
<1>6. Suspended(top')
  BY <1>2, <1>4 DEF SInv, FlagExact
<1>7. IF_flag'
  <2>1. Restores(top) /\ top.code # "user"
    BY <1>1, <1>2 DEF StackShape, TopKnown
  <2>2. top.code = "entry" => top.pc > 22
    BY <1>1, Lengths DEF AtEnd
  <2>3. top.flags
    BY <1>1, <2>1, <2>2 DEF Restores, TopKnown
  <2> QED  BY <2>3 DEF Iret
<1>8. FlagExact'
  <2>1. \A i \in 1..(depth' - 1) : i \in 1..(depth - 1)
    BY <1>2, <1>4
  <2>2. \A i \in 1..(depth' - 1) : Suspended(stack'[i])
    BY <1>3, <2>1 DEF SInv, FlagExact
  <2>3. ~Disabled(top'.code, top'.pc)
    BY <1>6 DEF Suspended
  <2>4. IF_flag' = ~Disabled(top'.code, top'.pc)
    BY <1>7, <2>3 DEF SInv, Registers, Iret, TopKnown, Frames
  <2> QED  BY <2>2, <2>4 DEF FlagExact, Suspended
<1>9. RegisterSelected'
  <2>1. ~AtEnd' => OpName' \notin {"in", "out"}
    <3> SUFFICES ASSUME ~AtEnd', OpName' \in {"in", "out"} PROVE FALSE
      OBVIOUS
    <3>1. /\ Listed(top'.code, top'.pc, OpName', Operand')
          /\ top'.code \in DOMAIN Code /\ top'.pc \in Nat
      BY <1>5, TopFrameNext DEF TopKnown
    <3> QED  BY <1>6, <3>1, AccessDisabled DEF Suspended
  <2> QED  BY <2>1 DEF RegisterSelected, At, OpName
<1>10. ASSUME NEW l \in Lines
       PROVE  BeforeEoi(l)' = BeforeEoi(l)
  <2>1. ~Waiting(stack[depth], l)
    <3>1. top.code = Handler(l) => top.pc > EoiAt(l)
      <4> SUFFICES ASSUME top.code = Handler(l) PROVE top.pc > EoiAt(l)
        OBVIOUS
      <4>1. Len(Code[Handler(l)]) >= EoiAt(l) /\ EoiAt(l) \in Nat
        <5>1. \/ Handler(l) = "pit_handler" /\ EoiAt(l) = 4
              \/ Handler(l) = "kbd_intr_handler" /\ EoiAt(l) = 3
              \/ Handler(l) = "rtc_handler" /\ EoiAt(l) = 5
          BY DEF Handler, EoiAt
        <5>2. \/ Len(Code[Handler(l)]) = 8 /\ EoiAt(l) = 4
              \/ Len(Code[Handler(l)]) = 4 /\ EoiAt(l) = 3
              \/ Len(Code[Handler(l)]) = 6 /\ EoiAt(l) = 5
          BY <5>1, Lengths, Zenon
        <5> DEFINE n == Len(Code[Handler(l)])
                   e == EoiAt(l)
        <5> HIDE DEF n, e
        <5>3. \/ n = 8 /\ e = 4
              \/ n = 4 /\ e = 3
              \/ n = 6 /\ e = 5
          BY <5>2, Zenon DEF n, e
        <5>4. n >= e /\ e \in Nat
          BY <5>3
        <5> QED  BY <5>4, Zenon DEF n, e
      <4>2. Len(Code[Handler(l)]) \in Nat /\ top.pc > Len(Code[Handler(l)]) /\ top.pc \in Nat
        BY <1>1, Lengths DEF AtEnd, TopKnown
      <4> QED  BY <4>1, <4>2
    <3> QED  BY <1>1, <1>10, <3>1 DEF Waiting, TopKnown, EoiAt
  <2>2. \A i \in 1..depth : i \in 1..(depth - 1) \/ i = depth
    BY <1>2
  <2>3. \A i \in 1..(depth - 1) : i \in 1..depth
    BY <1>2
  <2>4. {i \in 1..depth : Waiting(stack[i], l)} = {i \in 1..(depth - 1) : Waiting(stack'[i], l)}
    BY <1>3, <2>1, <2>2, <2>3
  <2> QED  BY <1>1, <1>4, <1>5, <2>4, Waiters, WaitersNext
<1>11. InServiceExact'
  <2>1. UNCHANGED <<isr_master, isr_slave>>
    BY DEF Iret, pic
  <2>2. \A l \in Lines : IF Master(l) \in isr_master'
                         THEN \E i \in 1..depth' : BeforeEoi(l)' = {i}
                         ELSE BeforeEoi(l)' = {}
    <3> SUFFICES ASSUME NEW l \in Lines
                 PROVE  IF Master(l) \in isr_master'
                        THEN \E i \in 1..depth' : BeforeEoi(l)' = {i}
                        ELSE BeforeEoi(l)' = {}
      OBVIOUS
    <3>1. \A i : BeforeEoi(l)' = {i} => i \in 1..depth'
      BY <1>5, WaitersNext
    <3> QED  BY <1>10, <2>1, <3>1 DEF SInv, InServiceExact
  <2> QED  BY <2>1, <2>2 DEF SInv, InServiceExact
<1>12. GatesFilled'
  <2>1. \A i \in 1..(depth - 1) : i \in 1..depth
    BY <1>2
  <2> QED  BY <1>3, <1>4, <2>1 DEF SInv, GatesFilled, Iret
<1>13. TurnExact' /\ GateBeforeLine'
  BY <1>6 DEF SInv, TurnExact, GateBeforeLine, Unmasked, Suspended, Iret, pic, turn
<1>14. Registers'
  BY <1>1 DEF SInv, Registers, Iret, TopKnown, Frames, pic, rtc, turn
<1>15. depth' \in 1..MaxNest
  BY <1>2, <1>4, MaxNestAssumption DEF SInv
<1> QED  BY <1>5, <1>8, <1>9, <1>11, <1>12, <1>13, <1>14, <1>15 DEF SInv

(* A program runs with interrupts enabled, and alone on the stack.         *)
LEMMA UserOpen ==
    ASSUME SInv, At("user")
    PROVE  depth = 1 /\ top.code = "user" /\ IF_flag /\ Suspended(top)
<1>1. TopKnown /\ top.code = "user"
  BY AtInstruction, CodeNames DEF TopKnown, Listed
<1>2. ~Disabled(top.code, top.pc) /\ Suspended(top)
  BY <1>1 DEF Disabled, Suspended
<1> QED  BY <1>1, <1>2 DEF TopKnown, SInv, FlagExact

(* int 0x80.                                                               *)
LEMMA CallKeeps ==
    ASSUME SInv, NEW c \in SystemCalls, SystemCall(c)
    PROVE  SInv'
<1>1. depth = 1 /\ IF_flag /\ Suspended(top)
  BY UserOpen DEF SystemCall
<1> DEFINE f == Frame(c, IF_flag)
<1>2. f \in Frames /\ f.code = c /\ f.pc = 1 /\ f.flags
  BY <1>1, CodeNames DEF Frame, Frames, SystemCalls
<1>3. stack' = Append(stack, f)
  BY DEF SystemCall
<1> HIDE DEF f
<1>4. /\ StackShape' /\ FlagExact'
      /\ depth' = depth + 1
      /\ top'.code = c /\ top'.pc = 1
      /\ \A i \in 1..depth : stack'[i] = stack[i]
  BY <1>1, <1>2, <1>3, PushShape DEF SInv, SystemCall
<1>5. RegisterSelected' /\ GatesFilled' /\ TurnExact'
  BY <1>4, PushRest DEF SInv, SystemCall, turn
<1>6. \A l \in Lines : BeforeEoi(l)' = BeforeEoi(l)
  <2> SUFFICES ASSUME NEW l \in Lines PROVE BeforeEoi(l)' = BeforeEoi(l)
    OBVIOUS
  <2>1. stack'[2].code = c
    BY <1>1, <1>4 DEF top
  <2>2. c # Handler(l)
    BY DEF SystemCalls, Handler
  <2>3. \A i \in 1..2 : i = 2 \/ i \in 1..1
    OBVIOUS
  <2>4. {i \in 1..2 : Waiting(stack'[i], l)} = {i \in 1..1 : Waiting(stack[i], l)}
    BY <1>1, <1>4, <2>1, <2>2, <2>3 DEF Waiting
  <2> QED  BY <1>1, <1>4, <2>4, Waiters, WaitersNext DEF SInv
<1>7. InServiceExact'
  BY <1>1, <1>4, <1>6 DEF SInv, InServiceExact, SystemCall, pic
<1>8. Registers' /\ GateBeforeLine'
  BY DEF SInv, Registers, GateBeforeLine, Unmasked, SystemCall, pic, rtc, turn
<1>9. depth' \in 1..MaxNest
  BY <1>1, <1>4, MaxNestAssumption
<1> QED  BY <1>4, <1>5, <1>7, <1>8, <1>9 DEF SInv

(* An interrupt: its line comes into service.  It finds pit_handler only   *)
(* when that is done.                                                      *)
LEMMA InterruptKeeps ==
    ASSUME SInv, NEW l \in Lines, Interrupt(l)
    PROVE  SInv'
<1> USE DEF PIT_IRQ, KBD_IRQ, RTC_IRQ, IRQSEQ
<1>1. TopKnown /\ StackShape /\ IF_flag /\ depth < MaxNest
  BY TopFrame DEF SInv, Interrupt
<1>2. \A b \in isr_master : Master(l) < b
  BY DEF Interrupt, Deliverable
<1>3. Master(l) \in 0..2 /\ Master(l) \notin isr_master
  BY <1>2 DEF Master, Lines
<1>4. Suspended(top)
  <2>1. ~Disabled(top.code, top.pc)
    BY <1>1 DEF SInv, FlagExact
  <2>2. ASSUME top.code = "pit_handler" PROVE top.pc = 9
    <3>1. ~Waiting(stack[depth], PIT_IRQ)
      <4> SUFFICES ASSUME Waiting(stack[depth], PIT_IRQ) PROVE FALSE
        OBVIOUS
      <4>1. depth \in BeforeEoi(PIT_IRQ) /\ PIT_IRQ \in Lines
        BY <1>1, Waiters DEF TopKnown, Lines
      <4>2. 0 \in isr_master
        BY <4>1 DEF SInv, InServiceExact, Master, Lines
      <4> QED  BY <1>2, <1>3, <4>2
    <3>2. top.pc > 4
      BY <1>1, <2>2, <3>1 DEF Waiting, TopKnown, Handler, EoiAt
    <3>3. top.pc <= 9
      <4>1. top.pc <= Len(Code["pit_handler"]) + 1
        BY <1>1, <2>2 DEF StackShape, TopKnown
      <4> QED  BY <4>1, Lengths
    <3> QED  BY <1>1, <2>1, <2>2, <3>2, <3>3 DEF Disabled, TopKnown
  <2> QED  BY <2>1, <2>2 DEF Suspended
<1> DEFINE f == Frame(Handler(l), IF_flag)
<1>5. Handler(l) \in Handlers
  BY DEF Handler, Handlers
<1>6. f \in Frames /\ f.code = Handler(l) /\ f.pc = 1 /\ f.flags
  BY <1>1, <1>5, CodeNames DEF Frame, Frames, Handlers
<1>7. stack' = Append(stack, f)
  BY DEF Interrupt
<1> HIDE DEF f
<1>8. /\ StackShape' /\ FlagExact'
      /\ depth' = depth + 1
      /\ top'.code = Handler(l) /\ top'.pc = 1
      /\ \A i \in 1..depth : stack'[i] = stack[i]
  <2>1. Handler(l) \notin SystemCalls
    BY <1>5 DEF Handlers, SystemCalls
  <2> QED  BY <1>1, <1>4, <1>5, <1>6, <1>7, <2>1, PushShape DEF SInv, Interrupt
<1>9. RegisterSelected' /\ GatesFilled' /\ TurnExact'
  BY <1>1, <1>5, <1>8, PushRest DEF SInv, Interrupt, turn
<1>10. \A i \in 1..(depth + 1) : i \in 1..depth \/ i = depth + 1
  BY <1>1 DEF TopKnown
<1>11. \A i \in 1..depth : i \in 1..(depth + 1) /\ i # depth + 1
  BY <1>1 DEF TopKnown
<1>12. depth + 1 \in 1..(depth + 1) /\ stack'[depth + 1].code = Handler(l) /\ stack'[depth + 1].pc = 1
  BY <1>1, <1>8 DEF TopKnown, top
<1>13. BeforeEoi(l)' = {depth + 1}
  <2>1. \A i \in 1..depth : ~Waiting(stack[i], l)
    BY <1>1, <1>3, Waiters DEF SInv, InServiceExact
  <2>2. Waiting(stack'[depth + 1], l)
    BY <1>12 DEF Waiting, EoiAt
  <2>3. {i \in 1..(depth + 1) : Waiting(stack'[i], l)} = {depth + 1}
    BY <1>8, <1>10, <1>12, <2>1, <2>2
  <2> QED  BY <1>8, <2>3, WaitersNext
<1>14. ASSUME NEW k \in Lines, k # l
       PROVE  BeforeEoi(k)' = BeforeEoi(k)
  <2>1. Handler(k) # Handler(l)
    BY <1>14 DEF Handler, Lines
  <2>2. {i \in 1..(depth + 1) : Waiting(stack'[i], k)} = {i \in 1..depth : Waiting(stack[i], k)}
    BY <1>8, <1>10, <1>11, <1>12, <2>1 DEF Waiting
  <2> QED  BY <1>1, <1>8, <2>2, Waiters, WaitersNext
<1>15. InServiceExact'
  <2>1. isr_master' = isr_master \cup {Master(l)}
    BY DEF Interrupt
  <2>2. \A k \in Lines : IF Master(k) \in isr_master'
                         THEN \E i \in 1..depth' : BeforeEoi(k)' = {i}
                         ELSE BeforeEoi(k)' = {}
    <3> SUFFICES ASSUME NEW k \in Lines
                 PROVE  IF Master(k) \in isr_master'
                        THEN \E i \in 1..depth' : BeforeEoi(k)' = {i}
                        ELSE BeforeEoi(k)' = {}
      OBVIOUS
    <3>1. CASE k = l
      BY <1>8, <1>12, <1>13, <2>1, <3>1
    <3>2. CASE k # l
      <4>1. Master(k) # Master(l)
        BY <3>2 DEF Master, Lines
      <4>2. Master(k) \in isr_master' <=> Master(k) \in isr_master
        BY <2>1, <4>1
      <4>3. IF Master(k) \in isr_master
            THEN \E i \in 1..depth : BeforeEoi(k) = {i}
            ELSE BeforeEoi(k) = {}
        BY DEF SInv, InServiceExact
      <4> QED  BY <1>8, <1>11, <1>14, <3>2, <4>2, <4>3
    <3> QED  BY <3>1, <3>2
  <2>3. 0 \in isr_slave' <=> 2 \in isr_master'
    BY DEF SInv, InServiceExact, Interrupt, Master, Lines
  <2> QED  BY <2>2, <2>3 DEF InServiceExact
<1>16. Registers'
  <2>1. isr_master' \subseteq Bits /\ isr_slave' \subseteq Bits
    <3>1. isr_master' = isr_master \cup {Master(l)} /\ isr_slave' \subseteq isr_slave \cup {0}
      BY DEF Interrupt, Lines
    <3>2. 0 \in Bits /\ Master(l) \in Bits
      BY <1>3 DEF Bits
    <3> QED  BY <3>1, <3>2 DEF SInv, Registers
  <2>2. irr' \subseteq Lines
    BY DEF SInv, Registers, Interrupt
  <2> QED  BY <2>1, <2>2 DEF SInv, Registers, Interrupt, rtc, turn
<1>17. GateBeforeLine'
  BY DEF SInv, GateBeforeLine, Unmasked, Interrupt
<1>18. depth' \in 1..MaxNest
  BY <1>1, <1>8, MaxNestAssumption DEF TopKnown
<1> QED  BY <1>8, <1>9, <1>15, <1>16, <1>17, <1>18 DEF SInv

(* The devices only raise requests.                                        *)
LEMMA DeviceKeeps ==
    ASSUME IInv, PitTick \/ RtcTick \/ Key
    PROVE  IInv' /\ UNCHANGED turn
<1>1. SInv /\ burst \in [Lines -> 0..MaxBurst]
  BY SInvIInv
<1>2. PICK l \in Lines : Request(l)
  BY DEF PitTick, RtcTick, Key, Lines
<1>3. burst' \in [Lines -> 0..MaxBurst]
  BY <1>1, <1>2, MaxBurstAssumption DEF Request
<1>4. irr' \subseteq Lines /\ rtc_irqf' \in BOOLEAN /\ kbd_full' \in BOOLEAN
  BY <1>1, <1>2 DEF SInv, Registers, Request, PitTick, RtcTick, Key
<1>5. SInv'
  BY <1>1, <1>2, <1>4, StutterKeeps DEF Request
<1> QED  BY <1>2, <1>3, <1>5, SInvIInvNext DEF Request

(* Every instruction keeps the invariant.                                  *)
LEMMA StepKeeps ==
    ASSUME SInv, Step
    PROVE  SInv' /\ next_exec_term' \in {next_exec_term, (next_exec_term + 1) % 3}
<1>1. CASE LoadTurn \/ StoreTurn \/ GiveTurn
  BY <1>1, TurnKeeps
<1>2. CASE ChangeFlag
  BY <1>2, ChangeFlagKeeps DEF ChangeFlag, turn
<1>3. CASE InsertIdt
  BY <1>3, InsertIdtKeeps DEF InsertIdt, turn
<1>4. CASE enable_irq
  BY <1>4, EnableKeeps DEF enable_irq, turn
<1>5. CASE send_eoi
  BY <1>5, EoiKeeps DEF send_eoi, turn
<1>6. CASE SelectRegister
  BY <1>6, SelectKeeps DEF SelectRegister, turn
<1>7. CASE RtcData \/ ReadScancode \/ Signal \/ Spin
  BY <1>7, DevicesKeep DEF RtcData, ReadScancode, Signal, Spin, turn
<1>8. CASE Iret
  BY <1>8, IretKeeps DEF Iret, turn
<1>9. CASE User
  BY <1>9, StutterKeeps DEF User, SInv, Registers, pic, rtc, turn
<1>10. ASSUME NEW c \in SystemCalls, SystemCall(c)
       PROVE  SInv' /\ next_exec_term' = next_exec_term
  BY <1>10, CallKeeps DEF SystemCall, turn
<1>11. CASE PushFlags \/ ExecuteFails
  BY <1>11, FlagsKeep DEF PushFlags, ExecuteFails, turn
<1> QED  BY <1>1, <1>2, <1>3, <1>4, <1>5, <1>6, <1>7, <1>8, <1>9, <1>10, <1>11 DEF Step

(* The invariant holds where the model starts, after i8259_init.           *)
LEMMA InitIInv == Init => IInv
<1> SUFFICES ASSUME Init PROVE IInv
  OBVIOUS
<1> DEFINE f == Frame("user", FALSE)
           g == Frame("entry", FALSE)
<1>1. f \in Frames /\ f.code = "user" /\ f.pc = 1
  BY CodeNames DEF Frame, Frames
<1>2. g \in Frames /\ g.code = "entry" /\ g.pc = 1
  BY CodeNames DEF Frame, Frames
<1>3. stack = <<f, g>>
  BY DEF Init
<1> HIDE DEF f, g
<1>4. stack \in Seq(Frames) /\ depth = 2 /\ stack[1] = f /\ stack[2] = g /\ top = g
  BY <1>1, <1>2, <1>3 DEF depth, top
<1>5. \A i \in 1..2 : i = 1 \/ i = 2
  OBVIOUS
<1>6. StackShape
  <2>1. f.pc <= Len(Code[f.code]) + 1 /\ g.pc <= Len(Code[g.code]) + 1
    BY <1>1, <1>2, Lengths
  <2>2. \A i \in 1..2 : Restores(stack[i])
    <3>1. Restores(f) /\ Restores(g)
      BY <1>1, <1>2 DEF Restores
    <3> QED  BY <1>4, <1>5, <3>1, Zenon
  <2>3. \A i \in 1..2 : stack[i].pc <= Len(Code[stack[i].code]) + 1
    BY <1>4, <1>5, <2>1, Zenon
  <2>4. \A i \in 2..2 : stack[i].code # "user"
    BY <1>2, <1>4
  <2>5. \A i \in 3..2 : stack[i].code \in Handlers
    OBVIOUS
  <2> QED  BY <1>1, <1>4, <2>2, <2>3, <2>4, <2>5 DEF StackShape
<1>7. FlagExact
  <2>1. IF_flag = ~Disabled(top.code, top.pc)
    BY <1>2, <1>4 DEF Init, Disabled
  <2>2. Suspended(stack[1])
    BY <1>1, <1>4 DEF Suspended, Disabled
  <2> QED  BY <1>4, <2>1, <2>2 DEF FlagExact
<1>8. \A l \in Lines : BeforeEoi(l) = {}
  <2> SUFFICES ASSUME NEW l \in Lines PROVE BeforeEoi(l) = {}
    OBVIOUS
  <2>1. f.code # Handler(l) /\ g.code # Handler(l)
    BY <1>1, <1>2 DEF Handler
  <2>2. \A i \in 1..2 : ~Waiting(stack[i], l)
    BY <1>4, <1>5, <2>1 DEF Waiting
  <2> QED  BY <1>4, <1>6, <2>2, Waiters
<1>9. InServiceExact
  BY <1>8 DEF InServiceExact, Init
<1>10. RegisterSelected
  <2>1. ~AtEnd => OpName = "sti"
    BY <1>2, <1>4, <1>6, TopFrame DEF TopKnown, Listed
  <2> QED  BY <2>1 DEF RegisterSelected, At, OpName
<1>11. GatesFilled
  <2>1. \A i \in 1..2 : stack[i].pc = 1
    BY <1>1, <1>2, <1>4, <1>5
  <2>2. PIT_IRQ \in present
    BY DEF Init
  <2> QED  BY <1>4, <2>1, <2>2 DEF GatesFilled
<1>12. GateBeforeLine
  BY DEF GateBeforeLine, Init, Unmasked, Master, Bits, Lines, PIT_IRQ, KBD_IRQ, RTC_IRQ, IRQSEQ
<1>13. TurnExact
  BY <1>2, <1>4 DEF TurnExact, Init
<1>14. Registers
  <2>1. 0 \in 0..3 /\ 0 \in 0..2
    OBVIOUS
  <2> QED  BY <2>1, Zenon DEF Registers, Init, Lines
<1>15. depth \in 1..MaxNest
  BY <1>4, MaxNestAssumption
<1>16. burst \in [Lines -> 0..MaxBurst]
  BY MaxBurstAssumption DEF Init
<1> QED
  BY <1>6, <1>7, <1>9, <1>10, <1>11, <1>12, <1>13, <1>14, <1>15, <1>16, SInvIInv DEF SInv

(* Every step keeps it, and gives the turn to the next terminal if to any. *)
LEMMA NextIInv ==
    ASSUME IInv, [Next]_vars
    PROVE  IInv' /\ next_exec_term' \in {next_exec_term, (next_exec_term + 1) % 3}
<1>1. SInv /\ burst \in [Lines -> 0..MaxBurst]
  BY SInvIInv
<1>2. CASE Instruction
  <2>1. burst' \in [Lines -> 0..MaxBurst]
    BY <1>1, <1>2, MaxBurstAssumption DEF Instruction
  <2> QED  BY <1>1, <1>2, <2>1, StepKeeps, SInvIInvNext DEF Instruction
<1>3. ASSUME NEW l \in Lines, Interrupt(l)
      PROVE  IInv' /\ next_exec_term' = next_exec_term
  BY <1>1, <1>3, InterruptKeeps, SInvIInvNext DEF Interrupt, turn
<1>4. CASE PitTick \/ RtcTick \/ Key
  BY <1>4, DeviceKeeps DEF turn
<1>5. CASE UNCHANGED vars
  <2>1. SInv'
    BY <1>1, <1>5, StutterKeeps DEF vars, pic, rtc, turn, SInv, Registers
  <2> QED  BY <1>1, <1>5, <2>1, SInvIInvNext DEF vars, turn
<1> QED  BY <1>2, <1>3, <1>4, <1>5 DEF Next

-----------------------------------------------------------------------------
(* The inductive invariant of controllers, handlers and interrupted code.  *)
THEOREM InterruptInvariance == Spec => []IInv
<1>1. IInv /\ [Next]_vars => IInv'
  BY NextIInv
<1> QED  BY <1>1, InitIInv, PTL DEF Spec

(* Masks, in-service bits, stack, turn and counters stay in their ranges,  *)
(* however deep handlers nest: a system call never needs more stack than   *)
(* the nesting is bounded by.                                              *)
THEOREM InterruptTypes == Spec => []TypeOK
  BY InterruptInvariance, PTL DEF IInv

(* A line is in service exactly when one handler of it is before its EOI   *)
(* (send_eoi, i8259.c).                                                    *)
THEOREM ServiceCorrect == Spec => []InServiceExact
  BY InterruptInvariance, PTL DEF IInv

(* Every access to the RTC's data port reaches the register its code       *)
(* selected (rtc.c).                                                       *)
THEOREM RtcAccessCorrect == Spec => []RegisterSelected
  BY InterruptInvariance, PTL DEF IInv

(* No line is opened before its gate is present (enable_irq, insert_idt).  *)
THEOREM GatesCorrect == Spec => []GateBeforeLine
  BY InterruptInvariance, PTL DEF IInv

(* A program runs with interrupts enabled: execute or's IF into the flags  *)
(* it pushes for a new program, and its error paths, the other system      *)
(* calls and the handlers return with those of what they interrupted.      *)
THEOREM ProgramsInterruptible == Spec => []UserInterruptible
<1>1. IInv => UserInterruptible
  BY DEF IInv, FlagExact, UserInterruptible, Disabled
<1> QED  BY <1>1, InterruptInvariance, PTL

(* pit_handler gives the turn from each terminal to the next, however      *)
(* ticks nest.                                                             *)
THEOREM TurnCorrect == Spec => TurnRotates
<1>1. IInv /\ [Next]_vars => [next_exec_term' \in {next_exec_term, (next_exec_term + 1) % 3}]_vars
  BY NextIInv
<1> QED  BY <1>1, InterruptInvariance, PTL DEF Spec, TurnRotates
=============================================================================
