------------------------------ MODULE Interrupts ------------------------------
(***************************************************************************)
(* Interrupts: the two 8259 controllers (i8259.c), the gates of the IDT    *)
(* (idt.c, intr_util.c), the handlers of the PIT (schedule.c), the         *)
(* keyboard (dev_kbd.c) and the RTC (rtc.c) with their wrappers, and the   *)
(* kernel code that competes with them: the boot sequence of kernel.c, the *)
(* RTC's read and write, and execute, which runs with interrupts off.      *)
(*                                                                         *)
(* The gates are trap gates, so entering a handler leaves IF set, and      *)
(* every handler sends its EOI before it returns: handlers nest, on entry  *)
(* before their cli and again after their sti.  What each piece of code    *)
(* does to the state shared here is a sequence of instructions, and an     *)
(* interrupt may arrive before any of them.  What a handler does to other  *)
(* state (the keyboard's line, the screen) is left out.                    *)
(***************************************************************************)
EXTENDS Integers, Sequences

CONSTANTS
    MaxNest,   \* bound: frames on the kernel stack
    MaxBurst   \* requests of a device between two steps of what it interrupts

ASSUME MaxNestAssumption == MaxNest \in Nat \ {0, 1, 2}
ASSUME MaxBurstAssumption == MaxBurst \in Nat \ {0}

VARIABLES
    IF_flag,         \* EFLAGS.IF
    stack,           \* what is running, over what it interrupted or was called by
    present,         \* lines whose gate is present and names the line's handler
    master_mask, slave_mask,    \* masked inputs, as sets of bits
    irr,             \* lines requested and not yet taken
    isr_master, isr_slave,      \* inputs in service, as sets of bits
    rtc_index,       \* register the RTC's address port selects
    rtc_pie,         \* the RTC's periodic interrupt is enabled
    rtc_irqf,        \* register C: an interrupt was raised and C not read since
    kbd_full,        \* the keyboard controller holds a scancode
    burst,           \* each device's requests since code that is no handler ran
    next_interrupt, curr_exec_term, next_exec_term

pic == <<master_mask, slave_mask, irr, isr_master, isr_slave>>
rtc == <<rtc_index, rtc_pie, rtc_irqf>>
turn == <<curr_exec_term, next_exec_term>>
vars == <<IF_flag, stack, present, pic, rtc, kbd_full, next_interrupt, turn, burst>>

-----------------------------------------------------------------------------
PIT_IRQ == 0
KBD_IRQ == 1
RTC_IRQ == 8
Lines == {PIT_IRQ, KBD_IRQ, RTC_IRQ}
IRQSEQ == 8
Bits == 0..7

(* The code.  An instruction is a pair: what is done, and to what.         *)

cli == <<"cli", 0>>
sti == <<"sti", 0>>

(* Mutation: the interrupt flag is left alone.                             *)
pit_handler_open ==
    << <<"load", 0>>, <<"mod3", 0>>,
       <<"eoi", PIT_IRQ>>, <<"next", 0>>, <<"load", 0>>, <<"inc", 0>>, sti >>

(* curr_exec_term%3 comes before the cli, the EOI before the turn is given *)
(* to the next terminal.                                                   *)
pit_handler ==
    << <<"load", 0>>, <<"mod3", 0>>, cli,
       <<"eoi", PIT_IRQ>>, <<"next", 0>>, <<"load", 0>>, <<"inc", 0>>, sti >>

(* Mutation: the EOI is forgotten.                                         *)
kbd_intr_handler_no_eoi == << cli, <<"inb", 0>>, sti >>

kbd_intr_handler == << cli, <<"inb", 0>>, <<"eoi", KBD_IRQ>>, sti >>

(* Mutation: register C is not read.                                       *)
rtc_handler_skips_C == << cli, <<"signal", 1>>, <<"eoi", RTC_IRQ>>, sti >>

rtc_handler ==
    << cli, <<"signal", 1>>, <<"select", "C">>, <<"in", "C">>,
       <<"eoi", RTC_IRQ>>, sti >>

rtc_init ==
    << cli, <<"signal", 0>>, <<"select", "B">>, <<"in", "B">>,
       <<"select", "B">>, <<"out", "B">>,
       <<"insert_idt", RTC_IRQ>>, <<"enable_irq", RTC_IRQ>>, sti >>

(* Mutation: interrupts stay enabled.                                      *)
rtc_write_open ==
    << <<"select", "A">>, <<"in", "A">>, <<"select", "A">>, <<"out", "A">>,
       <<"eoi", RTC_IRQ>> >>

rtc_write ==
    << cli, <<"select", "A">>, <<"in", "A">>, <<"select", "A">>, <<"out", "A">>,
       <<"eoi", RTC_IRQ>>, sti >>

rtc_read == << <<"signal", 0>>, <<"spin", 0>> >>

init_pit == << <<"enable_irq", PIT_IRQ>> >>

(* Mutation: the line is opened first.                                     *)
kbd_init_enables_first ==
    << <<"enable_irq", KBD_IRQ>>, <<"insert_idt", KBD_IRQ>> >>

kbd_init == << <<"insert_idt", KBD_IRQ>>, <<"enable_irq", KBD_IRQ>> >>

(* EFLAGS.IF, as a mask.                                                   *)
IF_MASK == 512

(* Mutation: the flag is not set in the flags that are pushed.             *)
execute_without_orl == << cli, <<"pushf", 0>> >>

(* execute never enables interrupts itself: it pushes the flags, with IF   *)
(* or'ed in, for the iret that starts the program.                         *)
execute == << cli, <<"pushf", IF_MASK>> >>

(* entry, from the sti after i8259_init on: rtc_open, init_pit and         *)
(* kbd_init, which ends in execute("shell").                               *)
entry == << sti >> \o rtc_init \o rtc_write \o init_pit \o kbd_init \o execute

Code == [entry |-> entry, pit_handler |-> pit_handler,
         kbd_intr_handler |-> kbd_intr_handler, rtc_handler |-> rtc_handler,
         rtc_read |-> rtc_read, rtc_write |-> rtc_write, execute |-> execute,
         user |-> << <<"user", 0>> >>]

SystemCalls == {"rtc_read", "rtc_write", "execute"}

-----------------------------------------------------------------------------
(* pc of code; flags is the IF that the frame's iret will pop, reg a       *)
(* register that pit_handler loads curr_exec_term into.                    *)
Frame(code, flags) == [code |-> code, pc |-> 1, flags |-> flags, reg |-> 0]

depth == Len(stack)
top == stack[depth]
AtEnd == top.pc > Len(Code[top.code])
At(op) == ~AtEnd /\ Code[top.code][top.pc][1] = op
Operand == Code[top.code][top.pc][2]

Advance == stack' = [stack EXCEPT ![depth].pc = @ + 1]

Master(l) == IF l >= IRQSEQ THEN 2 ELSE l

(* i8259_init has masked every line.  init_idt has filled the PIT's gate,  *)
(* and no other device's.  Nothing was interrupted by entry: the flags its *)
(* iret pops are those execute pushes.                                     *)
Init ==
    /\ IF_flag = FALSE
    /\ stack = << Frame("user", FALSE), Frame("entry", FALSE) >>
    /\ present = {PIT_IRQ}
    /\ master_mask = Bits /\ slave_mask = Bits
    /\ irr = {} /\ isr_master = {} /\ isr_slave = {}
    /\ rtc_index = "A" /\ rtc_pie = FALSE /\ rtc_irqf = FALSE
    /\ kbd_full = FALSE
    /\ burst = [l \in Lines |-> 0]
    /\ next_interrupt = 0
    /\ curr_exec_term = 0 /\ next_exec_term = 0

-----------------------------------------------------------------------------
(* The instructions.  One is executed only when no interrupt is to be      *)
(* taken; the first one that is not a handler's ends a burst.              *)

ChangeFlag ==
    /\ At("cli") \/ At("sti")
    /\ IF_flag' = At("sti")
    /\ Advance
    /\ UNCHANGED <<present, pic, rtc, kbd_full, next_interrupt, turn>>

InsertIdt ==
    /\ At("insert_idt")
    /\ present' = present \cup {Operand}
    /\ Advance
    /\ UNCHANGED <<IF_flag, pic, rtc, kbd_full, next_interrupt, turn>>

enable_irq ==
    /\ At("enable_irq")
    /\ master_mask' = master_mask \ {Master(Operand)}
    /\ slave_mask' = IF Operand >= IRQSEQ THEN slave_mask \ {Operand % 8} ELSE slave_mask
    /\ Advance
    /\ UNCHANGED <<IF_flag, present, irr, isr_master, isr_slave, rtc, kbd_full,
                   next_interrupt, turn>>

(* The specific end of interrupt, to the slave and then to the master.     *)
send_eoi ==
    /\ At("eoi")
    /\ isr_master' = isr_master \ {Master(Operand)}
    /\ isr_slave' = IF Operand >= IRQSEQ THEN isr_slave \ {Operand - IRQSEQ} ELSE isr_slave
    /\ Advance
    /\ UNCHANGED <<IF_flag, present, master_mask, slave_mask, irr, rtc, kbd_full,
                   next_interrupt, turn>>

SelectRegister ==
    /\ At("select")
    /\ rtc_index' = Operand
    /\ Advance
    /\ UNCHANGED <<IF_flag, present, pic, rtc_pie, rtc_irqf, kbd_full,
                   next_interrupt, turn>>

(* The register that is accessed is the one selected last, by whomever.    *)
RtcData ==
    /\ At("in") \/ At("out")
    /\ rtc_pie' = (rtc_pie \/ (At("out") /\ rtc_index = "B"))
    /\ rtc_irqf' = (rtc_irqf /\ ~(At("in") /\ rtc_index = "C"))
    /\ Advance
    /\ UNCHANGED <<IF_flag, present, pic, rtc_index, kbd_full, next_interrupt, turn>>

ReadScancode ==
    /\ At("inb")
    /\ kbd_full' = FALSE
    /\ Advance
    /\ UNCHANGED <<IF_flag, present, pic, rtc, next_interrupt, turn>>

Signal ==
    /\ At("signal")
    /\ next_interrupt' = Operand
    /\ Advance
    /\ UNCHANGED <<IF_flag, present, pic, rtc, kbd_full, turn>>

(* while(next_interrupt == 0);                                             *)
Spin ==
    /\ At("spin")
    /\ IF next_interrupt = 0 THEN UNCHANGED stack ELSE Advance
    /\ UNCHANGED <<IF_flag, present, pic, rtc, kbd_full, next_interrupt, turn>>

(* A uint8_t in memory is loaded, changed and stored.                      *)
LoadTurn ==
    /\ At("load")
    /\ stack' = [stack EXCEPT ![depth].pc = @ + 1, ![depth].reg = curr_exec_term]
    /\ UNCHANGED <<IF_flag, present, pic, rtc, kbd_full, next_interrupt, turn>>

StoreTurn ==
    /\ At("mod3") \/ At("inc")
    /\ curr_exec_term' = IF At("mod3") THEN top.reg % 3 ELSE (top.reg + 1) % 256
    /\ Advance
    /\ UNCHANGED <<IF_flag, present, pic, rtc, kbd_full, next_interrupt, next_exec_term>>

GiveTurn ==
    /\ At("next")
    /\ next_exec_term' = curr_exec_term
    /\ Advance
    /\ UNCHANGED <<IF_flag, present, pic, rtc, kbd_full, next_interrupt, curr_exec_term>>

(* pushf; popl; orl; pushl: the flags that execute's own iret pops.        *)
PushFlags ==
    /\ At("pushf")
    /\ stack' = [stack EXCEPT ![depth].pc = @ + 1,
                             ![depth].flags = IF_flag \/ Operand = IF_MASK]
    /\ UNCHANGED <<IF_flag, present, pic, rtc, kbd_full, next_interrupt, turn>>

(* execute returns -1 after its cli, through the system call, whose flags  *)
(* it leaves alone.  (Before the cli it changes nothing of this state.)    *)
ExecuteFails ==
    /\ top.code = "execute"
    /\ At("pushf")
    /\ Advance
    /\ UNCHANGED <<IF_flag, present, pic, rtc, kbd_full, next_interrupt, turn>>

(* The iret of a wrapper, of the system call, or of execute.               *)
Iret ==
    /\ AtEnd
    /\ stack' = SubSeq(stack, 1, depth - 1)
    /\ IF_flag' = top.flags
    /\ UNCHANGED <<present, pic, rtc, kbd_full, next_interrupt, turn>>

(* The program itself.                                                     *)
User ==
    /\ At("user")
    /\ UNCHANGED <<IF_flag, stack, present, pic, rtc, kbd_full, next_interrupt, turn>>

(* int 0x80 is a trap gate, too.                                           *)
SystemCall(c) ==
    /\ At("user")
    /\ stack' = Append(stack, Frame(c, IF_flag))
    /\ UNCHANGED <<IF_flag, present, pic, rtc, kbd_full, next_interrupt, turn>>

-----------------------------------------------------------------------------
(* The devices.                                                            *)

Handler(l) == IF l = PIT_IRQ THEN "pit_handler"
              ELSE IF l = KBD_IRQ THEN "kbd_intr_handler"
              ELSE "rtc_handler"

(* Neither the line's own bit nor the cascade is masked.                   *)
Unmasked(l) ==
    /\ Master(l) \notin master_mask
    /\ l >= IRQSEQ => (l - IRQSEQ) \notin slave_mask

(* A request passes if nothing of its own or a higher priority is in       *)
(* service.                                                                *)
Deliverable(l) ==
    /\ l \in irr
    /\ Unmasked(l)
    /\ \A b \in isr_master : Master(l) < b
    /\ l >= IRQSEQ => isr_slave = {}

Interrupt(l) ==
    /\ IF_flag
    /\ depth < MaxNest
    /\ Deliverable(l)
    /\ \A k \in Lines : Deliverable(k) => Master(l) <= Master(k)
    /\ irr' = irr \ {l}
    /\ isr_master' = isr_master \cup {Master(l)}
    /\ isr_slave' = IF l >= IRQSEQ THEN isr_slave \cup {l - IRQSEQ} ELSE isr_slave
    /\ stack' = Append(stack, Frame(Handler(l), IF_flag))
    /\ UNCHANGED <<IF_flag, present, master_mask, slave_mask, rtc, kbd_full,
                   next_interrupt, turn, burst>>

(* The devices are slow (the PIT's period is 50ms): none of them sends     *)
(* more than MaxBurst requests while handlers keep interrupting the same   *)
(* piece of code.                                                          *)
Request(l) ==
    /\ burst[l] < MaxBurst
    /\ burst' = [burst EXCEPT ![l] = @ + 1]
    /\ irr' = irr \cup {l}
    /\ UNCHANGED <<IF_flag, stack, present, master_mask, slave_mask, isr_master,
                   isr_slave, rtc_index, rtc_pie, next_interrupt, turn>>

(* A tick that finds the previous one still pending is lost.               *)
PitTick ==
    /\ Request(PIT_IRQ)
    /\ UNCHANGED <<rtc_irqf, kbd_full>>

(* The RTC raises no further interrupt until register C is read.           *)
RtcTick ==
    /\ rtc_pie /\ ~rtc_irqf
    /\ rtc_irqf' = TRUE
    /\ Request(RTC_IRQ)
    /\ UNCHANGED kbd_full

(* The keyboard raises no further interrupt until the scancode is read.    *)
Key ==
    /\ ~kbd_full
    /\ kbd_full' = TRUE
    /\ Request(KBD_IRQ)
    /\ UNCHANGED rtc_irqf

Taken(l) == IF_flag /\ depth < MaxNest /\ Deliverable(l)

InHandler == \E l \in Lines : top.code = Handler(l)

Step ==
    \/ ChangeFlag \/ InsertIdt \/ enable_irq \/ send_eoi
    \/ SelectRegister \/ RtcData \/ ReadScancode \/ Signal \/ Spin
    \/ LoadTurn \/ StoreTurn \/ GiveTurn
    \/ PushFlags \/ ExecuteFails \/ Iret \/ User
    \/ \E c \in SystemCalls : SystemCall(c)

Instruction ==
    /\ \A l \in Lines : ~Taken(l)
    /\ Step
    /\ burst' = IF InHandler THEN burst ELSE [l \in Lines |-> 0]

Next ==
    \/ Instruction
    \/ \E l \in Lines : Interrupt(l)
    \/ PitTick \/ RtcTick \/ Key

(* The CPU executes, and the RTC ticks for ever.                           *)
Fairness ==
    /\ WF_vars(Instruction)
    /\ \A l \in Lines : WF_vars(Interrupt(l))
    /\ WF_vars(RtcTick)

Spec == Init /\ [][Next]_vars /\ Fairness

-----------------------------------------------------------------------------
TypeOK ==
    /\ IF_flag \in BOOLEAN
    /\ depth \in 1..MaxNest
    /\ \A i \in 1..depth :
        stack[i] \in [code : DOMAIN Code, pc : Nat, flags : BOOLEAN, reg : 0..3]
    /\ present \subseteq Lines
    /\ master_mask \subseteq Bits /\ slave_mask \subseteq Bits
    /\ irr \subseteq Lines
    /\ isr_master \subseteq Bits /\ isr_slave \subseteq Bits
    /\ rtc_index \in {"A", "B", "C"}
    /\ rtc_pie \in BOOLEAN /\ rtc_irqf \in BOOLEAN /\ kbd_full \in BOOLEAN
    /\ next_interrupt \in {0, 1}
    /\ curr_exec_term \in 0..3 /\ next_exec_term \in 0..2
    /\ burst \in [Lines -> 0..MaxBurst]

(* The frames of handlers of l that have not sent their EOI yet.           *)
BeforeEoi(l) ==
    {i \in 1..depth :
        /\ stack[i].code = Handler(l)
        /\ \A j \in 1..(stack[i].pc - 1) : Code[Handler(l)][j] # <<"eoi", l>>}

(* The controllers and the kernel agree: a line is in service exactly when *)
(* one handler of it, and only one, is still before its EOI.  In           *)
(* particular the EOI that rtc_write sends, which answers no interrupt,    *)
(* ends nobody's service, and no line stays blocked for ever.              *)
InServiceExact ==
    /\ \A l \in Lines : IF Master(l) \in isr_master
                        THEN \E i \in 1..depth : BeforeEoi(l) = {i}
                        ELSE BeforeEoi(l) = {}
    /\ 0 \in isr_slave <=> 2 \in isr_master

(* Every access to the RTC's data port reaches the register its code       *)
(* selected, although rtc_handler selects another one whenever it runs.    *)
RegisterSelected == At("in") \/ At("out") => rtc_index = Operand

(* No line is opened before its gate is present: an interrupt is never     *)
(* turned into a "segment not present" exception, at which the kernel      *)
(* stops.                                                                  *)
GateBeforeLine == \A l \in Lines : Unmasked(l) => l \in present

(* A program always runs with interrupts enabled, although execute         *)
(* disables them and neither starts a program nor returns its errors with  *)
(* an sti: the flags are those it pushed, or those of the system call.     *)
UserInterruptible == top.code = "user" => IF_flag

(* The turn goes from each terminal to the next one and never beyond the   *)
(* last, although a second tick may interrupt the handler of the first     *)
(* after its EOI: next_exec_term is used as an index of term_arr.          *)
TurnRotates ==
    [][next_exec_term' \in {next_exec_term, (next_exec_term + 1) % 3}]_vars

(* A program that waits for the RTC goes on.                               *)
RtcReadReturns == At("spin") ~> top.code = "user"

(* A key pressed once the keyboard's line is open is read.                 *)
KeyServed == kbd_full /\ Unmasked(KBD_IRQ) ~> ~kbd_full
=============================================================================
