------------------------------- MODULE Process -------------------------------
(***************************************************************************)
(* The life cycle of processes: the system calls execute and halt          *)
(* (syscalls.c), the page they map (paging.c), the kernel stack the TSS    *)
(* names, the process control blocks, and the per-terminal program counts, *)
(* which both calls index by term_flag, the terminal now on screen; and    *)
(* the page table through which programs reach video memory, which vidmap  *)
(* and every switch of the terminal write.                                 *)
(*                                                                         *)
(* There is one CPU and no preemption: the newest process runs, every      *)
(* older one is suspended inside its own call of execute.  The only other  *)
(* actor is the keyboard interrupt, which assigns term_flag on Alt-F1/2/3. *)
(* execute disables interrupts before it looks at term_flag and enables    *)
(* them again with the iret that starts the program, so it is one step.    *)
(* halt runs with interrupts enabled (int 0x80 is a trap gate), so it is   *)
(* split wherever it looks at term_flag again, and so does vidmap, which   *)
(* is split at every store.                                                *)
(*                                                                         *)
(* Addresses are the real ones.  A process is named by its slot, the value *)
(* of active_proc when it was started.                                     *)
(***************************************************************************)
EXTENDS Integers

CONSTANTS
    MaxPrograms,  \* programs execute admits at once (6 in the code)
    NumFloor,     \* bound: halt is not explored once a count is this low
    FrameSize,    \* bytes one system call puts on a kernel stack
    Switchable    \* terminals the user switches to

ASSUME MaxProgramsAssumption == MaxPrograms \in 1..6
ASSUME NumFloorAssumption == NumFloor \in Int /\ NumFloor < 0
(* Two frames (halt, and the execute it calls) fit above the PCB.          *)
ASSUME FrameSizeAssumption == FrameSize \in 1..3000

ASSUME SwitchableAssumption == Switchable \subseteq 0..2

VARIABLES
    active_proc,      \* slot of the running process, -1 when there is none
    process_counter,
    term_flag,        \* terminal on screen
    num_program,      \* term_arr[t].num_program
    term_pcb,         \* term_arr[t].term_pcb
    pcb,              \* the PCB stored at KSTACK_TO_PCB(k), for each slot k
    prog_page,        \* physical address page_directory[PROGRAM_IDX] maps
    image,            \* what is loaded in the 4MB page of each slot
    esp0,             \* tss.esp0
    cpu,              \* where the CPU is: see Where
    vid_present,      \* present bit of page_directory at 136MB
    vid_page_table,   \* its entries for the terminals: see Frames
    vid_i,            \* vidmap_helper's i
    suspended         \* the processes inside a call of execute, each with the
                      \* PCB and image it had when it called (auxiliary)

vid == <<vid_present, vid_page_table, vid_i>>
vars == <<active_proc, process_counter, term_flag, num_program, term_pcb,
          pcb, prog_page, image, esp0, cpu, vid, suspended>>

-----------------------------------------------------------------------------
Terms == 0..2
Slots == 0..(MaxPrograms - 1)
NULL == 0

KSTACK_SIZE == 8192
KSTACK_BASE == 8388608 - KSTACK_SIZE
FOUR_MB == 4194304
KERNEL_PHYS_VIRT_MEMO_ADDR == 4194304

KSTACK_TO_PCB(x) == KSTACK_BASE - (x + 1) * KSTACK_SIZE

(* The value execute and halt give tss.esp0 for slot x.                    *)
KernelStackTop(x) == KSTACK_BASE - KSTACK_SIZE * x - 4

(* The mask 0xFFFFE000 clears the low 13 bits of the stack pointer.        *)
get_pcb(esp) == esp - (esp % KSTACK_SIZE)

(* The slot whose PCB is at an address.                                    *)
SlotAt(addr) == ((KSTACK_BASE - addr) \div KSTACK_SIZE) - 1

ProgramPage(n) == KERNEL_PHYS_VIRT_MEMO_ADDR + n * FOUR_MB

(* boot.S sets the kernel's first stack at 8MB, and entry the first esp0.  *)
BootStackTop == KSTACK_BASE + KSTACK_SIZE

(* sizeof(pcb_t); the kernel stack grows down towards it.                  *)
PcbSize == 8 * 16 + 4 + 1024 + 8 * 4

Programs == {"shell", "other"}

(***************************************************************************)
(* "boot"     before kbd_init's execute("shell")                           *)
(* "user"     the running program, or a system call of it that is not halt *)
(* "restart"  in halt, about to start a new shell (line 84)                *)
(* "reexec"   in halt, about to enter execute("shell") (line 85)           *)
(* "return"   in halt, about to go back to the parent (line 87)            *)
(* "blank", "present", "map"  in vidmap                                    *)
(* "lost"     halt jumped to EXEC_RET on a frame of the halted process's   *)
(*            own kernel stack, which its own system calls have reused     *)
(* "astray"   execute failed to load a program and returned to its caller, *)
(*            whose page it has replaced                                   *)
(***************************************************************************)
Where == {"boot", "user", "restart", "reexec", "return", "blank", "present", "map",
          "lost", "astray"}

(* What an entry of the video page table maps: video memory, or something  *)
(* else: nothing (BLANK), or the frame whose number is the first word of a *)
(* saved screen.                                                           *)
Frames == {"VMEM", "other"}

(* The process on whose kernel stack the CPU is, or would be on a system   *)
(* call: halt has already decremented active_proc, and an execute that     *)
(* fails does not take its increment back.                                 *)
Current == IF cpu \in {"restart", "reexec", "return"} THEN active_proc + 1
           ELSE IF cpu = "astray" THEN active_proc - 1 ELSE active_proc

ProgramCount == num_program[0] + num_program[1] + num_program[2]

-----------------------------------------------------------------------------
Init ==
    /\ active_proc = -1
    /\ process_counter = 0
    /\ term_flag = 0
    /\ num_program = [t \in Terms |-> 0]
    /\ term_pcb = [t \in Terms |-> NULL]
    /\ pcb = [k \in Slots |-> [pid |-> 0, parent |-> NULL, esp |-> 0]]
    /\ prog_page = 0
    /\ image = [k \in Slots |-> "none"]
    /\ esp0 = BootStackTop
    /\ cpu = "boot"
    /\ vid_present = 0
    /\ vid_page_table = [t \in Terms |-> "other"]
    /\ vid_i = 0
    /\ suspended = {}

(* execute's first test.                                                   *)
Admitted == ProgramCount < MaxPrograms

(* The slot a new process gets.                                            *)
ChildSlot == active_proc + 1

(* Mutation: a terminal's first program is not recorded.                   *)
AdoptForgetsFirst(t, addr) ==
    IF term_pcb[t] = NULL THEN term_pcb ELSE [term_pcb EXCEPT ![t] = addr]

(* The terminal's newest process; both arms of the NULL test store it.     *)
Adopt(t, addr) == [term_pcb EXCEPT ![t] = addr]

(* execute after its checks: the caller's frame on the kernel stack lies   *)
(* below esp.  Both arms of the NULL test store the same parent pointer.   *)
Start(prog, esp) ==
    LET child == ChildSlot
    IN  /\ active_proc' = child
        /\ process_counter' = process_counter + 1
        /\ num_program' = [num_program EXCEPT ![term_flag] = @ + 1]
        /\ prog_page' = ProgramPage(child)
        /\ image' = [image EXCEPT ![child] = prog]
        /\ pcb' = [pcb EXCEPT ![child] = [pid    |-> child,
                                          parent |-> term_pcb[term_flag],
                                          esp    |-> esp - FrameSize]]
        /\ term_pcb' = Adopt(term_flag, KSTACK_TO_PCB(child))
        /\ esp0' = KernelStackTop(child)
        /\ cpu' = "user"
        /\ UNCHANGED <<term_flag, vid>>

(* kbd_init starts the first shell on the boot stack.                      *)
Boot ==
    /\ cpu = "boot"
    /\ Admitted
    /\ Start("shell", BootStackTop)
    /\ UNCHANGED suspended

(* The process on whose kernel stack a system call runs, as it is when it  *)
(* calls execute.                                                          *)
Caller == LET k == SlotAt(get_pcb(esp0))
          IN  [slot |-> k, pcb |-> pcb[k], image |-> image[k]]

(* Mutation: the limit is not tested.                                      *)
ExecuteUnlimited(prog) ==
    /\ cpu = "user"
    /\ Start(prog, esp0)
    /\ suspended' = suspended \cup {Caller}

(* Mutation: the parent's saved stack pointer is copied to the child.      *)
ExecuteInheritsEsp(prog) ==
    /\ cpu = "user"
    /\ Admitted
    /\ Start(prog, pcb[active_proc].esp + FrameSize)
    /\ suspended' = suspended \cup {Caller}

Execute(prog) ==
    /\ cpu = "user"
    /\ Admitted
    /\ Start(prog, esp0)
    /\ suspended' = suspended \cup {Caller}

(* The load fails after the checks: -1, but the counters stay incremented  *)
(* and the caller finds the half-loaded program at 128MB.  The image of    *)
(* the shell itself is sound.                                              *)
ExecuteLoadFails ==
    LET child == ChildSlot
    IN  /\ cpu = "user"
        /\ Admitted
        /\ active_proc' = child
        /\ process_counter' = process_counter + 1
        /\ num_program' = [num_program EXCEPT ![term_flag] = @ + 1]
        /\ prog_page' = ProgramPage(child)
        /\ image' = [image EXCEPT ![child] = "part"]
        /\ cpu' = "astray"
        /\ UNCHANGED <<term_flag, term_pcb, pcb, esp0, vid, suspended>>

(* -1 for too many programs, or for a name that is no executable: nothing  *)
(* has been changed by then.                                               *)
ExecuteRefused ==
    /\ cpu = "user"
    /\ UNCHANGED vars

(* Mutation: halt goes down two levels where there are two.                *)
HaltTwoLevels ==
    /\ cpu = "user"
    /\ \A t \in Terms : num_program[t] > NumFloor
    /\ active_proc' = IF active_proc > 0 THEN active_proc - 2 ELSE -1
    /\ process_counter' = process_counter - 1
    /\ cpu' = IF \/ pcb[SlotAt(get_pcb(esp0))].parent = NULL
                 \/ active_proc' = -1
                 \/ num_program[term_flag] <= 1
              THEN "restart" ELSE "return"
    /\ UNCHANGED <<term_flag, num_program, term_pcb, pcb, prog_page, image, esp0, vid,
                   suspended>>

(* halt up to its test.  The decrements come before the test.              *)
Halt ==
    /\ cpu = "user"
    /\ \A t \in Terms : num_program[t] > NumFloor
    /\ active_proc' = active_proc - 1
    /\ process_counter' = process_counter - 1
    /\ cpu' = IF \/ pcb[SlotAt(get_pcb(esp0))].parent = NULL
                 \/ active_proc' = -1
                 \/ num_program[term_flag] <= 1
              THEN "restart" ELSE "return"
    /\ UNCHANGED <<term_flag, num_program, term_pcb, pcb, prog_page, image, esp0, vid,
                   suspended>>

(* Mutation: the halted program stays counted.                             *)
HaltRestartStillCounted ==
    /\ cpu = "restart"
    /\ cpu' = "reexec"
    /\ UNCHANGED <<active_proc, process_counter, term_flag, num_program,
                   term_pcb, pcb, prog_page, image, esp0, vid, suspended>>

HaltRestart ==
    /\ cpu = "restart"
    /\ num_program' = [num_program EXCEPT ![term_flag] = @ - 1]
    /\ cpu' = "reexec"
    /\ UNCHANGED <<active_proc, process_counter, term_flag, term_pcb, pcb,
                   prog_page, image, esp0, vid, suspended>>

(* execute("shell") called by halt, below halt's own frame.  That execute  *)
(* cannot refuse is RestartAdmitted.                                       *)
HaltReexec ==
    /\ cpu = "reexec"
    /\ Admitted
    /\ Start("shell", esp0 - FrameSize)
    /\ UNCHANGED suspended

(* The stack pointer that halt loads: the one in the halted process's PCB. *)
ReturnFrame == pcb[SlotAt(get_pcb(esp0))].esp

(* The processes that still wait once the one with its PCB at addr goes on. *)
Waiting(addr) == {s \in suspended : KSTACK_TO_PCB(s.slot) # addr}

(* Mutation: the parent's page is not mapped back.                         *)
HaltReturnKeepsPage ==
    /\ cpu = "return"
    /\ num_program' = [num_program EXCEPT ![term_flag] = @ - 1]
    /\ esp0' = KernelStackTop(active_proc)
    /\ cpu' = IF get_pcb(ReturnFrame) = KSTACK_TO_PCB(active_proc) THEN "user" ELSE "lost"
    /\ suspended' = Waiting(get_pcb(ReturnFrame))
    /\ UNCHANGED <<active_proc, process_counter, term_flag, term_pcb, pcb,
                   prog_page, image, vid>>

(* The rest of halt: the parent's stack and page, and the jump to EXEC_RET *)
(* with the stack pointer saved in the halted process's PCB.  The jump     *)
(* finishes the parent's execute only if that frame is on the parent's     *)
(* stack.                                                                  *)
HaltReturn ==
    /\ cpu = "return"
    /\ num_program' = [num_program EXCEPT ![term_flag] = @ - 1]
    /\ esp0' = KernelStackTop(active_proc)
    /\ prog_page' = ProgramPage(active_proc)
    /\ cpu' = IF get_pcb(ReturnFrame) = KSTACK_TO_PCB(active_proc) THEN "user" ELSE "lost"
    /\ suspended' = Waiting(get_pcb(ReturnFrame))
    /\ UNCHANGED <<active_proc, process_counter, term_flag, term_pcb, pcb,
                   image, vid>>

(* Nothing of this module is known once the kernel runs on a reused frame, *)
(* or a program in a page that is not its own.                             *)
Lost ==
    /\ cpu \in {"lost", "astray"}
    /\ UNCHANGED vars

(* vidmap with a valid pointer: vidmap_helper's loop blanks the table.     *)
vidmap ==
    /\ cpu = "user"
    /\ cpu' = "blank"
    /\ vid_i' = 0
    /\ UNCHANGED <<active_proc, process_counter, term_flag, num_program, term_pcb,
                   pcb, prog_page, image, esp0, vid_present, vid_page_table, suspended>>

VidmapBlank ==
    /\ cpu = "blank"
    /\ vid_page_table' = [vid_page_table EXCEPT ![vid_i] = "other"]
    /\ vid_i' = IF vid_i < 2 THEN vid_i + 1 ELSE 0
    /\ cpu' = IF vid_i < 2 THEN "blank" ELSE "present"
    /\ UNCHANGED <<active_proc, process_counter, term_flag, num_program, term_pcb,
                   pcb, prog_page, image, esp0, vid_present, suspended>>

VidmapPresent ==
    /\ cpu = "present"
    /\ vid_present' = 1
    /\ cpu' = "map"
    /\ UNCHANGED <<active_proc, process_counter, term_flag, num_program, term_pcb,
                   pcb, prog_page, image, esp0, vid_page_table, vid_i, suspended>>

(* VID_MEM_INIT is the first page of its 4MB: entry 0.                     *)
VidmapMap ==
    /\ cpu = "map"
    /\ vid_page_table' = [vid_page_table EXCEPT ![0] = "VMEM"]
    /\ cpu' = "user"
    /\ UNCHANGED <<active_proc, process_counter, term_flag, num_program, term_pcb,
                   pcb, prog_page, image, esp0, vid_present, vid_i, suspended>>

(* Mutation: the terminals are taken the other way round.                  *)
map_termSwapped(new, old) == [vid_page_table EXCEPT ![new] = "other", ![old] = "VMEM"]

(* The old terminal's entry gets the first word of its screen buffer (the  *)
(* content, not the address), the new one's gets video memory.             *)
map_term(new, old) == [vid_page_table EXCEPT ![old] = "other", ![new] = "VMEM"]

(* Alt-F1, Alt-F2 or Alt-F3, a keyboard interrupt, as far as processes see *)
(* it.  The line is open before the first execute, too.                    *)
SwitchTerm(t) ==
    /\ cpu \notin {"lost", "astray"}
    /\ t # term_flag
    /\ term_flag' = t
    /\ vid_page_table' = map_term(t, term_flag)
    /\ UNCHANGED <<active_proc, process_counter, num_program, term_pcb, pcb,
                   prog_page, image, esp0, cpu, vid_present, vid_i, suspended>>

Next ==
    \/ Boot
    \/ \E prog \in Programs : Execute(prog)
    \/ ExecuteRefused
    \/ ExecuteLoadFails
    \/ Halt
    \/ HaltRestart
    \/ HaltReexec
    \/ HaltReturn
    \/ vidmap
    \/ VidmapBlank
    \/ VidmapPresent
    \/ VidmapMap
    \/ Lost
    \/ \E t \in Switchable : SwitchTerm(t)

(* The CPU goes on executing kernel code; programs and the user may stop.  *)
Fairness ==
    /\ WF_vars(Boot)
    /\ WF_vars(HaltRestart)
    /\ WF_vars(HaltReexec)
    /\ WF_vars(HaltReturn)

Spec == Init /\ [][Next]_vars /\ Fairness

-----------------------------------------------------------------------------
PcbAddresses == {KSTACK_TO_PCB(k) : k \in Slots}
Pcbs == [pid : Slots, parent : {NULL} \cup PcbAddresses, esp : Int]
Images == Programs \cup {"none", "part"}

TypeOK ==
    /\ active_proc \in -1..(MaxPrograms - 1)
    /\ process_counter \in 0..MaxPrograms
    /\ term_flag \in Terms
    /\ num_program \in [Terms -> Int]
    /\ term_pcb \in [Terms -> {NULL} \cup PcbAddresses]
    /\ pcb \in [Slots -> Pcbs]
    /\ prog_page \in Int
    /\ image \in [Slots -> Images]
    /\ esp0 \in Int
    /\ cpu \in Where
    /\ vid_present \in {0, 1}
    /\ vid_page_table \in [Terms -> Frames]
    /\ vid_i \in Terms
    /\ suspended \subseteq [slot : Slots, pcb : Pcbs, image : Images]

(* No PCB or kernel stack is in the 4MB that start at addr.                *)
ApartFromStacks(addr) ==
    \A k \in Slots : ~(addr <= KSTACK_TO_PCB(k) /\ KSTACK_TO_PCB(k) < addr + FOUR_MB)

(* All of them are.                                                        *)
AroundStacks(addr) ==
    \A k \in Slots : addr <= KSTACK_TO_PCB(k) /\ KSTACK_TO_PCB(k) + KSTACK_SIZE <= addr + FOUR_MB

(* The three ways the kernel counts programs agree at every step, although *)
(* halt and execute charge whatever terminal is on screen at that moment,  *)
(* so that a single terminal's count may even be negative: active_proc,    *)
(* process_counter and the sum of the num_program that execute compares    *)
(* with its limit.                                                         *)
CountersAgree ==
    /\ process_counter = active_proc + 1
    /\ ProgramCount = active_proc + (IF cpu \in {"restart", "return"} THEN 2 ELSE 1)

(* The shell halt starts in place of the last program of a terminal is     *)
(* never refused by execute's limit, however the screen was switched while *)
(* halt ran: otherwise halt would go on below its call of execute and      *)
(* return to a parent that does not exist.                                 *)
RestartAdmitted == cpu = "reexec" => ProgramCount < MaxPrograms

(* Whatever sequence of execute and halt led here, the running program has *)
(* its own kernel stack in the TSS and the page of its slot at 128MB, and  *)
(* get_pcb on that stack finds its PCB.  The one way to lose the page is   *)
(* an execute whose load fails; stack and PCB are right even then.  The    *)
(* page is apart from every PCB and kernel stack for all programs but the  *)
(* first: its page, from 4MB on, is the kernel's own, where they all lie,  *)
(* though a comment promises "8MB for the first program" (paging.c:70).    *)
ContextOfCurrent ==
    cpu \notin {"boot", "lost"} =>
        /\ Current \in Slots
        /\ get_pcb(esp0) = KSTACK_TO_PCB(Current)
        /\ pcb[SlotAt(get_pcb(esp0))].pid = Current
        /\ cpu # "astray" => prog_page = ProgramPage(Current)
        /\ image[Current] \in Programs
        /\ Current > 0 => ApartFromStacks(prog_page)
        /\ Current = 0 /\ cpu # "astray" => AroundStacks(prog_page)

(* The frame a process will return through is on the stack of the process  *)
(* below it or on its own (after halt restarted it as a shell), above that *)
(* block's PCB: no third process's stack is ever entered.                  *)
SavedFrames ==
    \A k \in 1..(IF cpu = "lost" THEN -1 ELSE Current) :
        \E b \in {k - 1, k} :
            /\ get_pcb(pcb[k].esp) = KSTACK_TO_PCB(b)
            /\ pcb[k].esp > KSTACK_TO_PCB(b) + PcbSize

(* A terminal that counts a program has a PCB for it: nothing that asks a  *)
(* counted terminal for its process (the scheduler's tick, execute's       *)
(* choice of a parent) meets NULL, unless the first execute on a terminal  *)
(* counted a program that it then failed to load.                          *)
CountedTerminalHasPcb ==
    cpu # "astray" => \A t \in Terms : num_program[t] > 0 => term_pcb[t] # NULL

(* A process that waits in its execute finds everything as it was when     *)
(* halt comes back to it: whoever ran above it, ended, failed to load or   *)
(* was replaced by a shell meanwhile, its PCB and its image are untouched; *)
(* the slot of the running process is nobody else's; and the process that  *)
(* halt goes back to is one that waits.                                    *)
SuspendedIntact ==
    cpu # "lost" =>
        /\ \A s \in suspended : /\ s.pcb = pcb[s.slot]
                                /\ s.image = image[s.slot]
                                /\ s.slot # Current
        /\ cpu = "return" => \E s \in suspended : s.slot = active_proc

(* However vidmap and the switching of terminals interleave, a program     *)
(* that has been given the video page draws on the screen whenever         *)
(* terminal 0 is shown.  When the user leaves terminal 0 the page becomes  *)
(* the frame that map_term makes of the old screen's characters.           *)
VideoMapped ==
    vid_present = 1 /\ term_flag = 0 /\ cpu \notin {"blank", "present", "map"} =>
        vid_page_table[0] = "VMEM"

(* halt finishes: a program runs again, or the CPU is on a reused frame.   *)
HaltCompletes ==
    cpu \in {"restart", "reexec", "return"} ~> cpu \in {"user", "lost"}

(* "uint32_t esp;  //parent esp;" (syscalls.h): the stack pointer halt     *)
(* jumps to belongs to the process it goes back to.                        *)
ResumesOnParentStack == cpu # "lost"

(* "if close the old shell, should open a new shell" (syscalls.c): halt    *)
(* starts a shell in place of a shell, and every other program returns to  *)
(* the program that started it.                                            *)
OnlyShellRestarted == cpu = "restart" => image[Current] = "shell"
=============================================================================
