---------------------------- MODULE ProcessProofs ----------------------------
(***************************************************************************)
(* Proofs about Process, for every limit on programs, every frame size and *)
(* every bound on the counts.                                              *)
(***************************************************************************)
EXTENDS Process, TLAPS

(***************************************************************************)
(* The inductive invariant.  The counts alone are not inductive: that      *)
(* execute stays within its slots needs them, and that halt finds the PCB  *)
(* of the process that called it needs the exact value of esp0.            *)
(***************************************************************************)
ExactContext ==
    /\ cpu = "boot" => active_proc = -1
    /\ cpu # "boot" => Current \in Slots
    /\ cpu \in {"return", "lost"} => active_proc >= 0
    /\ cpu \notin {"boot", "lost"} => /\ esp0 = KernelStackTop(Current)
                                      /\ prog_page = ProgramPage(IF cpu = "astray"
                                                                 THEN Current + 1
                                                                 ELSE Current)

LiveSlots ==
    \A k \in Slots : k <= Current => /\ pcb[k].pid = k
                                     /\ image[k] \in Programs

ExactFrames ==
    \A k \in Slots : 1 <= k /\ k <= Current =>
        pcb[k].esp \in {KernelStackTop(k - 1) - FrameSize,
                        KernelStackTop(k) - FrameSize - FrameSize}

(* Those that wait are the processes below the running one, each as it was *)
(* when it called execute.                                                 *)
Suspension ==
    cpu # "lost" =>
        /\ \A s \in suspended : /\ s.slot \in 0..(Current - 1)
                                /\ s.pcb = pcb[s.slot]
                                /\ s.image = image[s.slot]
        /\ \A k \in 0..(Current - 1) : \E s \in suspended : s.slot = k

IInv ==
    /\ TypeOK
    /\ CountersAgree
    /\ ExactContext
    /\ LiveSlots
    /\ ExactFrames
    /\ CountedTerminalHasPcb
    /\ VideoMapped
    /\ Suspension

-----------------------------------------------------------------------------
(* What the mask of get_pcb drops.                                         *)
LEMMA Remainder ==
    \A a, q, r \in Int : 0 <= r /\ r < 8192 /\ a = q * 8192 + r => a % 8192 = r
  BY SMT

(* Masking any stack pointer of a system call or of the execute nested in  *)
(* halt finds the PCB of the slot that owns the stack, and the frame does  *)
(* not reach down to that PCB (get_pcb, KSTACK_TO_PCB).                    *)
LEMMA FrameInBlock ==
    ASSUME NEW k \in 0..5, NEW esp \in Int,
           esp <= KernelStackTop(k), esp >= KernelStackTop(k) - 6000
    PROVE  /\ get_pcb(esp) = KSTACK_TO_PCB(k)
           /\ esp > KSTACK_TO_PCB(k) + PcbSize
<1>1. KSTACK_TO_PCB(k) = (1022 - k) * 8192
  BY DEF KSTACK_TO_PCB, KSTACK_BASE, KSTACK_SIZE
<1>2. PICK q \in Int : q = 1022 - k
  OBVIOUS
<1>3. PICK r \in Int : /\ r = esp - q * 8192
                       /\ 2188 <= r
                       /\ r < 8192
                       /\ esp = q * 8192 + r
  BY <1>2 DEF KernelStackTop, KSTACK_BASE, KSTACK_SIZE
<1>4. esp % 8192 = r
  BY <1>2, <1>3, Remainder
<1> QED  BY <1>1, <1>2, <1>3, <1>4 DEF get_pcb, KSTACK_SIZE, PcbSize

(* The PCB addresses of the slots are the slots' own (KSTACK_TO_PCB).      *)
LEMMA SlotOfPcb ==
    ASSUME NEW k \in 0..5
    PROVE  /\ SlotAt(KSTACK_TO_PCB(k)) = k
           /\ KSTACK_TO_PCB(k) # NULL
<1>1. (KSTACK_BASE - KSTACK_TO_PCB(k)) \div KSTACK_SIZE = k + 1
  <2>1. k \in {0, 1, 2, 3, 4, 5}
    OBVIOUS
  <2> QED  BY <2>1 DEF KSTACK_TO_PCB, KSTACK_BASE, KSTACK_SIZE
<1> QED  BY <1>1 DEF SlotAt, KSTACK_TO_PCB, KSTACK_BASE, KSTACK_SIZE, NULL

(* execute adds one to the sum of the counts, whatever the terminal.       *)
LEMMA CountUp ==
    ASSUME TypeOK, num_program' = [num_program EXCEPT ![term_flag] = @ + 1]
    PROVE  /\ num_program' \in [Terms -> Int]
           /\ ProgramCount \in Int
           /\ ProgramCount' = ProgramCount + 1
<1>1. term_flag \in {0, 1, 2} /\ num_program \in [0..2 -> Int]
  BY DEF TypeOK, Terms
<1>2. CASE term_flag = 0  BY <1>1, <1>2 DEF ProgramCount, Terms
<1>3. CASE term_flag = 1  BY <1>1, <1>3 DEF ProgramCount, Terms
<1>4. CASE term_flag = 2  BY <1>1, <1>4 DEF ProgramCount, Terms
<1> QED  BY <1>1, <1>2, <1>3, <1>4

(* halt takes one from the sum of the counts, whatever the terminal.       *)
LEMMA CountDown ==
    ASSUME TypeOK, num_program' = [num_program EXCEPT ![term_flag] = @ - 1]
    PROVE  /\ num_program' \in [Terms -> Int]
           /\ ProgramCount \in Int
           /\ ProgramCount' = ProgramCount - 1
<1>1. term_flag \in {0, 1, 2} /\ num_program \in [0..2 -> Int]
  BY DEF TypeOK, Terms
<1>2. CASE term_flag = 0  BY <1>1, <1>2 DEF ProgramCount, Terms
<1>3. CASE term_flag = 1  BY <1>1, <1>3 DEF ProgramCount, Terms
<1>4. CASE term_flag = 2  BY <1>1, <1>4 DEF ProgramCount, Terms
<1> QED  BY <1>1, <1>2, <1>3, <1>4

(* The process whose PCB a system call finds is the running one.           *)
LEMMA CurrentFound ==
    ASSUME IInv, cpu \notin {"boot", "lost"}
    PROVE  /\ Current \in 0..5
           /\ get_pcb(esp0) = KSTACK_TO_PCB(Current)
           /\ SlotAt(get_pcb(esp0)) = Current
<1>1. Current \in Slots /\ esp0 = KernelStackTop(Current)
  BY DEF IInv, ExactContext
<1>2. Current \in 0..5
  BY <1>1, MaxProgramsAssumption DEF Slots
<1>3. /\ esp0 \in Int
      /\ esp0 <= KernelStackTop(Current)
      /\ esp0 >= KernelStackTop(Current) - 6000
  BY <1>1, <1>2 DEF KernelStackTop, KSTACK_BASE, KSTACK_SIZE
<1>4. get_pcb(esp0) = KSTACK_TO_PCB(Current)
  BY <1>2, <1>3, FrameInBlock
<1> QED  BY <1>2, <1>4, SlotOfPcb

(* execute after its checks keeps the invariant, whoever calls it: the     *)
(* limit it tests is what keeps the new slot inside the PCB area.          *)
LEMMA StartKeepsIInv ==
    ASSUME IInv, cpu \in {"boot", "user", "reexec"}, Admitted,
           NEW prog \in Programs, NEW esp \in Int, Start(prog, esp),
           active_proc + 1 >= 1 =>
               esp \in {KernelStackTop(active_proc),
                       KernelStackTop(active_proc + 1) - FrameSize},
           cpu = "user" => suspended' = suspended \cup {Caller},
           cpu # "user" => suspended' = suspended
    PROVE  IInv'
<1> DEFINE child == active_proc + 1
<1> USE MaxProgramsAssumption, FrameSizeAssumption
<1>1. child \in Slots /\ active_proc \in Int
  BY DEF IInv, TypeOK, CountersAgree, ExactContext, Admitted, Current, Slots
<1>0. cpu = "user" => /\ Current = active_proc
                      /\ Caller = [slot |-> active_proc, pcb |-> pcb[active_proc],
                                   image |-> image[active_proc]]
  BY CurrentFound DEF Caller, Current
<1>2. /\ active_proc' = child
      /\ process_counter' = process_counter + 1
      /\ num_program' = [num_program EXCEPT ![term_flag] = @ + 1]
      /\ prog_page' = ProgramPage(child)
      /\ image' = [image EXCEPT ![child] = prog]
      /\ pcb' = [pcb EXCEPT ![child] = [pid    |-> child,
                                        parent |-> term_pcb[term_flag],
                                        esp    |-> esp - FrameSize]]
      /\ term_pcb' = [term_pcb EXCEPT ![term_flag] = KSTACK_TO_PCB(child)]
      /\ esp0' = KernelStackTop(child)
      /\ cpu' = "user"
      /\ term_flag' = term_flag
      /\ UNCHANGED vid
  BY DEF Start, ChildSlot, Adopt
<1>3. Current' = child
  BY <1>2 DEF Current
<1>4. /\ num_program' \in [Terms -> Int]
      /\ ProgramCount \in Int
      /\ ProgramCount' = ProgramCount + 1
  BY <1>2, CountUp DEF IInv
<1>5. CountersAgree'
  BY <1>1, <1>2, <1>4 DEF IInv, CountersAgree, TypeOK
<1>6. TypeOK'
  <2>1. term_flag \in Terms
    BY DEF IInv, TypeOK
  <2>2. term_pcb' \in [Terms -> {NULL} \cup PcbAddresses]
    BY <1>1, <1>2, <2>1 DEF IInv, TypeOK, PcbAddresses
  <2>3. esp - FrameSize \in Int
    OBVIOUS
  <2>4. pcb' \in [Slots -> Pcbs]
    BY <1>1, <1>2, <2>1, <2>3 DEF IInv, TypeOK, Pcbs
  <2>5. image' \in [Slots -> Images]
    BY <1>1, <1>2 DEF IInv, TypeOK, Images
  <2>6. /\ prog_page' \in Int
        /\ esp0' \in Int
        /\ cpu' \in Where
        /\ term_flag' \in Terms
    BY <1>1, <1>2, <2>1 DEF ProgramPage, KERNEL_PHYS_VIRT_MEMO_ADDR, FOUR_MB,
       KernelStackTop, KSTACK_BASE, KSTACK_SIZE, Where
  <2>7. /\ active_proc' \in -1..(MaxPrograms - 1)
        /\ process_counter' \in 0..MaxPrograms
    BY <1>1, <1>2, <1>5 DEF CountersAgree, Slots
  <2>8. suspended' \subseteq [slot : Slots, pcb : Pcbs, image : Images]
    <3>1. CASE cpu = "user"
      <4>1. Caller \in [slot : Slots, pcb : Pcbs, image : Images]
        BY <1>0, <3>1 DEF IInv, TypeOK, ExactContext, Current
      <4> QED  BY <3>1, <4>1 DEF IInv, TypeOK
    <3> QED  BY <3>1 DEF IInv, TypeOK
  <2> QED  BY <1>2, <1>4, <2>2, <2>4, <2>5, <2>6, <2>7, <2>8 DEF IInv, TypeOK, vid
<1>7. ExactContext'
  BY <1>1, <1>2, <1>3 DEF ExactContext, Slots
<1>8. LiveSlots'
  <2>1. \A k \in Slots : k <= child => k = child \/ k <= Current
    BY <1>1 DEF Slots, Current, IInv, ExactContext
  <2>2. pcb \in [Slots -> Pcbs] /\ image \in [Slots -> Images]
    BY DEF IInv, TypeOK
  <2> QED  BY <1>1, <1>2, <1>3, <2>1, <2>2 DEF LiveSlots, IInv, Programs
<1>9. ExactFrames'
  <2> SUFFICES ASSUME NEW k \in Slots, 1 <= k, k <= child
               PROVE  pcb'[k].esp \in {KernelStackTop(k - 1) - FrameSize,
                                       KernelStackTop(k) - FrameSize - FrameSize}
    BY <1>3 DEF ExactFrames
  <2>1. CASE k = child
    BY <1>1, <1>2, <2>1 DEF IInv, TypeOK
  <2>2. CASE k # child
    <3>1. k <= Current
      BY <1>1, <2>2 DEF Slots, Current, IInv, ExactContext
    <3>2. pcb'[k] = pcb[k]
      BY <1>2, <2>2 DEF IInv, TypeOK
    <3> QED  BY <3>1, <3>2 DEF IInv, ExactFrames
  <2> QED  BY <2>1, <2>2
<1>10. CountedTerminalHasPcb'
  <2>1. KSTACK_TO_PCB(child) # NULL
    BY <1>1, SlotOfPcb DEF Slots
  <2> QED  BY <1>2, <2>1 DEF IInv, TypeOK, CountedTerminalHasPcb
<1>11. VideoMapped'
  BY <1>2 DEF IInv, VideoMapped, vid
<1>12. Suspension'
  <2>1. /\ Current \in Int
        /\ Current = (IF cpu = "reexec" THEN child ELSE child - 1)
    BY <1>1 DEF Current
  <2>2. \A k \in Slots : k # child => pcb'[k] = pcb[k] /\ image'[k] = image[k]
    BY <1>2 DEF IInv, TypeOK
  <2>3. \A k \in 0..(child - 1) : k \in Slots
    BY <1>1 DEF Slots
  <2>4. ASSUME NEW s \in suspended
        PROVE  /\ s.slot \in 0..(child - 1)
               /\ s.pcb = pcb'[s.slot]
               /\ s.image = image'[s.slot]
    <3>1. s.slot \in 0..(child - 1) /\ s.pcb = pcb[s.slot] /\ s.image = image[s.slot]
      BY <1>1, <2>1 DEF IInv, Suspension
    <3> QED  BY <1>1, <2>2, <2>3, <3>1
  <2>5. CASE cpu = "user"
    <3>1. suspended' = suspended \cup {Caller} /\ active_proc \in 0..(child - 1)
      BY <1>0, <1>1, <2>5 DEF IInv, ExactContext, Slots
    <3>2. /\ Caller.slot = active_proc
          /\ Caller.pcb = pcb'[active_proc]
          /\ Caller.image = image'[active_proc]
      BY <1>0, <1>1, <2>2, <2>3, <2>5, <3>1
    <3>3. \A k \in 0..(child - 1) : k = active_proc \/ k \in 0..(Current - 1)
      BY <1>0, <1>1, <2>5
    <3>4. \A k \in 0..(Current - 1) : \E s \in suspended : s.slot = k
      BY <2>5 DEF IInv, Suspension
    <3> QED  BY <1>3, <2>4, <3>1, <3>2, <3>3, <3>4 DEF Suspension
  <2>6. CASE cpu # "user"
    <3>1. suspended' = suspended
      BY <2>6
    <3>2. \A k \in 0..(child - 1) : \E s \in suspended : s.slot = k
      <4>1. CASE cpu = "reexec"
        BY <2>1, <4>1 DEF IInv, Suspension
      <4>2. CASE cpu = "boot"
        BY <4>2 DEF IInv, ExactContext
      <4> QED  BY <2>6, <4>1, <4>2
    <3> QED  BY <1>3, <2>4, <3>1, <3>2 DEF Suspension
  <2> QED  BY <2>5, <2>6
<1> QED  BY <1>5, <1>6, <1>7, <1>8, <1>9, <1>10, <1>11, <1>12 DEF IInv

-----------------------------------------------------------------------------
(* Every state of the kernel satisfies the invariant.                      *)
THEOREM Invariance == Spec => []IInv
<1> USE MaxProgramsAssumption, FrameSizeAssumption
<1>1. Init => IInv
  <2> SUFFICES ASSUME Init
               PROVE  IInv
    OBVIOUS
  <2>1. TypeOK
    <3>1. 0 \in Slots
      BY DEF Slots
    <3>2. pcb \in [Slots -> Pcbs]
      BY <3>1 DEF Init, Pcbs, NULL
    <3>3. esp0 \in Int
      BY DEF Init, BootStackTop, KSTACK_BASE, KSTACK_SIZE
    <3> QED  BY <3>2, <3>3 DEF Init, TypeOK, Terms, Where, Frames, NULL, Images
  <2>2. CountersAgree
    BY DEF Init, CountersAgree, ProgramCount, Terms
  <2>3. Current = -1
    BY DEF Init, Current
  <2>4. ExactContext /\ LiveSlots /\ ExactFrames /\ CountedTerminalHasPcb
    BY <2>3 DEF Init, ExactContext, LiveSlots, ExactFrames, CountedTerminalHasPcb, Slots
  <2>5. VideoMapped /\ Suspension
    BY <2>3 DEF Init, VideoMapped, Suspension
  <2> QED  BY <2>1, <2>2, <2>4, <2>5 DEF IInv
<1>2. IInv /\ [Next]_vars => IInv'
  <2> SUFFICES ASSUME IInv, [Next]_vars
               PROVE  IInv'
    OBVIOUS
  <2>0. /\ active_proc \in Int
        /\ esp0 \in Int
    BY DEF IInv, TypeOK
  <2>1. CASE Boot
    <3>1. BootStackTop \in Int /\ active_proc = -1
      BY <2>1 DEF Boot, IInv, ExactContext, BootStackTop, KSTACK_BASE, KSTACK_SIZE
    <3> QED  BY <2>1, <3>1, StartKeepsIInv DEF Boot, Programs
  <2>2. ASSUME NEW prog \in Programs, Execute(prog)
        PROVE  IInv'
    <3>1. esp0 = KernelStackTop(active_proc)
      BY <2>2 DEF Execute, IInv, ExactContext, Current
    <3> QED  BY <2>0, <2>2, <3>1, StartKeepsIInv DEF Execute
  <2>3. CASE HaltReexec
    <3>1. /\ esp0 - FrameSize \in Int
          /\ esp0 - FrameSize = KernelStackTop(active_proc + 1) - FrameSize
      BY <2>0, <2>3 DEF HaltReexec, IInv, ExactContext, Current
    <3> QED  BY <2>3, <3>1, StartKeepsIInv DEF HaltReexec, Programs
  <2>4. CASE Halt
    <3>1. Current = active_proc /\ Current' = active_proc
      BY <2>0, <2>4 DEF Halt, Current
    <3>2. cpu' \in {"restart", "return"}
      BY <2>4 DEF Halt
    <3>3. ProgramCount' = ProgramCount
      BY <2>4 DEF Halt, ProgramCount
    <3>4. CountersAgree'
      BY <2>0, <2>4, <3>2, <3>3 DEF Halt, IInv, TypeOK, CountersAgree
    <3>9. TypeOK'
      <4>1. active_proc >= 0 /\ active_proc <= MaxPrograms - 1
        BY <2>4, <3>1 DEF Halt, IInv, ExactContext, Slots
      <4>2. /\ active_proc' \in -1..(MaxPrograms - 1)
            /\ process_counter' \in 0..MaxPrograms
        BY <2>0, <2>4, <3>4, <4>1 DEF Halt, CountersAgree
      <4> QED  BY <2>4, <3>2, <4>2 DEF Halt, IInv, TypeOK, Where, vid
    <3>5. ExactContext'
      BY <2>4, <3>1, <3>2 DEF Halt, IInv, ExactContext, Slots
    <3>6. LiveSlots' /\ ExactFrames' /\ CountedTerminalHasPcb' /\ Suspension'
      BY <2>4, <3>1 DEF Halt, IInv, LiveSlots, ExactFrames, CountedTerminalHasPcb, Suspension
    <3>7. VideoMapped'
      BY <2>4 DEF Halt, IInv, VideoMapped, vid
    <3> QED  BY <3>4, <3>9, <3>5, <3>6, <3>7 DEF IInv
  <2>5. CASE HaltRestart
    <3>2. /\ num_program' \in [Terms -> Int]
          /\ ProgramCount \in Int
          /\ ProgramCount' = ProgramCount - 1
      BY <2>5, CountDown DEF IInv, HaltRestart
    <3>3. Current' = Current
      BY <2>5 DEF HaltRestart, Current
    <3>4. TypeOK' /\ CountersAgree'
      BY <2>0, <2>5, <3>2 DEF HaltRestart, IInv, TypeOK, CountersAgree, Where, vid
    <3>5. ExactContext' /\ LiveSlots' /\ ExactFrames' /\ Suspension'
      BY <2>5, <3>3 DEF HaltRestart, IInv, ExactContext, LiveSlots, ExactFrames, Suspension
    <3>6. CountedTerminalHasPcb'
      BY <2>5 DEF HaltRestart, IInv, TypeOK, CountedTerminalHasPcb
    <3>7. VideoMapped'
      BY <2>5 DEF HaltRestart, IInv, VideoMapped, vid
    <3> QED  BY <3>4, <3>5, <3>6, <3>7 DEF IInv
  <2>6. CASE HaltReturn
    <3>2. /\ num_program' \in [Terms -> Int]
          /\ ProgramCount \in Int
          /\ ProgramCount' = ProgramCount - 1
      BY <2>6, CountDown DEF IInv, HaltReturn
    <3>3. /\ Current = active_proc + 1
          /\ Current' = active_proc
          /\ cpu' \in {"user", "lost"}
          /\ active_proc >= 0
      BY <2>6 DEF HaltReturn, Current, IInv, ExactContext
    <3>4. CountersAgree'
      BY <2>0, <2>6, <3>2, <3>3 DEF HaltReturn, IInv, CountersAgree
    <3>5. TypeOK'
      BY <2>0, <2>6, <3>2, <3>3 DEF HaltReturn, IInv, TypeOK, Where, vid, Waiting, ProgramPage,
         KERNEL_PHYS_VIRT_MEMO_ADDR, FOUR_MB, KernelStackTop, KSTACK_BASE, KSTACK_SIZE
    <3>6. ExactContext'
      BY <2>0, <2>6, <3>3 DEF HaltReturn, IInv, ExactContext, Slots
    <3>7. LiveSlots' /\ ExactFrames'
      BY <2>0, <2>6, <3>3 DEF HaltReturn, IInv, LiveSlots, ExactFrames, Slots
    <3>8. CountedTerminalHasPcb'
      BY <2>6 DEF HaltReturn, IInv, TypeOK, CountedTerminalHasPcb
    <3>9. VideoMapped'
      BY <2>6 DEF HaltReturn, IInv, VideoMapped, vid
    <3>10. ASSUME cpu' # "lost"  PROVE Suspension'
      <4>1. /\ suspended' = Waiting(KSTACK_TO_PCB(active_proc))
            /\ UNCHANGED <<pcb, image>>
        BY <2>6, <3>10 DEF HaltReturn
      <4>2. \A a, b \in Int : KSTACK_TO_PCB(a) = KSTACK_TO_PCB(b) <=> a = b
        BY DEF KSTACK_TO_PCB, KSTACK_BASE, KSTACK_SIZE
      <4>3. /\ \A s \in suspended : /\ s.slot \in 0..active_proc
                                    /\ s.pcb = pcb[s.slot]
                                    /\ s.image = image[s.slot]
            /\ \A k \in 0..active_proc : \E s \in suspended : s.slot = k
        BY <2>0, <2>6, <3>3 DEF HaltReturn, IInv, Suspension
      <4>4. suspended' = {s \in suspended : s.slot # active_proc}
        BY <2>0, <4>1, <4>2, <4>3 DEF Waiting
      <4>5. 0..(active_proc - 1) = {k \in 0..active_proc : k # active_proc}
        BY <2>0
      <4> QED  BY <3>3, <4>1, <4>3, <4>4, <4>5 DEF Suspension
    <3>11. Suspension'
      BY <3>10 DEF Suspension
    <3> QED  BY <3>4, <3>5, <3>6, <3>7, <3>8, <3>9, <3>11 DEF IInv
  <2>7. ASSUME NEW t \in Switchable, SwitchTerm(t)
        PROVE  IInv'
    <3>1. t \in Terms
      BY SwitchableAssumption DEF Terms
    <3>2. Current' = Current /\ ProgramCount' = ProgramCount
      BY <2>7 DEF SwitchTerm, Current, ProgramCount
    <3>3. /\ vid_page_table' \in [Terms -> Frames]
          /\ term_flag' = 0 => vid_page_table'[0] = "VMEM"
      BY <2>7, <3>1 DEF SwitchTerm, map_term, IInv, TypeOK, Frames, Terms
    <3>4. VideoMapped'
      BY <2>7, <3>3 DEF SwitchTerm, VideoMapped
    <3> QED  BY <2>7, <3>1, <3>2, <3>3, <3>4 DEF SwitchTerm, IInv, TypeOK, CountersAgree,
             ExactContext, LiveSlots, ExactFrames, CountedTerminalHasPcb, Suspension
  <2>9. CASE ExecuteLoadFails
    <3> DEFINE child == active_proc + 1
    <3>1. child \in Slots
      BY <2>9 DEF ExecuteLoadFails, IInv, TypeOK, CountersAgree, ExactContext, Admitted,
         Current, Slots
    <3>2. /\ num_program' \in [Terms -> Int]
          /\ ProgramCount \in Int
          /\ ProgramCount' = ProgramCount + 1
      BY <2>9, CountUp DEF IInv, ExecuteLoadFails
    <3>3. Current' = Current /\ Current = active_proc
      BY <2>0, <2>9 DEF ExecuteLoadFails, ChildSlot, Current
    <3>4. CountersAgree'
      BY <2>0, <2>9, <3>2 DEF ExecuteLoadFails, ChildSlot, IInv, TypeOK, CountersAgree
    <3>5. TypeOK'
      <4>1. image' \in [Slots -> Images]
        BY <2>9, <3>1 DEF ExecuteLoadFails, ChildSlot, IInv, TypeOK, Images
      <4>2. /\ active_proc' \in -1..(MaxPrograms - 1)
            /\ process_counter' \in 0..MaxPrograms
            /\ prog_page' \in Int
        BY <2>0, <2>9, <3>1, <3>4 DEF ExecuteLoadFails, ChildSlot, CountersAgree, Slots,
           ProgramPage, KERNEL_PHYS_VIRT_MEMO_ADDR, FOUR_MB
      <4> QED  BY <2>9, <3>2, <4>1, <4>2 DEF ExecuteLoadFails, IInv, TypeOK, Where, vid
    <3>6. ExactContext'
      <4>1. prog_page' = ProgramPage(Current' + 1) /\ cpu' = "astray"
        BY <2>9, <3>3 DEF ExecuteLoadFails, ChildSlot
      <4> QED  BY <2>0, <2>9, <3>3, <4>1 DEF ExecuteLoadFails, IInv, ExactContext
    <3>7. LiveSlots'
      <4>1. \A k \in Slots : k <= Current => k # child
        BY <2>0, <3>3 DEF Slots
      <4> QED  BY <2>9, <3>3, <4>1 DEF ExecuteLoadFails, ChildSlot, IInv, TypeOK, LiveSlots
    <3>8. ExactFrames' /\ CountedTerminalHasPcb' /\ VideoMapped'
      BY <2>9, <3>3 DEF ExecuteLoadFails, IInv, ExactFrames, CountedTerminalHasPcb,
         VideoMapped, vid
    <3>9. Suspension'
      <4>1. \A k \in 0..(Current - 1) : k \in Slots /\ k # child
        BY <2>0, <3>1, <3>3 DEF Slots
      <4>2. \A k \in 0..(Current - 1) : pcb'[k] = pcb[k] /\ image'[k] = image[k]
        BY <2>9, <4>1 DEF ExecuteLoadFails, ChildSlot, IInv, TypeOK
      <4> QED  BY <2>9, <3>3, <4>2 DEF ExecuteLoadFails, IInv, Suspension
    <3> QED  BY <3>4, <3>5, <3>6, <3>7, <3>8, <3>9 DEF IInv
  <2>10. CASE vidmap \/ VidmapBlank \/ VidmapPresent \/ VidmapMap
    <3>1. /\ UNCHANGED <<active_proc, process_counter, term_flag, num_program, term_pcb,
                          pcb, prog_page, image, esp0, suspended>>
          /\ cpu \in {"user", "blank", "present", "map"}
          /\ cpu' \in {"user", "blank", "present", "map"}
      BY <2>10 DEF vidmap, VidmapBlank, VidmapPresent, VidmapMap
    <3>2. Current' = Current /\ ProgramCount' = ProgramCount
      BY <3>1 DEF Current, ProgramCount
    <3>3. /\ vid_present' \in {0, 1}
          /\ vid_page_table' \in [Terms -> Frames]
          /\ vid_i' \in Terms
          /\ VideoMapped'
      <4>1. CASE vidmap
        BY <4>1 DEF vidmap, IInv, TypeOK, Terms, VideoMapped
      <4>2. CASE VidmapBlank
        BY <4>2 DEF VidmapBlank, IInv, TypeOK, Terms, Frames, VideoMapped
      <4>3. CASE VidmapPresent
        BY <4>3 DEF VidmapPresent, IInv, TypeOK, VideoMapped
      <4>4. CASE VidmapMap
        BY <4>4 DEF VidmapMap, IInv, TypeOK, Terms, Frames, VideoMapped
      <4> QED  BY <2>10, <4>1, <4>2, <4>3, <4>4
    <3>4. TypeOK' /\ CountersAgree'
      BY <3>1, <3>2, <3>3 DEF IInv, TypeOK, CountersAgree, Where
    <3>5. ExactContext' /\ LiveSlots' /\ ExactFrames' /\ CountedTerminalHasPcb' /\ Suspension'
      BY <3>1, <3>2 DEF IInv, ExactContext, LiveSlots, ExactFrames, CountedTerminalHasPcb,
         Suspension
    <3> QED  BY <3>3, <3>4, <3>5 DEF IInv
  <2>8. CASE UNCHANGED vars
    <3>1. Current' = Current /\ ProgramCount' = ProgramCount
      BY <2>8 DEF vars, Current, ProgramCount
    <3> QED  BY <2>8, <3>1 DEF vars, vid, VideoMapped, IInv, TypeOK, CountersAgree, ExactContext,
             LiveSlots, ExactFrames, CountedTerminalHasPcb, Suspension
  <2> QED  BY <2>1, <2>2, <2>3, <2>4, <2>5, <2>6, <2>7, <2>8, <2>9, <2>10
           DEF Next, ExecuteRefused, Lost
<1> QED  BY <1>1, <1>2, PTL DEF Spec

(* The state has its type; in particular active_proc never leaves the six  *)
(* slots below the kernel's first stack.                                   *)
THEOREM TypeCorrect == Spec => []TypeOK
  BY Invariance, PTL DEF IInv

(* active_proc, process_counter and the terminals' counts agree.           *)
THEOREM CountersCorrect == Spec => []CountersAgree
  BY Invariance, PTL DEF IInv

(* A counted terminal has a PCB.                                           *)
THEOREM CountedCorrect == Spec => []CountedTerminalHasPcb
  BY Invariance, PTL DEF IInv

(* A program's video page shows on the screen with terminal 0, however     *)
(* vidmap and terminal switches interleave.                                *)
THEOREM VideoCorrect == Spec => []VideoMapped
  BY Invariance, PTL DEF IInv

(* execute never refuses the shell with which halt replaces a program.     *)
THEOREM RestartCorrect == Spec => []RestartAdmitted
<1>1. IInv => RestartAdmitted
  BY MaxProgramsAssumption
     DEF IInv, TypeOK, CountersAgree, ExactContext, RestartAdmitted, Current, Slots
<1> QED  BY <1>1, Invariance, PTL

(* The TSS, the page directory and get_pcb name the running process, and   *)
(* the page of any process but the first is apart from the kernel's own,   *)
(* in which all PCBs and kernel stacks are.                                *)
THEOREM ContextCorrect == Spec => []ContextOfCurrent
<1>1. IInv => ContextOfCurrent
  <2> SUFFICES ASSUME IInv, cpu \notin {"boot", "lost"}
               PROVE  /\ Current \in Slots
                      /\ get_pcb(esp0) = KSTACK_TO_PCB(Current)
                      /\ pcb[SlotAt(get_pcb(esp0))].pid = Current
                      /\ cpu # "astray" => prog_page = ProgramPage(Current)
                      /\ image[Current] \in Programs
                      /\ Current > 0 => ApartFromStacks(prog_page)
                      /\ Current = 0 /\ cpu # "astray" => AroundStacks(prog_page)
    BY DEF ContextOfCurrent
  <2>1. /\ Current \in Slots
        /\ cpu # "astray" => prog_page = ProgramPage(Current)
        /\ cpu = "astray" => prog_page = ProgramPage(Current + 1)
    BY DEF IInv, ExactContext
  <2>2. Current \in 0..5
    BY CurrentFound
  <2>3. pcb[Current].pid = Current /\ image[Current] \in Programs
    BY <2>1, <2>2 DEF IInv, LiveSlots
  <2>4. ASSUME Current > 0  PROVE ApartFromStacks(prog_page)
    <3>1. prog_page >= 8388608 /\ prog_page \in Int
      BY <2>1, <2>2, <2>4 DEF ProgramPage, KERNEL_PHYS_VIRT_MEMO_ADDR, FOUR_MB
    <3>2. \A k \in Slots : KSTACK_TO_PCB(k) < 8388608 /\ KSTACK_TO_PCB(k) \in Int
      BY MaxProgramsAssumption DEF KSTACK_TO_PCB, KSTACK_BASE, KSTACK_SIZE, Slots
    <3> QED  BY <3>1, <3>2 DEF ApartFromStacks
  <2>5. ASSUME Current = 0, cpu # "astray"  PROVE AroundStacks(prog_page)
    <3>1. prog_page = 4194304
      BY <2>1, <2>5 DEF ProgramPage, KERNEL_PHYS_VIRT_MEMO_ADDR, FOUR_MB
    <3>2. \A k \in Slots : /\ 4194304 <= KSTACK_TO_PCB(k)
                           /\ KSTACK_TO_PCB(k) + KSTACK_SIZE <= 4194304 + FOUR_MB
      BY MaxProgramsAssumption DEF KSTACK_TO_PCB, KSTACK_BASE, KSTACK_SIZE, Slots, FOUR_MB
    <3> QED  BY <3>1, <3>2 DEF AroundStacks
  <2> QED  BY <2>1, <2>3, <2>4, <2>5, CurrentFound
<1> QED  BY <1>1, Invariance, PTL

(* Every saved frame is on the stack of its process or the one below.      *)
THEOREM FramesCorrect == Spec => []SavedFrames
<1>1. IInv => SavedFrames
  <2> SUFFICES ASSUME IInv, cpu # "lost", NEW k \in 1..Current
               PROVE  \E b \in {k - 1, k} :
                         /\ get_pcb(pcb[k].esp) = KSTACK_TO_PCB(b)
                         /\ pcb[k].esp > KSTACK_TO_PCB(b) + PcbSize
    BY DEF SavedFrames
  <2>1. k \in Slots /\ 1 <= k /\ k <= Current /\ k \in 1..5
    BY MaxProgramsAssumption DEF IInv, TypeOK, ExactContext, Current, Slots
  <2>2. pcb[k].esp \in {KernelStackTop(k - 1) - FrameSize,
                       KernelStackTop(k) - FrameSize - FrameSize}
    BY <2>1 DEF IInv, ExactFrames
  <2>3. CASE pcb[k].esp = KernelStackTop(k - 1) - FrameSize
    <3>1. /\ k - 1 \in 0..5
          /\ pcb[k].esp \in Int
          /\ pcb[k].esp <= KernelStackTop(k - 1)
          /\ pcb[k].esp >= KernelStackTop(k - 1) - 6000
      BY <2>1, <2>3, FrameSizeAssumption DEF KernelStackTop, KSTACK_BASE, KSTACK_SIZE
    <3> QED  BY <3>1, FrameInBlock
  <2>4. CASE pcb[k].esp = KernelStackTop(k) - FrameSize - FrameSize
    <3>1. /\ k \in 0..5
          /\ pcb[k].esp \in Int
          /\ pcb[k].esp <= KernelStackTop(k)
          /\ pcb[k].esp >= KernelStackTop(k) - 6000
      BY <2>1, <2>4, FrameSizeAssumption DEF KernelStackTop, KSTACK_BASE, KSTACK_SIZE
    <3> QED  BY <3>1, FrameInBlock
  <2> QED  BY <2>2, <2>3, <2>4
<1> QED  BY <1>1, Invariance, PTL

(* Between its call of execute and the halt that goes back to it, nothing  *)
(* happens to a process's PCB or image, and halt goes back to a process    *)
(* that waits (execute, halt).                                             *)
THEOREM SuspendedSafe == Spec => []SuspendedIntact
<1>1. IInv => SuspendedIntact
  <2> SUFFICES ASSUME IInv, cpu # "lost"
               PROVE  /\ \A s \in suspended : /\ s.pcb = pcb[s.slot]
                                              /\ s.image = image[s.slot]
                                              /\ s.slot # Current
                      /\ cpu = "return" => \E s \in suspended : s.slot = active_proc
    BY DEF SuspendedIntact
  <2>1. Current \in Int /\ active_proc \in Int
    BY DEF IInv, TypeOK, Current
  <2>2. /\ \A s \in suspended : /\ s.slot \in 0..(Current - 1)
                                /\ s.pcb = pcb[s.slot]
                                /\ s.image = image[s.slot]
        /\ \A k \in 0..(Current - 1) : \E s \in suspended : s.slot = k
    BY DEF IInv, Suspension
  <2>3. cpu = "return" => active_proc \in 0..(Current - 1)
    BY <2>1 DEF IInv, ExactContext, Current
  <2> QED  BY <2>1, <2>2, <2>3
<1> QED  BY <1>1, Invariance, PTL

=============================================================================
