# Verification of a teaching kernel in TLA+

The repository is a 32-bit x86 kernel: three text terminals, one CPU, programs
started by `execute` and ended by `halt`, a read-only file system in memory, and
three interrupt sources. This directory holds TLA+ models of its parts, TLC
configurations that check them on small instances, and proofs checked by TLAPS.

## Inventory

| Component | State | Operations | Correct if |
|---|---|---|---|
| process life cycle (`syscalls.c`) | `active_proc`, `process_counter`, PCBs, `tss.esp0`, `num_program`, `term_pcb` | `execute`, `halt`, `get_pcb` | the counts agree, the running program has its own stack, PCB and page, a process that waits in `execute` finds its PCB and image as it left them, `halt` resumes the caller of `execute` |
| paging (`paging.c`) | page directory entry 32, the video page table | `set_up_program_paging`, `vidmap_helper`, `map_term` | the page of the running program is mapped, and its video page is the screen |
| keyboard (`dev_kbd.c`) | modifier flags, `term_flag`, a line buffer, an output buffer and `kbd_ready` per terminal | the interrupt handler and what it calls | a terminal's buffers behave as a line editor and never overflow |
| terminal driver (`dev_term.c`) | none of its own | `term_read`, `term_write`, `save_term`, `switch_term` | a read returns the line entered |
| file system (`filesystem.c`) | boot block, `dir_count`, descriptor tables in the PCBs | `open`, `close`, `read` of files and of the directory | the bytes and the count returned are those of the file, positions stay in the file |
| interrupt controllers (`i8259.c`) | masks, in-service bits | `enable_irq`, `send_eoi` | a line is in service exactly while its handler has not sent its EOI |
| IDT and wrappers (`idt.c`, `intr_util.c`, `isr_wrapper.S`) | gates | `init_idt`, `insert_idt`, entry and `iret` | no line is open without its gate |
| RTC (`rtc.c`) | `next_interrupt`, the chip's registers | `rtc_init`, `rtc_handler`, `rtc_read`, `rtc_write` | each port access reaches the register selected for it, `rtc_read` ends |
| PIT and scheduler (`schedule.c`) | `curr_exec_term`, `next_exec_term` | `pit_handler`, `init_pit` | the turn rotates through the terminals |
| console (`lib.c`, `vga.c`) | `screen_x`, `screen_y`, video memory, cursor registers | `putc`, `erase_char`, `scroll`, `clear_screen`, `set_cursor_loc` | position and stores stay on the screen when program and echo interleave, the cursor follows, a terminal's screen comes back |
| commands (`syscalls.c`, `filesystem.c`) | the argument in the PCB | parsing in `execute`, `read_dentry_by_name`, `getargs` | the named program runs and gets its own arguments |
| string helpers (`lib.c`) | none | `strlen`, `strncmp`, `memmove`, `memset_word`, `itoa`, `strrev` | as their callers need |
| boot (`boot.S`, `x86_desc.S`, `kernel.c`) | descriptor tables, set once | `entry` | lines are opened in the right order |

How they interact: programs enter the kernel by `int 0x80`, a *trap* gate, so
system calls run with interrupts enabled except where they say `cli`. The three
device gates are trap gates, too, so handlers nest. `term_flag` is written by
the keyboard handler and read by `execute`, `halt` and `term_read`; that one
variable is where most of the difficulty lies. The second is the screen
position, `screen_x` and `screen_y`, which a program's output and the handler's
echo both advance without protection. There is no preemption: the
scheduler's tick only rotates a number, and a parent waits inside its own
`execute` until `halt` jumps back into it. Nothing is persisted, so there is no
crash recovery; nothing is sent over a network.

Hard to test, and the reason for the properties: a switch of terminals between
two statements of `halt` or `term_read`; long sequences of `execute`, `halt`
and switches; a keystroke between Enter and the read; block boundaries in
`read_data`; handlers that interrupt each other; an echo or a switch between two
memory accesses of `putc`. `PROJECT.json` lists them with
their lines.

## Modules

| Module | Models |
|---|---|
| `Process` | `execute`, `halt`, `vidmap`, the page tables, Alt-F1/2/3 as they see it |
| `ProcessProofs` | theorems about `Process` |
| `LineEditor` | abstract: what the keyboard promises of a terminal |
| `Keyboard` | the keyboard handler and `term_read`; implements `LineEditor` |
| `KeyboardProofs` | theorems about `Keyboard`, the refinement among them |
| `FileSystem` | descriptor tables, directory reads, the loop of `read_data` |
| `FileSystemProofs` | theorems about `FileSystem` |
| `Interrupts` | 8259s, gates, the three handlers, boot sequence, RTC calls |
| `InterruptsProofs` | theorems about `Interrupts` |
| `Console` | a program's `term_write` and the keyboard handler on one screen |
| `ConsoleProofs` | theorems about `Console` |
| `Launch` | commands: parsing, search by name, arguments, `getargs` |
| `LaunchProofs` | theorems about `Launch` |
| `NaturalLemmas` | least elements, `Min`, `Max` and induction, for the proofs about loops |
| `MCProcess`, `MCFileSystem`, `MCConsole`, `MCLaunch` | values of constants that a `.cfg` cannot write |

### Process
State and names are the code's. Addresses are the real ones (`KSTACK_BASE`, 8KB
blocks, 4MB pages), because what matters is which block a stack pointer is
masked to. `execute` runs between its `cli` and its `iret` with interrupts off
and is one action; a refusal changes nothing that the module keeps. `halt` runs
with interrupts on and is split where it reads `term_flag` again: the test
(`Halt`), the decrement (`HaltRestart`), the nested `execute("shell")`
(`HaltReexec`), or the second half (`HaltReturn`). A stack pointer saved on the
process's *own* stack is followed to the state `"lost"`: system calls have
reused that memory, and the model says nothing of what follows. `FrameSize`
stands for the bytes one call puts on the kernel stack; all that is assumed is
that two of them fit above a PCB. An `execute` that passes its checks and then
fails to load (a bad block behind the first one) returns with the counters
incremented and the caller's page replaced; the model records that and stops in
`"astray"`. `vidmap` runs with interrupts on and takes a step per table entry,
so that Alt-Fn and its `map_term` come in between; of the table only the entries
of the three terminals are kept, the ones `map_term` writes. The video page is
entry 0. `suspended` is auxiliary: the processes that wait in their `execute`,
each with its PCB and image as they were at the call (`Caller`);
`SuspendedIntact` compares them with memory. A program's page is the one
`set_up_program_paging` computes: `ContextOfCurrent` says that for every program
but the first it is apart from the PCBs and kernel stacks, and that for the
first it is the kernel's own page at 4MB, around all of them, against the
comment at `paging.c:70`. What the first shell's image overwrites there depends
on the size of the kernel and is not modelled. Abstracted: the image is
`"shell"`, `"other"` or, half loaded, `"part"`; file descriptors are in
`FileSystem`, arguments in `Launch`.

### Keyboard and LineEditor
The handler runs with interrupts off and is one action per key;
`kbd_intr_handler`, `insert_op` and `remove_op` are the functions of the same
names. `term_read` takes a step for every statement that looks at `term_flag` or
at a buffer (`is_kbd_ready`, `unset_kbd_ready`, `get_kbd_buf`, `TestByte`,
`CopyByte`); the byte tested is read a second time for the copy, as the
unoptimised build does. A call with a NULL buffer or a negative size returns at
once (`TermReadRefused`). Scan codes are named keys, characters are pairs of a
key and its case; the four tables become `CharOf`. When the scan leaves
`kbd_out_buf`, the model stops in `"overrun"`: the code's loop has no bound, and
what follows the buffer is other fields of the terminal. `"overrun"` does not
count as a return: `ReadReturns` asks for the system call to end. `LineEditor`
is the abstract specification, and `ImplementsLineEditor` the refinement: the
first `kbd_line_cnt` bytes of `kbd_line_buf` are the typed line, `kbd_out_buf`
up to its first newline the entered one.

### FileSystem
The byte at position p of a file is p, so "the right byte" is an equation.
`read_data` takes one step per iteration (`BadBlock`, `CopyTail`,
`CopyBlock`) after its checks (`StartRead`). `Return` is what `fs_file_read`
does with the result. Names are abstracted to directory entries: an unknown
name changes nothing. `BadBlocks` are the entries of an inode that are no block
of the disk, the ones behind the file's last block included, because the loop
looks at one of them when a range ends with a block. No interrupt handler touches
this state. Not represented: lengths of 2^31 and more, and the two default descriptors.

### Interrupts
What each function does to the shared state is a short sequence of instructions,
named after the function; an interrupt can come before any of them. `stack`
holds what is running over what it interrupted. A controller input in service
blocks its own and lower priorities; the RTC sits behind input 2 of the master.
Each frame holds the flags its `iret` will restore: those of the interrupted
code, except for `execute`, whose own `iret` restores the flags it has pushed
with `IF` or'ed in (`PushFlags`), unless it returns an error (`ExecuteFails`).
The `iret` itself is the CPU's. `RtcData` acts on the register that is selected,
not on the one its code means. The unsigned bytes `curr_exec_term` are loaded
and stored in separate steps. The devices and the controllers' priority logic
are not in the repository; they are modelled from how the code uses them and
marked external.

### Console
The page of video memory is a function from cells to characters. The program's
side is `term_write` and `putc` with a step for every load and store of what it
shares (`RowOf`, `ColOf`, `StoreChar`, ..., `Restore`), in the order of the
unoptimised build; `wpc` says which is next and `reg` is the value loaded. The
handler's side runs with interrupts off: there `putc`, `erase_char`,
`clear_screen`, `save_term` and `switch_term` are operators on a record of the
whole console, and each kind of key is one action. A store outside the mapped
page ends in `exp_pf`, which loops for ever (`Fault`). `sel` is the index the
CRT address port holds; `DataPort` writes the register *selected*. Messages of
the kernel itself (`printf` in `execute`) reach the screen as the same sequences
of `putc`. The real page has 48 cells behind the 25 rows, fewer than a row, which
is what `SizeAssumption` says of `PageCells`. Three variables are auxiliary:
`raced` (a key, or a switch, came while the position was off the screen),
`untimely` (the cursor was last set from an outdated position) and `left` (what
a terminal showed when it was left). Attribute bytes are not kept: each is
`ATTRIB`.

### Launch
A command is the `KBD_BUF_SIZE` bytes at the pointer a program passes, including
what lies behind its terminator, because `execute`'s second loop reads on there.
`Scan` is both parsing loops; `strlen`, `strncmp` and `read_dentry_by_name` are
the functions of these names. The reference is independent of the loops: `Asked`
cuts the text of a command at its blanks into the name and the rest, and the rest
into words. `GetargsExact` says that a program gets the first word of the rest,
its own and nobody else's, and that this is not all of it when the rest has a
blank, against the comment at `syscalls.c:173`. Names of the directory are padded with
zeros, as all those of `filesys_img` are; `strncmp` would take a name with other
bytes behind its 0 for the shorter one. `execute` is one step, and commands
that parse alike are one choice (`Launches`). A name that fills `exe_fname`
stores its 0 behind the array, and the model stops in `"smashed"`. `Halt` and
`HaltRestart` are the two ways out of a process; which one is taken when is the
subject of `Process`.

## Runs

| Run | Shows | Bounds |
|---|---|---|
| `process` | counts agree; restarts are admitted; context and saved frames are right; suspended processes stay intact; the video page is the screen; `halt` completes | 3 programs, 2 terminals |
| `process_resume` | violated: a shell that `halt` started may resume on its own stack | 6 programs, 3 terminals |
| `process_restart` | violated: after a switch an ordinary program is replaced by a shell | 6 programs, 3 terminals |
| `keyboard_edit` | buffers bounded; entered lines end; refinement of `LineEditor` | buffer of 3, every kind of key but terminal switches |
| `keyboard_read` | an undisturbed read is exact and returns | buffer of 3, two terminals |
| `keyboard_overrun` | violated: a switch before `get_kbd_buf` makes the copy loop leave an empty buffer | buffer of 3, two terminals |
| `keyboard_delivery` | violated: an entered line is never delivered | buffer of 3 |
| `filesystem` | loop bounds, positions, result, bytes, termination | blocks of 4 bytes, files of 4 to 8, two processes |
| `filesystem_exact` | violated: a read from inside a block to its end | as above |
| `console` | position on screen, stores in the page, cursor registers, cursor shown, screens restored | 2 by 2 screen and one cell behind it, 2 terminals, 2 keys |
| `launch` | the named program runs; `getargs` exact | commands of 4 bytes, names of 2, 3 processes |
| `interrupts` | service bits, register selection, gates, `IF`, rotation, RTC reads, keys | nesting 4, 2 requests per device and burst |

Why the bounds are enough. Three programs give a process with both a parent and
a child, and a full system; the theorems cover the code's six. The program
counts of one terminal can go below zero, and `NumFloor` stops `halt` from
being explored there. A buffer of 3 has an empty, a partly filled and a full
line; nothing depends on 128. Blocks of 4 bytes with requests of 1, 3, 5 and 8
reach every case of a range (inside a block, to its end, across one and two
ends, at the end of the file); one file has a bad block, one of exactly one block
has a bad entry behind it. `OffsetFloor` bounds
how often failed reads move a position below zero. Four frames are a program,
its system call and two handlers, or three handlers over a program, which
includes a handler interrupted by a second instance of itself.
A 2 by 2 screen has a position that wraps, one that scrolls and one that does
neither; the one cell behind it distinguishes a store that goes astray within
the page from one that leaves it. Two keys are enough for a switch away and back
and for a key in the middle of `putc` after another; programs write for ever
and are not bounded. `CursorByte` 2 makes every position need both registers.
Commands of 4 bytes have a name, a separator and an argument of up to two
characters, every position of blanks and terminators, and a name that fills the
line; names of 2 bytes are filled by a word and exceeded by a longer one. Three
processes let a PCB be used again below a process that is still alive.

Deadlock is checked everywhere. No run uses a constraint or symmetry.

Fairness. `Process`: the CPU goes on with kernel code (weak fairness of the
steps of `halt` and of boot); programs and the user may stop. `Keyboard`: the
program goes on reading, nothing is assumed of the user. `FileSystem`: the loop
goes on. `Console` and `Launch` have safety properties only and state no fairness.
`Interrupts`: the CPU executes, a deliverable interrupt is taken, the
RTC ticks. An interrupt that can be taken is taken before the next instruction,
as on the real CPU. The periods of the devices (50ms for the PIT) are far longer
than any handler; this is expressed by `MaxBurst`, a limit on the requests of
one device while handlers keep interrupting the same piece of code, without
which a fast enough device would starve everything else.

## What the violations say

Each violated property states a line of the repository, quoted in
`PROJECT.json`. The PCB's `esp` is not always the parent's (`process_resume`);
`halt` starts shells for programs that are not shells (`process_restart`).
`term_read` is not limited to 128 bytes, because the terminal may be switched
between its poll and its look at the buffer (`keyboard_overrun`), and it does not
always deliver the input (`keyboard_delivery`). `read_data` copies from the start
of a block when it should copy from inside it (`filesystem_exact`).

`NeverOverruns` fails for a second reason that needs one terminal only: the
handler may replace the buffer under the copy loop, so that the newline lands
on a byte that was already tested. `MCKeyboardOverrun.cfg` with one terminal and the keys `a` and Enter shows it.

Three passing properties state what the code does where a comment says something
else, and name the comment. `ContextOfCurrent`: the first program is not at "8MB"
(`paging.c:70`) but in the kernel's page. `ReadResult`: `read_data` does not always
return "the number of bytes read" (`filesystem.c:277`) or 0 at the end of a file
(lines 278 and 290): after the last block of a file of whole blocks it looks at the
entry behind, and if that is no block of the disk it returns -1, everything copied.
The image in the repository has no file of whole blocks, and its unused entries
are 0. `GetargsExact`: of "rest are args for the program" (`syscalls.c:173`) the
program gets the first word. These are findings too. A fourth divergence has no
property: a directory listing goes on where the last one, of whichever program,
stopped, though `fs_dir_read` speaks of all names and of no side effects
(`filesystem.c:82`, 86).

Some passing properties of `Console` leave out, in their exceptions, exactly the
windows of the hazards next to them, and say nothing there. `CursorOnScreen`: a
switch between `putc`'s increment and its scroll saves a position off the screen.
`StoresInPage`: a key in that window may store behind the screen, and in the end
outside the page. `CursorShown`: a key between `putc`'s reading of the position
and its last register write, or Ctrl-L, leaves the cursor elsewhere.
`ScreenRestored` is about the cells before the first 0 byte only, since the code
saves no others: for a screen whose first cell is 0, as after the first switch to
a terminal, it is about position and cursor alone. No line of the repository
promises otherwise, so these are not stated as violations. `UndisturbedReadExact`
is likewise about reads during which no key comes; what keys during a read do is
shown by the violations of `NeverOverruns` and `LineDelivered`. `PositionWithinFile` bounds a
position from above; that a failed read moves it back, below 0 even, is why
`ReadResult` covers reads from there. Two more limits show in `Launch`: the 0
behind a name of 128 characters, and an argument read from behind a terminator.

## Proofs

Every safety property of a passing run, invariant or action property, is proved
for all values of the constants that the assumptions allow, and so is the
refinement of `LineEditor`. Each proof is an inductive invariant, which TLC
checked before it was proved, with one lemma or step per action.

`ProcessProofs`: every limit of one to six programs, every frame size of at most
3000 bytes, every set of terminals. `IInv` strengthens the properties by the
exact context of the running process (`ExactContext`), by what the PCBs of live
slots contain (`LiveSlots`) and by where saved stack pointers lie
(`ExactFrames`), and by who is suspended: exactly the processes below the
running one, each as it was (`Suspension`). `halt` finds its PCB by masking its
stack pointer, so that the counts are right only if the stacks are, and
conversely. The lemmas do the address arithmetic: masking a frame's address
yields the block that holds it.

`FileSystemProofs`: every block size, all files and requests, any number of
processes. `FInv` adds that the parameters of the call are the descriptor's
(`CallExact`), that after its first iteration the loop is at the start of a block
(`LoopAligned`), which of the bytes copied so far are right (`LoopExact`) and that
the blocks behind it were on the disk (`LoopChecked`), which is what `ReadResult`
needs. The lemmas `BlockSplit`, `NextBlock`, `SameBlock` and `BlockOrder` hold the
division by the block size.
`ReadProgress` is the safety part of `ReadEnds`: every iteration returns or
advances `read_byte`, which never passes a `left_length` that stays put.

`KeyboardProofs`: every buffer size from 2 on and every set of keys. `KInv` says
that every terminal is well formed (its line is shorter than the buffer and
holds printable characters only; an output buffer that is announced has a
newline) and how far an undisturbed `term_read` has come. The refinement
`KeyboardImplementsLineEditor` maps the first `kbd_line_cnt` bytes of a
terminal's buffer to the abstract line; each key is an abstract step of one
terminal or a stutter, each step of `term_read` a stutter.

`InterruptsProofs`: every depth of nesting from three frames on, every burst.
The properties are about one frame, while any number of handlers may lie above
or below it, so `IInv` is about the whole stack: its shape (`StackShape`: one
program, at most one system call or the boot sequence above it, then handlers,
none of them suspended inside a `cli`), the interrupt flag as a function of where
the top frame is (`FlagExact`), the flags every frame will restore (`Restores`:
set for a program that `execute` starts, by its `orl` alone), and the
service bits as a function of the frames
that have not sent their EOI (`InServiceExact`, which is its own strengthening).
From these follow that an RTC access is never interrupted between index and
data, that `rtc_write`'s EOI finds no line in service but its own, and that
`pit_handler` is never interrupted before it has stored the turn (`TurnExact`).

`ConsoleProofs`: every size of screen, every page that ends within the row
behind it, every prompt shorter than a row, any number of keys. `Position` gives
for every instruction of `putc` how far out the position may be (one column
behind a row, one row below the screen, or neither) and from where the value it
has loaded comes; the lemmas `PutcWithin`, `PutsWithin` and `EraseWithin` show
that the handler's echo never takes the position further out than it found it,
so that it does not matter before which instruction a key comes. `Sending` follows
a cursor position through the two registers, `Kept` relates a saved screen to what
the user saw. `puts` is a fold over the text; `PutsKeeps` proves by induction
over the length of the text that it preserves what `putc` does.

`LaunchProofs`: every buffer size, directory and number of processes. `ScanFirst`
proves that the recursive definition of the parsing loops has a solution and
that every solution stops at the first separator; `NameEndIs` and `ArgIs` that
what the loops find is what the reference `Asked` says of the name and of the
word behind it; `MatchIs` that `strncmp`
and equality of zero-padded names agree. `IInv` then only has to say that every
living process has kept what it was started with (`ArgsKept`, `ArgsEnded`).

Inductions over data (a text, a loop) are done by the least counterexample:
`NaturalLemmas` derives least elements of sets of natural numbers from the
library's well-founded relations, and induction for membership in a set, which
unlike the library's induction rule needs no operator as a parameter.

Only model-checked: liveness (`HaltCompletes`, `ReadReturns`, `ReadEnds`,
`RtcReadReturns`, `KeyServed`), because fairness and `ENABLED` are out of the
prover's reach, and the violations, which are counterexamples.

Assumptions are those named in the modules (`MaxProgramsAssumption`,
`FrameSizeAssumption`, `BlockAssumption`, `SizeAssumption` and so on); TLC
evaluates them in every run of the module. `MaxNestAssumption` asks for three
frames because a program, its system call and one handler need them.

## Not modelled

The exception stubs print and stop, and only the page fault has a cause in a
model. `switch_context`, `disable_irq`, `disable_cursor` and
`remap_terminal_schedule` are never called; `sigreturn` and `set_handler` only
return -1. Descriptor tables, `paging_setup` and the VGA's mode registers are
constant data written once before anything else runs. The rate that `rtc_write`
computes is sent to the chip and read by nothing: its failure branch cannot be
taken, because the rate it tests is always a power of two or 0. `printf`'s
formats, `itoa` and `strrev` produce messages, whose wording no property is
about. What the first shell's image overwrites in the kernel's page depends on the
size of the kernel. The user programs are binaries in the file system image; `tests.c` is
disabled.

## Plan

All modules of the plan are written and all their safety properties proved. Left:

1. the safety half of `HaltCompletes`: a measure that every step of the call
   decreases, as a theorem (`ReadProgress` is that for `ReadEnds` of `FileSystem`);
2. what the exceptions of the proved properties leave open, as theorems about the
   complement: which states a program can reach after a switch inside `putc`.
