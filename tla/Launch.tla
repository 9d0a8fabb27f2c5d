-------------------------------- MODULE Launch --------------------------------
(***************************************************************************)
(* From a command to a running program and its argument: execute's parsing *)
(* of the command (syscalls.c), the search of the directory by name        *)
(* (filesystem.c, with strncmp and strlen of lib.c), the argument kept in  *)
(* the PCB across nested calls of execute and halt, and getargs.           *)
(*                                                                         *)
(* Each call is one step: execute runs with interrupts disabled and no     *)
(* handler touches what getargs reads.  Memory is a function from offsets  *)
(* to characters; a command is the KBD_BUF_SIZE bytes at the pointer a     *)
(* program passes, whatever lies behind its terminator.                    *)
(***************************************************************************)
EXTENDS Integers, FiniteSetsExt

CONSTANTS
    KBD_BUF_SIZE,   \* bytes of exe_fname, and bytes of a command that are read (128)
    FILENAME_LEN,   \* bytes of a name in the directory (32)
    ArgSize,        \* bytes of pcb_t.arg (_1KB)
    Letters,
    Directory,      \* the entries: [filename, exe], exe if the file has the ELF magic
    Shell,          \* the entry of the shell
    MaxProcs        \* bound: processes alive at once

NUL == "NUL"
NL == "NL"
BLANK == " "
Chars == Letters \cup {NUL, NL, BLANK}
Stops == {NL, BLANK, NUL}

(* Only zeros follow the first one in a name, as in filesys_img.           *)
Name == {f \in [0..(FILENAME_LEN - 1) -> Letters \cup {NUL}] :
            \A j \in DOMAIN f : f[j] = NUL => \A i \in j..(FILENAME_LEN - 1) : f[i] = NUL}

ASSUME SizeAssumption ==
    /\ KBD_BUF_SIZE \in Nat \ {0}
    /\ FILENAME_LEN \in 1..KBD_BUF_SIZE
    /\ ArgSize \in Nat /\ ArgSize >= KBD_BUF_SIZE
    /\ MaxProcs \in Nat \ {0}
ASSUME DirectoryAssumption ==
    /\ Letters \cap Stops = {}
    /\ IsFiniteSet(DOMAIN Directory) /\ DOMAIN Directory = 1..Cardinality(DOMAIN Directory)
    /\ \A e \in DOMAIN Directory : Directory[e].filename \in Name /\ Directory[e].exe \in BOOLEAN
    /\ Shell \in DOMAIN Directory

VARIABLES
    active_proc,   \* the running process; 0..active_proc are alive
    pcb,           \* each process's file and argument
    cpu,           \* "boot", "user", or "smashed": exe_fname[KBD_BUF_SIZE] was stored to
    buf,           \* what the last getargs left at its caller's buffer
    nbytes, ret,   \* its size and its result; "none" when another call followed
    asked          \* what the command each process was started with asks for (auxiliary)

vars == <<active_proc, pcb, cpu, buf, nbytes, ret, asked>>

Procs == 0..(MaxProcs - 1)
Commands == [0..(KBD_BUF_SIZE - 1) -> Chars]
ArgSpace == 0..(ArgSize - 1)

(* Bytes nobody has stored to.                                             *)
Garbage == [i \in ArgSpace |-> "garbage"]
NoArg == [i \in ArgSpace |-> NUL]

-----------------------------------------------------------------------------
(* The parsing loop that starts at byte i stops at a separator or at the   *)
(* end of the command buffer.                                              *)
Scan(command, i) ==
    LET at[k \in i..KBD_BUF_SIZE] ==
            IF k = KBD_BUF_SIZE \/ command[k] \in Stops THEN k ELSE at[k + 1]
    IN  IF i > KBD_BUF_SIZE THEN i ELSE at[i]

(* The characters command[from] .. command[to - 1], followed by zeros.     *)
Word(command, from, to, size) ==
    [j \in 0..(size - 1) |-> IF from + j < to THEN command[from + j] ELSE NUL]

(* Index of the 0 stored behind the file name.                             *)
NameEnd(command) == Scan(command, 0)

exe_fname(command) == Word(command, 0, NameEnd(command), KBD_BUF_SIZE)

(* Mutation: the separator itself is taken for the argument's first byte.  *)
exe_argsAtSeparator(command) ==
    LET from == NameEnd(command)
    IN  Word(command, from, Scan(command, from), ArgSize)

(* The word behind the first separator, which is skipped whatever it is.   *)
exe_args(command) ==
    LET from == NameEnd(command) + 1
    IN  Word(command, from, Scan(command, from), ArgSize)

strlen(s) == Min({i \in DOMAIN s : s[i] = NUL} \cup {Cardinality(DOMAIN s)})

(* strncmp(s1, s2, n) == 0.                                                *)
strncmp(s1, s2, n) ==
    \A i \in 0..(n - 1) :
        (\A j \in 0..(i - 1) : s1[j] = s2[j] /\ s1[j] # NUL) => s1[i] = s2[i]

(* Mutation: names are compared up to the length of the directory's one.   *)
MatchesPrefix(fname) ==
    {e \in DOMAIN Directory :
        strncmp(Directory[e].filename, fname, strlen(Directory[e].filename))}

Matches(fname) ==
    {e \in DOMAIN Directory : strncmp(Directory[e].filename, fname, FILENAME_LEN)}

(* The first entry of that name, or none.                                  *)
read_dentry_by_name(fname) ==
    IF strlen(fname) = 0 \/ Matches(fname) = {} THEN {} ELSE {Min(Matches(fname))}

(* What a command says, apart from how execute finds it out: its text ends *)
(* with the first 0 or newline, and blanks cut the text into words.        *)
TextEnd(c) == Min({i \in DOMAIN c : c[i] \in {NUL, NL}} \cup {KBD_BUF_SIZE})

Cuts(c) == {i \in 0..(TextEnd(c) - 1) : c[i] = BLANK} \cup {TextEnd(c)}

(* Only zeros follow the text, as in a line of the shell.                  *)
Padded(c) == \A i \in DOMAIN c : i > TextEnd(c) => c[i] = NUL

(* What a command asks for: the first word, as far as a name of the        *)
(* directory can tell; the rest of the text, behind the blank that ends    *)
(* the first word; and the first word of the rest.  The last two are not   *)
(* certain of a single word with other bytes behind its terminator.        *)
Asked(c) ==
    LET one == Min(Cuts(c))
        two == Min((Cuts(c) \ {one}) \cup {TextEnd(c)})
    IN  [name |-> [i \in 0..(FILENAME_LEN - 1) |-> IF i < one THEN c[i] ELSE NUL],
         rest |-> [i \in ArgSpace |-> IF one + 1 + i < TextEnd(c) THEN c[one + 1 + i] ELSE NUL],
         arg  |-> [i \in ArgSpace |-> IF one + 1 + i < two THEN c[one + 1 + i] ELSE NUL],
         sure |-> one < TextEnd(c) \/ Padded(c)]

Nothing == Asked([i \in 0..(KBD_BUF_SIZE - 1) |-> NUL])

-----------------------------------------------------------------------------
Init ==
    /\ active_proc = -1
    /\ pcb = [p \in Procs |-> [file |-> Shell, arg |-> Garbage]]
    /\ cpu = "boot"
    /\ buf = Garbage /\ nbytes = 0 /\ ret = "none"
    /\ asked = [p \in Procs |-> Nothing]

NoResult == buf' = Garbage /\ nbytes' = 0 /\ ret' = "none"

(* Mutation: the last argument in that PCB is not erased.                  *)
SaveArgOver(p, arg) ==
    [i \in ArgSpace |-> IF i < strlen(arg) THEN arg[i] ELSE pcb[p].arg[i]]

(* memset of all of pcb_t.arg, then memcpy of the argument.                *)
SaveArg(p, arg) == arg

(* The store of the name's 0 is behind exe_fname.                          *)
NameTooLong(command) == NameEnd(command) > KBD_BUF_SIZE - 1

(* The commands execute runs, and the ones it returns -1 for: no such      *)
(* file, or a file that is no program.                                     *)
Runnable ==
    {c \in Commands : /\ ~NameTooLong(c)
                      /\ \E e \in read_dentry_by_name(exe_fname(c)) : Directory[e].exe}

Refused == {c \in Commands : ~NameTooLong(c)} \ Runnable

(* What execute makes of a command.                                        *)
Parsed(c) == [file  |-> CHOOSE e \in read_dentry_by_name(exe_fname(c)) : TRUE,
              arg   |-> exe_args(c),
              asked |-> Asked(c)]

Launches == {Parsed(c) : c \in Runnable}

(* execute("shell"), called by the kernel: what follows the literal in     *)
(* memory is not known.                                                    *)
ShellLaunches ==
    {Parsed(c) : c \in {d \in Runnable : /\ d[NameEnd(d)] = NUL
                                         /\ Shell \in read_dentry_by_name(exe_fname(d))}}

(* execute after its checks, for process p.  The first process gets no     *)
(* argument.                                                               *)
Start(p, l) ==
    /\ active_proc' = p
    /\ pcb' = [pcb EXCEPT ![p] = [file |-> l.file,
                                  arg  |-> SaveArg(p, IF p = 0 THEN NoArg ELSE l.arg)]]
    /\ asked' = [asked EXCEPT ![p] = l.asked]
    /\ cpu' = "user"
    /\ NoResult

Boot ==
    /\ cpu = "boot"
    /\ \E l \in ShellLaunches : Start(0, l)

Execute(l) ==
    /\ cpu = "user"
    /\ active_proc < MaxProcs - 1
    /\ Start(active_proc + 1, l)

ExecuteRefused ==
    /\ cpu = "user"
    /\ Refused # {}
    /\ NoResult
    /\ UNCHANGED <<active_proc, pcb, cpu, asked>>

(* What a store behind exe_fname does to execute's frame is not modelled.  *)
ExecuteSmashes ==
    /\ cpu = "user"
    /\ \E c \in Commands : NameTooLong(c)
    /\ cpu' = "smashed"
    /\ NoResult
    /\ UNCHANGED <<active_proc, pcb, asked>>

(* halt goes back to the parent.                                           *)
Halt ==
    /\ cpu = "user"
    /\ active_proc > 0
    /\ active_proc' = active_proc - 1
    /\ asked' = [asked EXCEPT ![active_proc] = Nothing]
    /\ NoResult
    /\ UNCHANGED <<pcb, cpu>>

(* halt starts a shell in place of the halted process.                     *)
HaltRestart ==
    /\ cpu = "user"
    /\ \E l \in ShellLaunches : Start(active_proc, l)

(* getargs with a buffer of n bytes.  The memset clears ArgSize bytes of   *)
(* the caller's memory whatever n is.                                      *)
getargs(n) ==
    LET arg == pcb[active_proc].arg
    IN  /\ cpu = "user"
        /\ nbytes' = n
        /\ IF n < strlen(arg) + 1 \/ strlen(arg) = 0
           THEN ret' = "failed" /\ buf' = Garbage
           ELSE ret' = "done" /\ buf' = [i \in ArgSpace |-> IF i < strlen(arg) THEN arg[i]
                                                                             ELSE NUL]
        /\ UNCHANGED <<active_proc, pcb, cpu, asked>>

Smashed ==
    /\ cpu = "smashed"
    /\ UNCHANGED vars

Next ==
    \/ Boot
    \/ \E l \in Launches : Execute(l)
    \/ ExecuteRefused
    \/ ExecuteSmashes
    \/ Halt
    \/ HaltRestart
    \/ \E n \in 0..ArgSize : getargs(n)
    \/ Smashed

Spec == Init /\ [][Next]_vars

-----------------------------------------------------------------------------
TypeOK ==
    /\ active_proc \in -1..(MaxProcs - 1)
    /\ DOMAIN pcb = Procs
    /\ \A p \in 0..active_proc :
          pcb[p] \in [file : DOMAIN Directory, arg : [ArgSpace -> Chars]]
    /\ cpu \in {"boot", "user", "smashed"}
    /\ buf \in [ArgSpace -> Chars \cup {"garbage"}]
    /\ nbytes \in 0..ArgSize /\ ret \in {"none", "done", "failed"}
    /\ DOMAIN asked = Procs

(* The program that runs is the executable named by the first word of the  *)
(* command, of which only FILENAME_LEN characters count, and no entry      *)
(* before it in the directory has that name.                               *)
RunsNamed ==
    cpu = "user" =>
        \A p \in 0..active_proc :
            /\ Directory[pcb[p].file].exe
            /\ Directory[pcb[p].file].filename = asked[p].name
            /\ \A e \in 1..(pcb[p].file - 1) : Directory[e].filename # asked[p].name

(* getargs gives a program the first word of the rest of the command it    *)
(* was started with, whatever commands it started itself, and ended,       *)
(* since, and whoever used its PCB before; it fails if there is no such    *)
(* word, or if the word and its 0 do not fit.  If the rest has a blank,    *)
(* this is not all of it: execute's comment, "first word is file name and  *)
(* rest are args for the program" (syscalls.c:173), does not hold, because *)
(* the loop below it ends at the next blank.                               *)
GetargsExact ==
    LET arg == asked[active_proc].arg
        rest == asked[active_proc].rest
    IN  ret # "none" /\ active_proc > 0 /\ asked[active_proc].sure =>
            IF arg[0] = NUL \/ nbytes = 0 \/ arg[nbytes - 1] # NUL THEN ret = "failed"
            ELSE /\ ret = "done" /\ buf = arg
                 /\ \A i \in ArgSpace : rest[i] = BLANK => buf # rest
=============================================================================
