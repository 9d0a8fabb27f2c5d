------------------------------ MODULE FileSystem ------------------------------
(***************************************************************************)
(* Open files and the reading of them: the file descriptor tables of the   *)
(* processes (open, close and read of syscalls.c, with what execute and    *)
(* halt do to them), directory reading, and read_data (filesystem.c),      *)
(* which copies a range of a file out of its 4KB blocks.                   *)
(*                                                                         *)
(* No interrupt handler touches this state, so only the loop of read_data  *)
(* takes more than one step: one per iteration, so that what the loop      *)
(* keeps invariant can be stated and proved.  The content of a file is     *)
(* abstracted to positions: the byte at position p of a file is p.         *)
(***************************************************************************)
EXTENDS Integers

CONSTANTS
    FOUR_KB,       \* bytes of a block (4096 in the code)
    Inodes,        \* the regular files
    FileLength,    \* inode_t.length of each
    BadBlocks,     \* <<inode, i>>: data_block_num[i] is not a block of the disk
    DirEntries,    \* boot_block.dir_count
    FD_MAX_FILE,   \* descriptors of a process are 2..FD_MAX_FILE - 1 (8 in the code)
    ReadSizes,     \* the nbytes programs ask for
    BufSize,       \* memory at the caller's buffer, more than any nbytes
    MaxProcs,      \* bound: processes alive at once
    OffsetFloor    \* bound: a file position is not moved below this

ASSUME BlockAssumption == FOUR_KB \in Nat \ {0}
ASSUME LengthAssumption == Inodes # {} /\ FileLength \in [Inodes -> Nat]
ASSUME SizesAssumption ==
    /\ ReadSizes \subseteq Nat
    /\ BufSize \in Nat
    /\ \A n \in ReadSizes : n <= BufSize
ASSUME BoundsAssumption ==
    /\ DirEntries \in Nat
    /\ FD_MAX_FILE \in Nat
    /\ MaxProcs \in Nat \ {0}
    /\ OffsetFloor \in Int /\ OffsetFloor < 0

VARIABLES
    active,      \* the running process; 0..active are alive
    file_array,  \* file_array[p][fd]
    dir_count,   \* next directory entry: one counter for every reader
    rpc,         \* "idle", or "loop" inside read_data
    rfd,         \* the descriptor being read
    inode, offset, length,            \* read_data's parameters
    left_length, read_byte, buf,      \* and its variables
    ret          \* what the last read returned

call == <<rpc, rfd, inode, offset, length, left_length, read_byte, buf, ret>>
vars == <<active, file_array, dir_count, call>>

-----------------------------------------------------------------------------
Procs == 0..(MaxProcs - 1)
FDs == 2..(FD_MAX_FILE - 1)

AnyInode == CHOOSE f \in Inodes : TRUE

(* A descriptor that is not in use, as execute and close leave it.         *)
Closed == [kind |-> "closed", inode |-> AnyInode, offset |-> 0]

(* dentry.filetype 0, 1 and 2.  Only a regular file's inode is kept.       *)
Opened(kind, f) == [kind |-> kind, inode |-> f, offset |-> 0]

NoFiles == [fd \in FDs |-> Closed]

(* Marks a byte of the caller's buffer that read_data has not stored to.   *)
Untouched == -1
EmptyBuf == [j \in 0..(BufSize - 1) |-> Untouched]

Init ==
    /\ active = 0
    /\ file_array = [p \in Procs |-> NoFiles]
    /\ dir_count = 0
    /\ rpc = "idle" /\ rfd = 2
    /\ inode = AnyInode /\ offset = 0 /\ length = 0
    /\ left_length = 0 /\ read_byte = 0 /\ buf = EmptyBuf /\ ret = 0

-----------------------------------------------------------------------------
(* The processes' descriptor tables.                                       *)

(* execute gives the new process an empty table.                           *)
Execute ==
    /\ rpc = "idle"
    /\ active < MaxProcs - 1
    /\ active' = active + 1
    /\ file_array' = [file_array EXCEPT ![active + 1] = NoFiles]
    /\ UNCHANGED <<dir_count, call>>

(* Mutation: the last process is counted out as well.                      *)
HaltLast ==
    /\ rpc = "idle"
    /\ active' = active - 1
    /\ file_array' = [file_array EXCEPT ![active] = NoFiles]
    /\ UNCHANGED <<dir_count, call>>

(* halt closes the files of the process and goes back to its parent; where *)
(* it starts a shell in its place, that shell gets a new table.            *)
Halt ==
    /\ rpc = "idle"
    /\ active' \in IF active = 0 THEN {0} ELSE {active - 1, active}
    /\ file_array' = [file_array EXCEPT ![active] = NoFiles]
    /\ UNCHANGED <<dir_count, call>>

(* The lowest free descriptor is taken.  An unknown name, or a full table, *)
(* is -1 and changes nothing.                                              *)
Open(entry) ==
    /\ rpc = "idle"
    /\ \E fd \in FDs :
        /\ file_array[active][fd].kind = "closed"
        /\ \A g \in 2..(fd - 1) : file_array[active][g].kind # "closed"
        /\ file_array' = [file_array EXCEPT ![active][fd] = entry]
        /\ UNCHANGED <<active, dir_count, call>>

Close(fd) ==
    /\ rpc = "idle"
    /\ file_array[active][fd].kind # "closed"
    /\ file_array' = [file_array EXCEPT ![active][fd] = Closed]
    /\ UNCHANGED <<active, dir_count, call>>

NextEntry == IF dir_count + 1 > DirEntries THEN 0 ELSE dir_count + 1

(* read finds the descriptor in use, and its table names the driver.       *)
Dispatch(fd, kind) ==
    /\ rpc = "idle"
    /\ file_array[active][fd].kind = kind

(* fs_dir_read copies the name of entry dir_count, then steps the counter, *)
(* which is global; past the last entry it starts again and returns 0.     *)
ReadDir(fd) ==
    /\ Dispatch(fd, "dir")
    /\ dir_count' = NextEntry
    /\ UNCHANGED <<active, file_array, call>>

-----------------------------------------------------------------------------
(* read of a regular file.                                                 *)

(* fs_file_read adds what read_data returned to the position, also -1.     *)
Return(fd, r) ==
    /\ ret' = r
    /\ rpc' = "idle"
    /\ file_array' = [file_array EXCEPT ![active][fd].offset = @ + r]

(* Mutation: the end of the file itself is out of range.                   *)
OutOfRangeAtEnd(off, f) == off < 0 \/ off >= FileLength[f]

(* offset > length, compared as unsigned numbers.                          *)
OutOfRange(off, f) == off < 0 \/ off > FileLength[f]

(* Mutation: the position is forgotten in the comparison.                  *)
ClampForgetsOffset(n, off, f) ==
    IF n > FileLength[f] THEN FileLength[f] - off ELSE n

(* What there is to read: n bytes, or those up to the end of the file.     *)
Clamp(n, off, f) ==
    IF n + off > FileLength[f] THEN FileLength[f] - off ELSE n

StartRead(fd, n) ==
    LET e == file_array[active][fd]
    IN  /\ Dispatch(fd, "file")
        /\ rfd' = fd
        /\ inode' = e.inode
        /\ offset' = e.offset
        /\ length' = n
        /\ read_byte' = 0
        /\ buf' = EmptyBuf
        /\ \/ /\ n = 0 \/ OutOfRange(e.offset, e.inode)
              /\ e.offset > OffsetFloor
              /\ left_length' = 0
              /\ Return(fd, -1)
           \/ /\ n # 0 /\ ~OutOfRange(e.offset, e.inode)
              /\ left_length' = Clamp(n, e.offset, e.inode)
              /\ rpc' = "loop"
              /\ UNCHANGED <<ret, file_array>>
        /\ UNCHANGED <<active, dir_count>>

blk == (read_byte + offset) \div FOUR_KB
in_blk_pos == (read_byte + offset) % FOUR_KB

(* memcpy(buf + read_byte, block + from, n): position p of block b of the  *)
(* file holds byte b * FOUR_KB + p of it.                                  *)
Copied(from, n) ==
    [j \in DOMAIN buf |->
        IF read_byte <= j /\ j < read_byte + n
        THEN blk * FOUR_KB + from + (j - read_byte) ELSE buf[j]]

(* All that is left lies inside the current block.                         *)
FitsBlock == left_length - read_byte + in_blk_pos < FOUR_KB

BadBlock ==
    /\ rpc = "loop"
    /\ <<inode, blk>> \in BadBlocks
    /\ Return(rfd, -1)
    /\ UNCHANGED <<active, dir_count, rfd, inode, offset, length,
                   left_length, read_byte, buf>>

(* Mutation: the rest is taken from the start of the block.                *)
CopyTailFromStart ==
    /\ rpc = "loop"
    /\ <<inode, blk>> \notin BadBlocks
    /\ FitsBlock
    /\ buf' = Copied(0, left_length - read_byte)
    /\ read_byte' = left_length
    /\ Return(rfd, left_length)
    /\ UNCHANGED <<active, dir_count, rfd, inode, offset, length, left_length>>

CopyTail ==
    /\ rpc = "loop"
    /\ <<inode, blk>> \notin BadBlocks
    /\ FitsBlock
    /\ buf' = Copied(in_blk_pos, left_length - read_byte)
    /\ read_byte' = left_length
    /\ Return(rfd, left_length)
    /\ UNCHANGED <<active, dir_count, rfd, inode, offset, length, left_length>>

(* Mutation: a whole block is counted wherever the range starts in it.     *)
else_byte_whole == FOUR_KB

else_byte == IF FOUR_KB - in_blk_pos > left_length - read_byte
             THEN left_length - read_byte ELSE FOUR_KB - in_blk_pos

(* Mutation: the loop counter is not advanced.                             *)
CopyBlockStays ==
    /\ rpc = "loop"
    /\ <<inode, blk>> \notin BadBlocks
    /\ ~FitsBlock
    /\ buf' = Copied(0, else_byte)
    /\ UNCHANGED <<active, file_array, dir_count, rpc, rfd, inode, offset, length,
                   left_length, read_byte, ret>>

(* The range reaches the end of the current block.  The copy starts at the *)
(* block's first byte, not at in_blk_pos.                                  *)
CopyBlock ==
    /\ rpc = "loop"
    /\ <<inode, blk>> \notin BadBlocks
    /\ ~FitsBlock
    /\ buf' = Copied(0, else_byte)
    /\ read_byte' = read_byte + else_byte
    /\ UNCHANGED <<active, file_array, dir_count, rpc, rfd, inode, offset, length,
                   left_length, ret>>

Loop == BadBlock \/ CopyTail \/ CopyBlock

Entries == {Opened("rtc", AnyInode), Opened("dir", AnyInode)}
             \cup {Opened("file", f) : f \in Inodes}

Next ==
    \/ Execute
    \/ Halt
    \/ \E entry \in Entries : Open(entry)
    \/ \E fd \in FDs : Close(fd) \/ ReadDir(fd)
    \/ \E fd \in FDs, n \in ReadSizes : StartRead(fd, n)
    \/ Loop

(* The CPU goes on with the loop; programs need not call anything.         *)
Spec == Init /\ [][Next]_vars /\ WF_vars(Loop)

-----------------------------------------------------------------------------
TypeOK ==
    /\ active \in Procs
    /\ file_array \in [Procs -> [FDs -> [kind : {"closed", "rtc", "dir", "file"},
                                        inode : Inodes, offset : Int]]]
    /\ dir_count \in 0..DirEntries
    /\ rpc \in {"idle", "loop"}
    /\ rfd \in Nat
    /\ inode \in Inodes /\ offset \in Int /\ length \in Nat
    /\ left_length \in Nat /\ read_byte \in Nat
    /\ buf \in [0..(BufSize - 1) -> Int]
    /\ ret \in Int

(* Inside the loop the bytes copied so far never exceed the request or the *)
(* end of the file, and nothing beyond them has been stored: the loop's    *)
(* condition read_byte <= left_length cannot be what ends it, and a        *)
(* caller's buffer of nbytes is enough.                                    *)
StaysInRequest ==
    /\ read_byte <= left_length
    /\ \A j \in DOMAIN buf : j >= read_byte => buf[j] = Untouched
    /\ left_length <= length
    /\ rpc = "loop" => offset + left_length <= FileLength[inode]

(* Whatever processes read, fail to read and start each other meanwhile,   *)
(* fs_file_read never moves a position past the end of its file.           *)
PositionWithinFile ==
    \A p \in Procs, fd \in FDs :
        file_array[p][fd].offset <= FileLength[file_array[p][fd].inode]

(* What read_data gets right: every byte from the second block of the      *)
(* range on, and the first block's too if the range starts with the block  *)
(* or ends inside it.                                                      *)
Correct(j) == buf[j] = offset + j

ExactBeyondFirstBlock ==
    rpc = "idle" /\ ret > 0 =>
        LET pos == offset % FOUR_KB
        IN  \A j \in 0..(ret - 1) :
                pos = 0 \/ pos + ret < FOUR_KB \/ pos + j >= FOUR_KB => Correct(j)

(* What read_data says to a call that asks for something.  The loop looks  *)
(* at the entry of every block from the one of offset to the one of        *)
(* offset + Clamp(...), the last of which lies behind the range (and maybe *)
(* behind the file) when the range ends with a block.  If one of them is   *)
(* not on the disk the call fails, however much it has copied: at the end  *)
(* of a file of whole blocks that may be -1 where the comments promise the *)
(* number of bytes read, and 0 for the end of the file (filesystem.c:277,  *)
(* 278 and 290).  It also fails from a position before or behind the file. *)
(* In all other cases it returns what there is to read, which is 0 only at *)
(* the end of the file.                                                    *)
LastBlock == (offset + Clamp(length, offset, inode)) \div FOUR_KB

ReadResult ==
    rpc = "idle" /\ length > 0 =>
        IF \/ offset < 0 \/ offset > FileLength[inode]
           \/ \E b \in (offset \div FOUR_KB)..LastBlock : <<inode, b>> \in BadBlocks
        THEN ret = -1
        ELSE ret = Clamp(length, offset, inode)

(* Every read of a file ends.                                              *)
ReadEnds == rpc = "loop" ~> rpc = "idle"

(* "reading up to length bytes starting from position offset in the file"  *)
(* (filesystem.c): the bytes returned are those of the file.               *)
ReadExact == rpc = "idle" /\ ret > 0 => \A j \in 0..(ret - 1) : Correct(j)
=============================================================================
