--------------------------- MODULE FileSystemProofs ---------------------------
(***************************************************************************)
(* read_data is right as far as FileSystem says, for every block size, all *)
(* files and all requests: what its loop keeps invariant.                  *)
(***************************************************************************)
EXTENDS FileSystem, TLAPS

(* The parameters of the call are the descriptor's.                        *)
CallExact ==
    rpc = "loop" =>
        /\ rfd \in FDs
        /\ file_array[active][rfd].inode = inode
        /\ file_array[active][rfd].offset = offset
        /\ offset >= 0
        /\ length > 0
        /\ length <= BufSize
        /\ left_length = Clamp(length, offset, inode)

(* After its first iteration the loop is at the start of a block, and it   *)
(* got there because the range does not end in the first one.              *)
LoopAligned ==
    rpc = "loop" =>
        /\ read_byte = 0 \/ in_blk_pos = 0
        /\ read_byte > 0 => (offset % FOUR_KB) + left_length >= FOUR_KB

(* The bytes copied so far, those of an unaligned first block aside.       *)
LoopExact ==
    rpc = "loop" =>
        \A j \in 0..(read_byte - 1) :
            offset % FOUR_KB = 0 \/ (offset % FOUR_KB) + j >= FOUR_KB => Correct(j)

(* No entry that the loop has passed is off the disk.                      *)
LoopChecked ==
    rpc = "loop" =>
        \A b \in (offset \div FOUR_KB)..(blk - 1) : <<inode, b>> \notin BadBlocks

FInv ==
    /\ TypeOK
    /\ PositionWithinFile
    /\ StaysInRequest
    /\ CallExact
    /\ LoopAligned
    /\ LoopExact
    /\ LoopChecked
    /\ ExactBeyondFirstBlock
    /\ ReadResult

-----------------------------------------------------------------------------
(* A position, its block and its place in the block (blk and in_blk_pos).  *)
LEMMA BlockSplit ==
    ASSUME NEW a \in Int
    PROVE  /\ a \div FOUR_KB \in Int
           /\ a % FOUR_KB \in 0..(FOUR_KB - 1)
           /\ a = (a \div FOUR_KB) * FOUR_KB + (a % FOUR_KB)
<1>1. \A k \in Nat \ {0} : /\ a \div k \in Int
                           /\ a % k \in 0..(k - 1)
                           /\ a = (a \div k) * k + (a % k)
  OBVIOUS
<1> QED  BY <1>1, BlockAssumption

(* Going on by what is left of a block leads to the start of the next one. *)
LEMMA NextBlock ==
    ASSUME NEW a \in Int
    PROVE  /\ (a + (FOUR_KB - (a % FOUR_KB))) % FOUR_KB = 0
           /\ (a + (FOUR_KB - (a % FOUR_KB))) \div FOUR_KB = (a \div FOUR_KB) + 1
<1>1. \A k \in Nat \ {0} : (a + (k - (a % k))) % k = 0
  OBVIOUS
<1>2. \A k \in Nat \ {0} : (a + (k - (a % k))) \div k = (a \div k) + 1
  OBVIOUS
<1> QED  BY <1>1, <1>2, BlockAssumption

(* A range that does not reach the end of its first block lies in it.      *)
LEMMA SameBlock ==
    ASSUME NEW a \in Int, NEW n \in Nat, (a % FOUR_KB) + n < FOUR_KB
    PROVE  (a + n) \div FOUR_KB = a \div FOUR_KB
<1>1. \A k \in Nat \ {0} : (a % k) + n < k => (a + n) \div k = a \div k
  OBVIOUS
<1> QED  BY <1>1, BlockAssumption

(* A later position is not in an earlier block.                            *)
LEMMA BlockOrder ==
    ASSUME NEW a \in Int, NEW c \in Int, a <= c
    PROVE  a \div FOUR_KB <= c \div FOUR_KB
<1>1. \A k \in Nat \ {0} : a \div k <= c \div k
  OBVIOUS
<1> QED  BY <1>1, BlockAssumption

(* A closed descriptor, and each kind of opened one, is well formed (open, *)
(* close, execute).                                                        *)
Descriptor == [kind : {"closed", "rtc", "dir", "file"}, inode : Inodes, offset : Int]

(* Whatever execute, open or close puts in a table starts at offset 0.     *)
LEMMA FreshDescriptors ==
    /\ AnyInode \in Inodes
    /\ Closed \in Descriptor
    /\ Closed.offset = 0
    /\ NoFiles \in [FDs -> Descriptor]
    /\ \A entry \in Entries : entry \in Descriptor /\ entry.offset = 0
<1>1. AnyInode \in Inodes
  BY LengthAssumption DEF AnyInode
<1>2. Closed \in Descriptor /\ Closed.offset = 0
  BY <1>1 DEF Closed, Descriptor
<1>3. ASSUME NEW kind \in {"rtc", "dir", "file"}, NEW f \in Inodes
      PROVE  Opened(kind, f) \in Descriptor /\ Opened(kind, f).offset = 0
  BY DEF Opened, Descriptor
<1>4. \A entry \in Entries : entry \in Descriptor /\ entry.offset = 0
  BY <1>1, <1>3 DEF Entries
<1> QED  BY <1>1, <1>2, <1>4 DEF NoFiles

(* A step outside read_data only has to keep the tables well formed.       *)
LEMMA TablesOnly ==
    ASSUME FInv, rpc = "idle", UNCHANGED call,
           active' \in Procs,
           file_array' \in [Procs -> [FDs -> Descriptor]],
           dir_count' \in 0..DirEntries,
           PositionWithinFile'
    PROVE  FInv'
<1> USE DEF FInv, call
<1>1. TypeOK'
  BY BoundsAssumption DEF TypeOK, Descriptor
<1>2. StaysInRequest' /\ CallExact' /\ LoopAligned' /\ LoopExact' /\ LoopChecked'
  BY DEF StaysInRequest, CallExact, LoopAligned, LoopExact, LoopChecked, TypeOK
<1>3. ExactBeyondFirstBlock'
  BY DEF ExactBeyondFirstBlock, Correct
<1>4. ReadResult'
  BY DEF ReadResult, LastBlock, Clamp
<1> QED  BY <1>1, <1>2, <1>3, <1>4

(* A file position that is moved, but not past the end of the file.        *)
LEMMA MovePosition ==
    ASSUME FInv, NEW fd \in FDs, NEW r \in Int,
           file_array[active][fd].offset + r
               <= FileLength[file_array[active][fd].inode],
           file_array' = [file_array EXCEPT ![active][fd].offset = @ + r]
    PROVE  file_array' \in [Procs -> [FDs -> Descriptor]] /\ PositionWithinFile'
<1> DEFINE e == file_array[active][fd]
           d == [e EXCEPT !.offset = @ + r]
<1>1. /\ active \in Procs
      /\ file_array \in [Procs -> [FDs -> Descriptor]]
      /\ e \in Descriptor
  BY DEF FInv, TypeOK, Descriptor
<1>2. /\ d \in Descriptor
      /\ d.inode = e.inode
      /\ d.offset = e.offset + r
  <2>1. e = [kind |-> e.kind, inode |-> e.inode, offset |-> e.offset]
    BY <1>1 DEF Descriptor
  <2>2. d = [kind |-> e.kind, inode |-> e.inode, offset |-> e.offset + r]
    BY <2>1
  <2> QED  BY <1>1, <2>2 DEF Descriptor
<1>3. \A p \in Procs, g \in FDs :
        file_array'[p][g] = IF p = active /\ g = fd THEN d ELSE file_array[p][g]
  BY <1>1
<1>4. file_array' \in [Procs -> [FDs -> Descriptor]]
  <2>1. file_array' = [file_array EXCEPT ![active] = [file_array[active] EXCEPT ![fd] = d]]
    OBVIOUS
  <2> QED  BY <1>1, <1>2, <2>1
<1>5. \A p \in Procs, g \in FDs :
        file_array'[p][g].offset <= FileLength[file_array'[p][g].inode]
  BY <1>2, <1>3 DEF FInv, PositionWithinFile
<1> QED  BY <1>4, <1>5 DEF PositionWithinFile

(* StartRead: the call is refused, or the loop begins with nothing read.   *)
LEMMA StartReadKeeps ==
    ASSUME FInv, NEW fd \in FDs, NEW n \in ReadSizes, StartRead(fd, n)
    PROVE  FInv'
<1> DEFINE e == file_array[active][fd]
<1>1. /\ e \in Descriptor
      /\ n \in Nat /\ n <= BufSize
      /\ FileLength[e.inode] \in Nat
  BY SizesAssumption, LengthAssumption DEF FInv, TypeOK, Descriptor
<1>2. /\ active' = active /\ dir_count' = dir_count
      /\ rfd' = fd /\ inode' = e.inode /\ offset' = e.offset /\ length' = n
      /\ read_byte' = 0 /\ buf' = EmptyBuf
  BY DEF StartRead
<1>3. /\ active' \in Procs /\ dir_count' \in 0..DirEntries
      /\ fd \in Nat
      /\ EmptyBuf \in [0..(BufSize - 1) -> Int]
      /\ \A j \in DOMAIN EmptyBuf : EmptyBuf[j] = Untouched
  BY <1>2, BoundsAssumption DEF FInv, TypeOK, EmptyBuf, Untouched, FDs
<1>4. CASE rpc' = "idle"
  <2>1. /\ n = 0 \/ OutOfRange(e.offset, e.inode)
        /\ left_length' = 0 /\ ret' = -1
        /\ file_array' = [file_array EXCEPT ![active][fd].offset = @ + (-1)]
    BY <1>4 DEF StartRead, Return
  <2>2. file_array' \in [Procs -> [FDs -> Descriptor]] /\ PositionWithinFile'
    <3>1. e.offset + (-1) <= FileLength[e.inode]
      BY <1>1 DEF FInv, TypeOK, PositionWithinFile, Descriptor
    <3>2. PICK r \in Int : r = -1
      OBVIOUS
    <3> QED  BY <2>1, <3>1, <3>2, MovePosition
  <2>3. TypeOK'
    BY <1>1, <1>2, <1>3, <1>4, <2>1, <2>2 DEF FInv, TypeOK, Descriptor
  <2>4. StaysInRequest'
    BY <1>1, <1>2, <1>3, <1>4, <2>1 DEF StaysInRequest
  <2>5. ReadResult'
    BY <1>1, <1>2, <1>4, <2>1 DEF ReadResult, OutOfRange, Descriptor
  <2>6. CallExact' /\ LoopAligned' /\ LoopExact' /\ LoopChecked' /\ ExactBeyondFirstBlock'
    BY <1>4, <2>1 DEF CallExact, LoopAligned, LoopExact, LoopChecked, ExactBeyondFirstBlock
  <2> QED  BY <2>2, <2>3, <2>4, <2>5, <2>6 DEF FInv
<1>5. CASE rpc' = "loop"
  <2>1. /\ n # 0 /\ ~OutOfRange(e.offset, e.inode)
        /\ left_length' = Clamp(n, e.offset, e.inode)
        /\ ret' = ret /\ file_array' = file_array
    BY <1>5 DEF StartRead, Return
  <2>2. /\ e.offset \in Nat /\ e.offset <= FileLength[e.inode]
        /\ left_length' \in Nat
        /\ left_length' <= n
        /\ e.offset + left_length' <= FileLength[e.inode]
    BY <1>1, <2>1 DEF OutOfRange, Clamp, Descriptor
  <2>3. TypeOK' /\ PositionWithinFile'
    BY <1>1, <1>2, <1>3, <1>5, <2>1, <2>2
    DEF FInv, TypeOK, Descriptor, PositionWithinFile
  <2>4. StaysInRequest'
    BY <1>1, <1>2, <1>3, <1>5, <2>1, <2>2 DEF StaysInRequest
  <2>5. CallExact'
    BY <1>1, <1>2, <1>5, <2>1, <2>2 DEF CallExact, Clamp
  <2>6. LoopAligned' /\ LoopExact'
    BY <1>2 DEF LoopAligned, LoopExact
  <2>7. ExactBeyondFirstBlock' /\ ReadResult'
    BY <1>5 DEF ExactBeyondFirstBlock, ReadResult
  <2>8. LoopChecked'
    <3>1. blk' = e.offset \div FOUR_KB
      BY <1>2, <2>2 DEF blk
    <3>2. e.offset \div FOUR_KB \in Int
      BY <2>2, BlockSplit
    <3> QED  BY <1>2, <3>1, <3>2 DEF LoopChecked
  <2> QED  BY <2>3, <2>4, <2>5, <2>6, <2>7, <2>8 DEF FInv
<1> QED  BY <1>4, <1>5 DEF StartRead, Return

-----------------------------------------------------------------------------
(* What the loop knows of the place it is at.                              *)
LEMMA LoopPlace ==
    ASSUME FInv, rpc = "loop"
    PROVE  /\ read_byte \in Nat /\ left_length \in Nat /\ offset \in Nat /\ length \in Nat
           /\ read_byte <= left_length /\ left_length <= length /\ length <= BufSize
           /\ offset + left_length <= FileLength[inode]
           /\ FileLength[inode] \in Nat
           /\ blk \in Int /\ in_blk_pos \in 0..(FOUR_KB - 1)
           /\ read_byte + offset = blk * FOUR_KB + in_blk_pos
           /\ blk * FOUR_KB \in Int
           /\ FOUR_KB \in Nat \ {0}
<1>1. /\ read_byte \in Nat /\ left_length \in Nat /\ offset \in Nat /\ length \in Nat
      /\ read_byte <= left_length /\ left_length <= length /\ length <= BufSize
      /\ offset + left_length <= FileLength[inode]
      /\ FileLength[inode] \in Nat
  BY LengthAssumption DEF FInv, TypeOK, StaysInRequest, CallExact
<1>2. read_byte + offset \in Int
  BY <1>1
<1>3. /\ blk \in Int /\ in_blk_pos \in 0..(FOUR_KB - 1)
      /\ read_byte + offset = blk * FOUR_KB + in_blk_pos
  BY <1>2, BlockSplit DEF blk, in_blk_pos
<1> QED  BY <1>1, <1>3, BlockAssumption

(* BadBlock: the read fails, and the position moves back by one.           *)
LEMMA BadBlockKeeps ==
    ASSUME FInv, BadBlock
    PROVE  FInv'
<1>1. /\ rpc = "loop" /\ rpc' = "idle" /\ ret' = -1
      /\ file_array' = [file_array EXCEPT ![active][rfd].offset = @ + (-1)]
      /\ UNCHANGED <<active, dir_count, rfd, inode, offset, length,
                     left_length, read_byte, buf>>
      /\ <<inode, blk>> \in BadBlocks
  BY DEF BadBlock, Return
<1>2. /\ rfd \in FDs
      /\ file_array[active][rfd].offset + (-1)
            <= FileLength[file_array[active][rfd].inode]
  BY <1>1, LoopPlace DEF FInv, CallExact
<1>3. file_array' \in [Procs -> [FDs -> Descriptor]] /\ PositionWithinFile'
  <2>1. PICK r \in Int : r = -1
    OBVIOUS
  <2> QED  BY <1>1, <1>2, <2>1, MovePosition
<1>4. TypeOK'
  BY <1>1, <1>3 DEF FInv, TypeOK, Descriptor
<1>5. StaysInRequest'
  BY <1>1 DEF FInv, StaysInRequest
<1>6. ReadResult'
  <2>1. /\ left_length = Clamp(length, offset, inode)
        /\ offset \in Int /\ read_byte + offset \in Int /\ offset + left_length \in Int
        /\ offset <= read_byte + offset /\ read_byte + offset <= offset + left_length
    BY <1>1, LoopPlace DEF FInv, CallExact
  <2>2. offset \div FOUR_KB <= blk /\ blk <= LastBlock
    BY <2>1, BlockOrder DEF blk, LastBlock
  <2>3. blk \in Int /\ offset \div FOUR_KB \in Int /\ LastBlock \in Int
    BY <2>1, BlockSplit DEF blk, LastBlock
  <2>4. blk \in (offset \div FOUR_KB)..LastBlock
    BY <2>2, <2>3
  <2>5. LastBlock' = LastBlock
    BY <1>1 DEF LastBlock, Clamp
  <2> QED  BY <1>1, <2>4, <2>5 DEF ReadResult
<1>7. CallExact' /\ LoopAligned' /\ LoopExact' /\ LoopChecked' /\ ExactBeyondFirstBlock'
  BY <1>1 DEF CallExact, LoopAligned, LoopExact, LoopChecked, ExactBeyondFirstBlock
<1> QED  BY <1>3, <1>4, <1>5, <1>6, <1>7 DEF FInv

(* What one copy does to the buffer.                                       *)
LEMMA CopiedBytes ==
    ASSUME FInv, rpc = "loop", NEW from \in Nat, NEW n \in Nat,
           read_byte + n <= BufSize
    PROVE  /\ Copied(from, n) \in [0..(BufSize - 1) -> Int]
           /\ \A j \in 0..(BufSize - 1) : j < read_byte => Copied(from, n)[j] = buf[j]
           /\ \A j \in 0..(BufSize - 1) :
                j >= read_byte + n => Copied(from, n)[j] = Untouched
           /\ \A j \in 0..(BufSize - 1) :
                read_byte <= j /\ j < read_byte + n =>
                    Copied(from, n)[j] = blk * FOUR_KB + from + (j - read_byte)
<1>1. /\ read_byte \in Nat /\ BufSize \in Nat /\ blk * FOUR_KB \in Int
      /\ buf \in [0..(BufSize - 1) -> Int]
      /\ \A j \in 0..(BufSize - 1) : j >= read_byte => buf[j] = Untouched
  BY LoopPlace, SizesAssumption DEF FInv, TypeOK, StaysInRequest
<1>2. PICK b \in Int : b = blk * FOUR_KB
  BY <1>1
<1>3. Copied(from, n) =
        [j \in 0..(BufSize - 1) |->
            IF read_byte <= j /\ j < read_byte + n
            THEN b + from + (j - read_byte) ELSE buf[j]]
  BY <1>1, <1>2 DEF Copied
<1> QED  BY <1>1, <1>2, <1>3

(* CopyTail: the last copy, which ends inside a block.                     *)
LEMMA CopyTailKeeps ==
    ASSUME FInv, CopyTail
    PROVE  FInv'
<1> DEFINE n == left_length - read_byte
<1>1. /\ rpc = "loop" /\ rpc' = "idle" /\ ret' = left_length
      /\ buf' = Copied(in_blk_pos, n)
      /\ read_byte' = left_length
      /\ file_array' = [file_array EXCEPT ![active][rfd].offset = @ + left_length]
      /\ UNCHANGED <<active, dir_count, rfd, inode, offset, length, left_length>>
      /\ FitsBlock
      /\ <<inode, blk>> \notin BadBlocks
  BY DEF CopyTail, Return
<1>2. /\ read_byte \in Nat /\ left_length \in Nat /\ offset \in Nat /\ length \in Nat
      /\ read_byte <= left_length /\ left_length <= length /\ length <= BufSize
      /\ offset + left_length <= FileLength[inode]
      /\ FileLength[inode] \in Nat /\ BufSize \in Nat
      /\ in_blk_pos \in Nat
  BY <1>1, LoopPlace, SizesAssumption
<1>3. PICK b \in Int : b = blk * FOUR_KB /\ read_byte + offset = b + in_blk_pos
  BY <1>1, LoopPlace
<1>4. file_array' \in [Procs -> [FDs -> Descriptor]] /\ PositionWithinFile'
  <2>1. /\ rfd \in FDs
        /\ file_array[active][rfd].offset + left_length
              <= FileLength[file_array[active][rfd].inode]
    BY <1>1, <1>2 DEF FInv, CallExact
  <2>2. PICK r \in Int : r = left_length
    BY <1>2
  <2> QED  BY <1>1, <2>1, <2>2, MovePosition
<1>5. /\ buf' \in [0..(BufSize - 1) -> Int]
      /\ \A j \in 0..(BufSize - 1) : j < read_byte => buf'[j] = buf[j]
      /\ \A j \in 0..(BufSize - 1) : j >= left_length => buf'[j] = Untouched
      /\ \A j \in 0..(BufSize - 1) :
            read_byte <= j /\ j < left_length => buf'[j] = offset + j
  <2>1. PICK m \in Nat : /\ m = n
                         /\ read_byte + m = left_length
                         /\ read_byte + m <= BufSize
    BY <1>2
  <2>2. PICK p \in Nat : p = in_blk_pos
    BY <1>2
  <2>3. buf' = Copied(p, m)
    BY <1>1, <2>1, <2>2
  <2>4. /\ buf' \in [0..(BufSize - 1) -> Int]
        /\ \A j \in 0..(BufSize - 1) : j < read_byte => buf'[j] = buf[j]
        /\ \A j \in 0..(BufSize - 1) : j >= read_byte + m => buf'[j] = Untouched
        /\ \A j \in 0..(BufSize - 1) :
              read_byte <= j /\ j < read_byte + m =>
                  buf'[j] = blk * FOUR_KB + p + (j - read_byte)
    BY <1>1, <2>1, <2>3, CopiedBytes
  <2>5. \A j \in 0..(BufSize - 1) :
            read_byte <= j /\ j < left_length => buf'[j] = offset + j
    <3>1. \A j \in 0..(BufSize - 1) :
            read_byte <= j /\ j < left_length => buf'[j] = b + p + (j - read_byte)
      BY <1>3, <2>1, <2>4
    <3> QED  BY <1>2, <1>3, <2>2, <3>1
  <2> QED  BY <2>1, <2>4, <2>5
<1>6. TypeOK'
  <2>1. /\ active' \in Procs /\ dir_count' \in 0..DirEntries
        /\ rfd' \in Nat /\ inode' \in Inodes /\ offset' \in Int
    BY <1>1 DEF FInv, TypeOK
  <2>2. /\ length' \in Nat /\ left_length' \in Nat /\ read_byte' \in Nat
        /\ ret' \in Int /\ rpc' \in {"idle", "loop"}
    BY <1>1, <1>2
  <2> QED  BY <1>4, <1>5, <2>1, <2>2 DEF TypeOK, Descriptor
<1>7. StaysInRequest'
  <2>1. DOMAIN buf' = 0..(BufSize - 1)
    BY <1>5
  <2>2. \A j \in DOMAIN buf' : j >= read_byte' => buf'[j] = Untouched
    BY <1>1, <1>5, <2>1
  <2>3. read_byte' <= left_length' /\ left_length' <= length' /\ rpc' = "idle"
    BY <1>1, <1>2
  <2> QED  BY <2>2, <2>3 DEF StaysInRequest
<1>8. ReadResult'
  <2>1. left_length = Clamp(length, offset, inode)
    BY <1>1 DEF FInv, CallExact
  <2>2. LastBlock = blk
    <3>1. PICK m \in Nat : m = n
      BY <1>2
    <3>2. /\ read_byte + offset \in Int
          /\ (read_byte + offset) + m = offset + left_length
          /\ ((read_byte + offset) % FOUR_KB) + m < FOUR_KB
      <4>1. in_blk_pos + m < FOUR_KB
        BY <1>1, <1>2, <3>1, BlockAssumption DEF FitsBlock
      <4> QED  BY <1>2, <3>1, <4>1 DEF in_blk_pos
    <3> QED  BY <2>1, <3>2, SameBlock DEF LastBlock, blk
  <2>3. blk \in Int /\ offset \div FOUR_KB \in Int
    BY <1>2, BlockSplit DEF blk
  <2>4. \A c \in (offset \div FOUR_KB)..LastBlock : <<inode, c>> \notin BadBlocks
    <3>1. \A c \in (offset \div FOUR_KB)..(blk - 1) : <<inode, c>> \notin BadBlocks
      BY <1>1 DEF FInv, LoopChecked
    <3> QED  BY <1>1, <2>2, <2>3, <3>1
  <2>5. LastBlock' = LastBlock /\ Clamp(length, offset, inode)' = left_length
    BY <1>1, <2>1 DEF LastBlock, Clamp
  <2>6. ~(offset < 0 \/ offset > FileLength[inode])
    BY <1>2
  <2> QED  BY <1>1, <2>4, <2>5, <2>6 DEF ReadResult
<1>9. ExactBeyondFirstBlock'
  <2> SUFFICES ASSUME NEW j \in 0..(left_length - 1),
                      \/ offset % FOUR_KB = 0
                      \/ (offset % FOUR_KB) + left_length < FOUR_KB
                      \/ (offset % FOUR_KB) + j >= FOUR_KB
               PROVE  buf'[j] = offset + j
    BY <1>1 DEF ExactBeyondFirstBlock, Correct
  <2>1. j \in 0..(BufSize - 1)
    BY <1>2
  <2>2. CASE read_byte <= j
    BY <1>2, <1>5, <2>1, <2>2
  <2>3. CASE j < read_byte
    <3>1. (offset % FOUR_KB) + left_length >= FOUR_KB
      BY <1>1, <1>2, <2>3 DEF FInv, LoopAligned
    <3>2. offset % FOUR_KB \in Int /\ FOUR_KB \in Int
      BY <1>2, BlockSplit, BlockAssumption
    <3>3. Correct(j)
      BY <1>1, <1>2, <2>3, <3>1, <3>2 DEF FInv, LoopExact
    <3> QED  BY <1>5, <2>1, <2>3, <3>3 DEF Correct
  <2> QED  BY <1>2, <2>2, <2>3
<1>10. CallExact' /\ LoopAligned' /\ LoopExact' /\ LoopChecked'
  BY <1>1 DEF CallExact, LoopAligned, LoopExact, LoopChecked
<1> QED  BY <1>4, <1>6, <1>7, <1>8, <1>9, <1>10 DEF FInv

(* CopyBlock: what is left of the current block; the loop goes on at the   *)
(* start of the next one.                                                  *)
LEMMA CopyBlockKeeps ==
    ASSUME FInv, CopyBlock
    PROVE  FInv'
<1>1. /\ rpc = "loop"
      /\ buf' = Copied(0, else_byte)
      /\ read_byte' = read_byte + else_byte
      /\ UNCHANGED <<active, file_array, dir_count, rpc, rfd, inode, offset, length,
                     left_length, ret>>
      /\ ~FitsBlock
      /\ <<inode, blk>> \notin BadBlocks
  BY DEF CopyBlock
<1>2. /\ read_byte \in Nat /\ left_length \in Nat /\ offset \in Nat /\ length \in Nat
      /\ read_byte <= left_length /\ left_length <= length /\ length <= BufSize
      /\ FOUR_KB \in Nat \ {0} /\ BufSize \in Nat
      /\ in_blk_pos \in 0..(FOUR_KB - 1)
  BY <1>1, LoopPlace, SizesAssumption
<1>3. PICK b \in Int : b = blk * FOUR_KB /\ read_byte + offset = b + in_blk_pos
  BY <1>1, LoopPlace
<1>4. /\ else_byte = FOUR_KB - in_blk_pos
      /\ else_byte \in Nat \ {0}
      /\ read_byte + else_byte <= left_length
      /\ left_length - read_byte + in_blk_pos >= FOUR_KB
  BY <1>1, <1>2 DEF FitsBlock, else_byte
<1>5. /\ buf' \in [0..(BufSize - 1) -> Int]
      /\ \A j \in 0..(BufSize - 1) : j < read_byte => buf'[j] = buf[j]
      /\ \A j \in 0..(BufSize - 1) : j >= read_byte' => buf'[j] = Untouched
      /\ \A j \in 0..(BufSize - 1) :
            read_byte <= j /\ j < read_byte' =>
                buf'[j] = offset + j - in_blk_pos
  <2>1. 0 \in Nat /\ else_byte \in Nat /\ read_byte + else_byte <= BufSize
    BY <1>2, <1>4
  <2>2. /\ buf' \in [0..(BufSize - 1) -> Int]
        /\ \A j \in 0..(BufSize - 1) : j < read_byte => buf'[j] = buf[j]
        /\ \A j \in 0..(BufSize - 1) : j >= read_byte + else_byte => buf'[j] = Untouched
        /\ \A j \in 0..(BufSize - 1) :
              read_byte <= j /\ j < read_byte + else_byte =>
                  buf'[j] = blk * FOUR_KB + 0 + (j - read_byte)
    BY <1>1, <2>1, CopiedBytes
  <2>3. \A j \in 0..(BufSize - 1) :
            read_byte <= j /\ j < read_byte' => buf'[j] = offset + j - in_blk_pos
    <3>1. \A j \in 0..(BufSize - 1) :
            read_byte <= j /\ j < read_byte' => buf'[j] = b + 0 + (j - read_byte)
      BY <1>1, <1>3, <2>2
    <3>2. in_blk_pos \in Int
      BY <1>2
    <3> QED  BY <1>2, <1>3, <3>1, <3>2
  <2> QED  BY <1>1, <2>2, <2>3
<1>6. TypeOK' /\ PositionWithinFile'
  BY <1>1, <1>2, <1>4, <1>5 DEF FInv, TypeOK, PositionWithinFile
<1>7. StaysInRequest'
  BY <1>1, <1>2, <1>4, <1>5 DEF FInv, StaysInRequest
<1>8. CallExact'
  BY <1>1 DEF FInv, CallExact, Clamp
<1>9. offset % FOUR_KB \in Nat /\ (read_byte = 0 => in_blk_pos = offset % FOUR_KB)
  BY <1>2, BlockSplit DEF in_blk_pos
<1>n. in_blk_pos' = 0 /\ blk' = blk + 1
  <2>1. /\ read_byte + offset \in Int
        /\ read_byte' + offset' = (read_byte + offset) + (FOUR_KB - in_blk_pos)
    BY <1>1, <1>2, <1>4
  <2> QED  BY <2>1, NextBlock DEF in_blk_pos, blk
<1>10. LoopAligned'
  <2>1. (offset % FOUR_KB) + left_length >= FOUR_KB
    <3>1. CASE read_byte = 0
      BY <1>2, <1>4, <1>9, <3>1
    <3>2. CASE read_byte > 0
      BY <1>1, <3>2 DEF FInv, LoopAligned
    <3> QED  BY <1>2, <3>1, <3>2
  <2> QED  BY <1>1, <1>n, <2>1 DEF LoopAligned
<1>11. LoopExact'
  <2> SUFFICES ASSUME NEW j \in 0..(read_byte' - 1),
                      \/ offset % FOUR_KB = 0
                      \/ (offset % FOUR_KB) + j >= FOUR_KB
               PROVE  buf'[j] = offset + j
    BY <1>1 DEF LoopExact, Correct
  <2>1. j \in 0..(BufSize - 1)
    BY <1>1, <1>2, <1>4
  <2>2. CASE j < read_byte
    <3>1. Correct(j)
      BY <1>1, <1>2, <2>2 DEF FInv, LoopExact
    <3> QED  BY <1>5, <2>1, <2>2, <3>1 DEF Correct
  <2>3. CASE read_byte <= j
    <3>1. in_blk_pos = 0
      <4>1. CASE read_byte = 0
        BY <1>1, <1>2, <1>4, <1>9, <4>1
      <4>2. CASE read_byte > 0
        BY <1>1, <4>2 DEF FInv, LoopAligned
      <4> QED  BY <1>2, <4>1, <4>2
    <3> QED  BY <1>1, <1>2, <1>5, <2>1, <2>3, <3>1
  <2> QED  BY <1>2, <2>2, <2>3
<1>12. LoopChecked'
  <2>1. blk \in Int /\ offset \div FOUR_KB \in Int
    BY <1>2, BlockSplit DEF blk
  <2>2. \A c \in (offset \div FOUR_KB)..(blk - 1) : <<inode, c>> \notin BadBlocks
    BY <1>1 DEF FInv, LoopChecked
  <2>3. \A c \in (offset \div FOUR_KB)..blk : <<inode, c>> \notin BadBlocks
    BY <1>1, <2>1, <2>2
  <2> QED  BY <1>1, <1>n, <2>1, <2>3 DEF LoopChecked
<1>13. ExactBeyondFirstBlock' /\ ReadResult'
  BY <1>1 DEF ExactBeyondFirstBlock, ReadResult
<1> QED  BY <1>6, <1>7, <1>8, <1>10, <1>11, <1>12, <1>13 DEF FInv

-----------------------------------------------------------------------------
(* A table that is emptied, or one descriptor of it that is replaced.      *)
LEMMA TableReplaced ==
    ASSUME FInv, rpc = "idle", UNCHANGED <<dir_count, call>>,
           active' \in Procs,
           NEW p \in Procs, NEW t \in [FDs -> Descriptor],
           file_array' = [file_array EXCEPT ![p] = t],
           \A fd \in FDs : t[fd].offset <= FileLength[t[fd].inode]
    PROVE  FInv'
<1>1. file_array \in [Procs -> [FDs -> Descriptor]]
  BY DEF FInv, TypeOK, Descriptor
<1>2. file_array' \in [Procs -> [FDs -> Descriptor]]
  BY <1>1
<1>3. PositionWithinFile'
  <2> SUFFICES ASSUME NEW q \in Procs, NEW fd \in FDs
               PROVE  file_array'[q][fd].offset <= FileLength[file_array'[q][fd].inode]
    BY DEF PositionWithinFile
  <2>1. CASE q = p
    BY <1>1, <2>1
  <2>2. CASE q # p
    BY <1>1, <2>2 DEF FInv, PositionWithinFile
  <2> QED  BY <2>1, <2>2
<1>4. UNCHANGED call /\ dir_count' \in 0..DirEntries
  BY DEF FInv, TypeOK
<1> QED  BY <1>2, <1>3, <1>4, TablesOnly

(* The invariant of the file system and of the loop of read_data           *)
(* (filesystem.c, and open, close and read of syscalls.c).                 *)
THEOREM FileInvariance == Spec => []FInv
<1>1. Init => FInv
  <2> SUFFICES ASSUME Init PROVE FInv
    OBVIOUS
  <2>1. file_array \in [Procs -> [FDs -> Descriptor]] /\ PositionWithinFile
    BY FreshDescriptors, LengthAssumption
    DEF Init, NoFiles, PositionWithinFile, Descriptor
  <2>2. EmptyBuf \in [0..(BufSize - 1) -> Int]
    BY DEF EmptyBuf, Untouched
  <2>3. TypeOK
    BY <2>1, <2>2, FreshDescriptors, BoundsAssumption
    DEF Init, TypeOK, Descriptor, Procs
  <2>4. StaysInRequest
    BY DEF Init, StaysInRequest, EmptyBuf
  <2> QED  BY <2>1, <2>3, <2>4
           DEF Init, FInv, CallExact, LoopAligned, LoopExact, LoopChecked,
               ExactBeyondFirstBlock, ReadResult
<1>2. FInv /\ [Next]_vars => FInv'
  <2> SUFFICES ASSUME FInv, [Next]_vars PROVE FInv'
    OBVIOUS
  <2>1. /\ active \in Procs /\ active \in Nat
        /\ file_array \in [Procs -> [FDs -> Descriptor]]
        /\ dir_count \in 0..DirEntries
        /\ DirEntries \in Nat /\ MaxProcs \in Nat \ {0}
    BY BoundsAssumption DEF FInv, TypeOK, Descriptor, Procs
  <2>2. \A fd \in FDs : NoFiles[fd].offset <= FileLength[NoFiles[fd].inode]
    BY FreshDescriptors, LengthAssumption DEF NoFiles, Descriptor
  <2>3. CASE Execute
    <3>1. active' \in Procs /\ active + 1 \in Procs
      BY <2>1, <2>3 DEF Execute, Procs
    <3> QED  BY <2>2, <2>3, <3>1, FreshDescriptors, TableReplaced DEF Execute
  <2>4. CASE Halt
    <3>1. active' \in Procs
      BY <2>1, <2>4 DEF Halt, Procs
    <3> QED  BY <2>1, <2>2, <2>4, <3>1, FreshDescriptors, TableReplaced DEF Halt
  <2>5. ASSUME NEW entry \in Entries, Open(entry) PROVE FInv'
    <3>1. PICK fd \in FDs : file_array' = [file_array EXCEPT ![active][fd] = entry]
      BY <2>5 DEF Open
    <3>2. PICK t \in [FDs -> Descriptor] : t = [file_array[active] EXCEPT ![fd] = entry]
      BY <2>1, FreshDescriptors
    <3>3. file_array' = [file_array EXCEPT ![active] = t]
      BY <3>1, <3>2
    <3>4. \A g \in FDs : t[g].offset <= FileLength[t[g].inode]
      BY <2>1, <3>2, FreshDescriptors, LengthAssumption
      DEF FInv, PositionWithinFile, Descriptor
    <3> QED  BY <2>1, <2>5, <3>3, <3>4, TableReplaced DEF Open
  <2>6. ASSUME NEW fd \in FDs, Close(fd) PROVE FInv'
    <3>1. PICK t \in [FDs -> Descriptor] : t = [file_array[active] EXCEPT ![fd] = Closed]
      BY <2>1, FreshDescriptors
    <3>2. file_array' = [file_array EXCEPT ![active] = t]
      BY <2>6, <3>1 DEF Close
    <3>3. \A g \in FDs : t[g].offset <= FileLength[t[g].inode]
      BY <2>1, <3>1, FreshDescriptors, LengthAssumption
      DEF FInv, PositionWithinFile, Descriptor
    <3> QED  BY <2>1, <2>6, <3>2, <3>3, TableReplaced DEF Close
  <2>7. ASSUME NEW fd \in FDs, ReadDir(fd) PROVE FInv'
    <3>1. dir_count' \in 0..DirEntries
      BY <2>1, <2>7 DEF ReadDir, NextEntry
    <3>2. rpc = "idle" /\ UNCHANGED <<active, file_array, call>>
      BY <2>7 DEF ReadDir, Dispatch
    <3>3. PositionWithinFile'
      BY <3>2 DEF FInv, PositionWithinFile
    <3> QED  BY <2>1, <3>1, <3>2, <3>3, TablesOnly
  <2>8. ASSUME NEW fd \in FDs, NEW n \in ReadSizes, StartRead(fd, n) PROVE FInv'
    BY <2>8, StartReadKeeps
  <2>9. CASE Loop
    BY <2>9, BadBlockKeeps, CopyTailKeeps, CopyBlockKeeps DEF Loop
  <2>10. CASE UNCHANGED vars
    BY <2>10 DEF vars, call, FInv, TypeOK, PositionWithinFile,
                 StaysInRequest, CallExact, LoopAligned, LoopExact, LoopChecked,
                 in_blk_pos, blk, Correct, Clamp, ExactBeyondFirstBlock,
                 ReadResult, LastBlock
  <2> QED  BY <2>3, <2>4, <2>5, <2>6, <2>7, <2>8, <2>9, <2>10 DEF Next
<1> QED  BY <1>1, <1>2, PTL DEF Spec

(* Descriptors, positions, counters and buffer stay in their ranges, for   *)
(* every block size, file and number of processes (filesystem.c,           *)
(* syscalls.c).                                                            *)
THEOREM FileTypes == Spec => []TypeOK
  BY FileInvariance, PTL DEF FInv

(* read_data stores nothing beyond the request or the file, wherever the   *)
(* range lies in its blocks.                                               *)
THEOREM RequestRespected == Spec => []StaysInRequest
  BY FileInvariance, PTL DEF FInv

(* No sequence of reads by any processes moves a position past the end of  *)
(* its file (fs_file_read).                                                *)
THEOREM PositionCorrect == Spec => []PositionWithinFile
  BY FileInvariance, PTL DEF FInv

(* The bytes read_data returns are those of the file, except in a first    *)
(* block that is entered in the middle and read to its end.                *)
THEOREM BytesCorrect == Spec => []ExactBeyondFirstBlock
  BY FileInvariance, PTL DEF FInv

(* What read_data returns is decided by the range and by the entries of    *)
(* the blocks from its first to the one behind it, for every block size    *)
(* and every disk (filesystem.c, the loop of read_data).                   *)
THEOREM ResultCorrect == Spec => []ReadResult
  BY FileInvariance, PTL DEF FInv
-----------------------------------------------------------------------------
(* Every iteration of the loop of read_data ends the call or brings it     *)
(* nearer to the end of the range, which itself stays where it is: with    *)
(* left_length - read_byte as the measure the loop terminates.             *)
LoopAdvances ==
    rpc = "loop" =>
        \/ rpc' = "idle"
        \/ /\ left_length' = left_length
           /\ read_byte < read_byte'
           /\ read_byte' <= left_length

(* read_data's loop makes progress in each iteration, for every block size *)
(* and every range (the safety part of ReadEnds).                          *)
THEOREM ReadProgress == Spec => [][LoopAdvances]_vars
<1>1. ASSUME FInv, [Next]_vars
      PROVE  [LoopAdvances]_vars
  <2>1. CASE rpc # "loop"
    BY <2>1 DEF LoopAdvances
  <2>2. CASE UNCHANGED vars
    BY <2>2
  <2>3. CASE rpc = "loop" /\ Next
    <3>1. Loop
      BY <2>3 DEF Next, Execute, Halt, Open, Close, ReadDir, StartRead, Dispatch
    <3>2. CASE BadBlock \/ CopyTail
      BY <3>2 DEF BadBlock, CopyTail, Return, LoopAdvances
    <3>3. CASE CopyBlock
      <4>1. /\ read_byte \in Int /\ left_length \in Int
            /\ read_byte + offset \in Int
        BY <1>1 DEF FInv, TypeOK
      <4>2. in_blk_pos \in 0..(FOUR_KB - 1) /\ FOUR_KB \in Nat
        BY <4>1, BlockSplit, BlockAssumption DEF in_blk_pos
      <4>3. /\ read_byte' = read_byte + (FOUR_KB - in_blk_pos)
            /\ left_length' = left_length
            /\ left_length - read_byte + in_blk_pos >= FOUR_KB
        BY <3>3, <4>1, <4>2 DEF CopyBlock, FitsBlock, else_byte
      <4> QED  BY <4>1, <4>2, <4>3 DEF LoopAdvances
    <3> QED  BY <3>1, <3>2, <3>3 DEF Loop
  <2> QED  BY <1>1, <2>1, <2>2, <2>3
<1> QED  BY <1>1, FileInvariance, PTL DEF Spec
=============================================================================
