---------------------------- MODULE MCFileSystem ----------------------------
EXTENDS FileSystem

(* Two files of whole blocks, the entry behind the last block being a      *)
(* block of the disk or not, one that ends inside a block, and one with an *)
(* entry of its own that is not on the disk.                               *)
MCInodes == {"whole", "full", "part", "broken"}
MCFileLength == [f \in MCInodes |-> CASE f = "whole"  -> 8
                                     [] f = "full"   -> 4
                                     [] f = "part"   -> 7
                                     [] f = "broken" -> 6]
MCBadBlocks == {<<"broken", 1>>, <<"full", 1>>}
MCOffsetFloor == -1
=============================================================================
