------------------------------ MODULE MCProcess ------------------------------
EXTENDS Process

(* A terminal's count may go this far below zero before halt is no longer  *)
(* explored.                                                               *)
MCNumFloor == -1
=============================================================================
