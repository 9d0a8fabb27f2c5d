----------------------------- MODULE LineEditor -----------------------------
(***************************************************************************)
(* What the keyboard promises of each terminal, whatever its buffers look  *)
(* like: the line being edited is a sequence that grows and shrinks at its *)
(* end, never beyond MaxLine characters, and Enter makes all of it, and    *)
(* nothing else, the line a program can read.                              *)
(***************************************************************************)
EXTENDS Naturals, Sequences

CONSTANTS Terms, Chars, MaxLine

VARIABLES typed,    \* line being edited on each terminal
          entered   \* line last entered on each terminal

vars == <<typed, entered>>

Init ==
    /\ typed = [t \in Terms |-> <<>>]
    /\ entered = [t \in Terms |-> <<>>]

Type(t, c) ==
    /\ Len(typed[t]) < MaxLine
    /\ typed' = [typed EXCEPT ![t] = Append(@, c)]
    /\ UNCHANGED entered

Erase(t) ==
    /\ typed[t] # <<>>
    /\ typed' = [typed EXCEPT ![t] = SubSeq(@, 1, Len(@) - 1)]
    /\ UNCHANGED entered

Enter(t) ==
    /\ entered' = [entered EXCEPT ![t] = typed[t]]
    /\ typed' = [typed EXCEPT ![t] = <<>>]

Next == \E t \in Terms : Erase(t) \/ Enter(t) \/ \E c \in Chars : Type(t, c)

Spec == Init /\ [][Next]_vars
=============================================================================
