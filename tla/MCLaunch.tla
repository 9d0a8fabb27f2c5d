------------------------------- MODULE MCLaunch -------------------------------
EXTENDS Launch

(* A data file, the shell "b", a program with a name of full length, and a *)
(* second entry of that name.                                              *)
MCEntry(x, y, exe) == [filename |-> [i \in 0..1 |-> IF i = 0 THEN x ELSE y], exe |-> exe]
MCDirectory == <<MCEntry("a", NUL, FALSE), MCEntry("b", NUL, TRUE),
                 MCEntry("a", "b", TRUE), MCEntry("a", "b", FALSE)>>
=============================================================================
