----------------------------- MODULE MCEventQueue -----------------------------
(***************************************************************************)
(* Values for the constants of EventQueue.                                 *)
(***************************************************************************)
EXTENDS EventQueue, TLC

\* One urgent place, as in the code; two normal ones stand for the 512.
SmallRoom == (TRUE :> 1) @@ (FALSE :> 2)

CONSTANTS u1, u2, n1, n2, s1
=============================================================================
