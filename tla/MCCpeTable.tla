------------------------------ MODULE MCCpeTable ------------------------------
(***************************************************************************)
(* Values for the constants of CpeTable.                                   *)
(***************************************************************************)
EXTENDS CpeTable, TLC

CONSTANTS h1, h2, f1, f2, o1, o2, d1, d2, t1, t2

Alike == Permutations({h1, h2}) \cup Permutations({f1, f2}) \cup Permutations({o1, o2})
            \cup Permutations({t1, t2})
=============================================================================
