------------------------------ MODULE MCOltPoller ------------------------------
(***************************************************************************)
(* Values for the constants of OltPoller.                                  *)
(***************************************************************************)
EXTENDS OltPoller, TLC

CONSTANTS o1, o2, d1, d2, u1, u2, r1, r2

\* An OLT with an ONU; another one may be added.
OneOlt == (o1 :> d1) @@ (o2 :> NoDevice)
AtFirst == (u1 :> d1) @@ (u2 :> NoDevice)
=============================================================================
