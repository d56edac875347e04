---------------------------- MODULE MCCwmpSession ----------------------------
(***************************************************************************)
(* Values for the constants of CwmpSession.                                *)
(***************************************************************************)
EXTENDS CwmpSession, TLC

CONSTANTS c1, c2, ssid, enable

\* One place in each lane: the code's for the urgent one, for the normal one enough
\* because only the fetch writes to it.
SmallRoom == (TRUE :> 1) @@ (FALSE :> 1)

\* A command for two parts and one for the second of them.
TwoCommands == (c1 :> <<ssid, enable>>) @@ (c2 :> <<enable>>)

\* Two commands for one part.
SamePart == (c1 :> <<enable>>) @@ (c2 :> <<enable>>)
=============================================================================
