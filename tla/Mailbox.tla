-------------------------------- MODULE Mailbox --------------------------------
(***************************************************************************)
(* What the command channels of a CPE promise, as histories: for each lane  *)
(* what was put in and what was taken out.  Abstract: no sender, no         *)
(* session, no entry, no buffer.                                            *)
(***************************************************************************)
EXTENDS Naturals, Sequences

CONSTANTS
    Value,      \* what may be put in
    Lane,       \* the lanes
    Room        \* [Lane -> Nat]: how much may wait in a lane

VARIABLES
    in,     \* per lane, the values put in and not lost, in order
    out     \* per lane, the values taken out, in order

Init ==
    /\ in = [c \in Lane |-> <<>>]
    /\ out = [c \in Lane |-> <<>>]

Put(c, v) ==
    /\ Len(in[c]) < Len(out[c]) + Room[c]
    /\ in' = [in EXCEPT ![c] = Append(@, v)]
    /\ UNCHANGED out

Take(c) ==
    /\ Len(out[c]) < Len(in[c])
    /\ out' = [out EXCEPT ![c] = Append(@, in[c][Len(@) + 1])]
    /\ UNCHANGED in

\* The process is gone and with it what was waiting.
Lose ==
    /\ in' = out
    /\ UNCHANGED out

Next ==
    \/ \E c \in Lane : Take(c) \/ \E v \in Value : Put(c, v)
    \/ Lose

Spec == Init /\ [][Next]_<<in, out>>
=============================================================================
