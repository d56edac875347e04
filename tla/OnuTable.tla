------------------------------- MODULE OnuTable -------------------------------
(***************************************************************************)
(* What the table of ONUs promises to whoever reads it: a row speaks of one *)
(* ONU at one OLT for as long as it is there, says what a poll of that OLT  *)
(* found when it looked, or nothing, and goes only with all rows of its     *)
(* OLT.  Abstract: no addresses, no devices, no phases of a poll, no order. *)
(***************************************************************************)
EXTENDS Naturals

CONSTANTS
    Olt,
    Onu,
    Round,      \* those who poll
    Empty       \* what is written of an ONU when it is not found any more

VARIABLES
    truth,      \* [Onu -> the number of its changes]
    found,      \* [Round -> [Olt -> what the poll has found and not yet written]]
    row         \* the rows: a set of [id, olt, onu, val]

vars == <<truth, found, row>>

Nothing == [r \in Round |-> [o \in Olt |-> {}]]

Init ==
    /\ truth = [u \in Onu |-> 0]
    /\ found = Nothing
    /\ row = {}

Happen(u) ==
    /\ truth' = [truth EXCEPT ![u] = @ + 1]
    /\ UNCHANGED <<found, row>>

\* A poll finds out which ONUs there are, ...
List(r, o) ==
    /\ found[r][o] = {}
    /\ \E onus \in (SUBSET Onu) \ {{}} :
          found' = [found EXCEPT ![r][o] = {[onu |-> u, val |-> Empty] : u \in onus}]
    /\ UNCHANGED <<truth, row>>

\* ... then what some of them are like at that time.
Look(r, o) ==
    /\ \E seen \in SUBSET {f.onu : f \in found[r][o]} :
          found' = [found EXCEPT ![r][o] =
            {[onu |-> f.onu, val |-> IF f.onu \in seen THEN truth[f.onu] ELSE Empty] : f \in @}]
    /\ UNCHANGED <<truth, row>>

\* It writes one of its findings to a row of that ONU at that OLT, to a new one, or to one
\* that is not there any more.
Write(r, o, f) ==
    /\ f \in found[r][o]
    /\ found' = [found EXCEPT ![r][o] = @ \ {f}]
    /\ \/ row' = row
       \/ \E x \in row : /\ x.olt = o
                         /\ x.onu = f.onu
                         /\ row' = (row \ {x}) \cup {[x EXCEPT !.val = f.val]}
       \/ \E x \in row' : /\ x = [id |-> x.id, olt |-> o, onu |-> f.onu, val |-> f.val]
                          /\ \A y \in row : y.id < x.id
                          /\ row' = row \cup {x}
    /\ UNCHANGED truth

\* The OLT is being deleted.
Clear(o) ==
    /\ row' = {x \in row : x.olt # o}
    /\ UNCHANGED <<truth, found>>

\* The polls are gone.
Forget ==
    /\ found' = Nothing
    /\ UNCHANGED <<truth, row>>

Next ==
    \/ \E u \in Onu : Happen(u)
    \/ \E r \in Round, o \in Olt :
          \/ List(r, o)
          \/ Look(r, o)
          \/ \E f \in found[r][o] : Write(r, o, f)
    \/ \E o \in Olt : Clear(o)
    \/ Forget

Spec == Init /\ [][Next]_vars
=============================================================================
