------------------------------- MODULE Delivery -------------------------------
(***************************************************************************)
(* What the ACS promises for each part of a command: one message and one    *)
(* row are made of it, each goes to the CPE once, and a row never vanishes  *)
(* without a trace.  Abstract: no order, no lanes and rows, no sessions.    *)
(***************************************************************************)
EXTENDS Naturals

CONSTANT Value      \* the parts of commands

VARIABLES
    unsent,     \* those of which a message may still be made
    due,        \* those of which a row may still be made
    message,    \* those of which a message waits
    row,        \* those of which a row waits
    hand,       \* what the CPE has been sent and not answered: nothing or one part
    got,        \* [Value -> how often the CPE received it]
    noted       \* those with a copy that failed or got too old

vars == <<unsent, due, message, row, hand, got, noted>>

Init ==
    /\ unsent \in SUBSET Value
    /\ due = unsent
    /\ message = {}
    /\ row = {}
    /\ hand = {}
    /\ got = [v \in Value |-> 0]
    /\ noted = {}

\* The only message of a part, if there is room.
Send(v) ==
    /\ v \in unsent
    /\ unsent' = unsent \ {v}
    /\ message' \in {message, message \cup {v}}
    /\ UNCHANGED <<due, row, hand, got, noted>>

\* The only row of a part, after its message.
Insert(v) ==
    /\ v \in due \ unsent
    /\ due' = due \ {v}
    /\ row' = row \cup {v}
    /\ UNCHANGED <<unsent, message, hand, got, noted>>

\* No more is made of some parts; what waits stays.
Abandon(parts) ==
    /\ unsent' = unsent \ parts
    /\ due' = due \ parts
    /\ UNCHANGED <<message, row, hand, got, noted>>

TakeMessage(v) ==
    /\ hand = {}
    /\ v \in message
    /\ message' = message \ {v}
    /\ hand' = {v}
    /\ UNCHANGED <<unsent, due, row, got, noted>>

TakeRow(v) ==
    /\ hand = {}
    /\ v \in row
    /\ row' = row \ {v}
    /\ hand' = {v}
    /\ UNCHANGED <<unsent, due, message, got, noted>>

\* The CPE has received the part, or the failure is noted, or both.
Leave(v) ==
    /\ hand = {v}
    /\ hand' = {}
    /\ \/ got' = [got EXCEPT ![v] = @ + 1] /\ noted' \in {noted, noted \cup {v}}
       \/ got' = got /\ noted' = noted \cup {v}
    /\ UNCHANGED <<unsent, due, message, row>>

\* Rows that got too old.
Expire(parts) ==
    /\ row' = row \ parts
    /\ noted' = noted \cup parts
    /\ UNCHANGED <<unsent, due, message, hand, got>>

\* The process is gone, and with it the messages and those who made more.
Restart(parts) ==
    /\ message' = {}
    /\ unsent' = unsent \ parts
    /\ due' = due \ parts
    /\ UNCHANGED <<row, hand, got, noted>>

Next ==
    \/ \E v \in Value : Send(v) \/ Insert(v) \/ TakeMessage(v) \/ TakeRow(v) \/ Leave(v)
    \/ \E parts \in SUBSET Value : Abandon(parts) \/ Expire(parts) \/ Restart(parts)

Spec == Init /\ [][Next]_vars
=============================================================================
