------------------------------ MODULE EventQueue ------------------------------
(***************************************************************************)
(* The two channels of a CPE: commands wait in them until the CPE connects. *)
(*                                                                         *)
(*   senders    goroutines of the ACS: SendCwmpEventData puts a message in  *)
(*              the urgent lane (cwmpHPQueueMap) or the normal lane         *)
(*              (cwmpQueueMap) of the CPE's entry, or gives up;             *)
(*   sessions   handlers of Tr069Index: RecvCwmpEventData on the urgent     *)
(*              lane, then, when that times out, on the normal lane;        *)
(*   the table  GetCwmpCpe makes the entry when there is none, ClearCwmpCpe *)
(*              drops it.  Senders and sessions keep the pointer they got.  *)
(*                                                                         *)
(* One CPE; the entries made for it are numbered.  A message has one sender *)
(* and is sent once.                                                        *)
(***************************************************************************)
EXTENDS Naturals, Sequences

CONSTANTS
    Message,      \* messages, each with the goroutine that sends it
    Urgent,       \* the messages sent with hp = true
    Hasty,        \* the messages sent with a timeout of 0
    Session,      \* HTTP sessions of the CPE served at the same time
    Room,         \* [BOOLEAN -> Nat]: capacity of the urgent (TRUE) and normal lane
    MaxEntry      \* bound: entries made

ASSUME ConstantsAssumption ==
    /\ Urgent \subseteq Message
    /\ Hasty \subseteq Message
    /\ Room \in [BOOLEAN -> Nat \ {0}]
    /\ MaxEntry \in Nat

VARIABLES
    entry,      \* the entry in cpeTable, 0 if there is none
    made,       \* entries made so far
    lane,       \* [Lane -> the messages in the channel, oldest first]
    send,       \* [Message -> the sender]
    recv,       \* [Session -> the session]
    accepted,   \* observer: [Lane -> the messages put in, in order]
    taken       \* observer: [Lane -> the messages taken out, in order]

vars == <<entry, made, lane, send, recv, accepted, taken>>

Entry == 1..MaxEntry
Lane == Entry \X BOOLEAN      \* <<e, TRUE>> is the urgent lane of e
Sender == [pc: {"idle", "sending", "accepted", "refused", "dead"}, at: {0} \cup Entry]
Receiver == [pc: {"idle", "urgent", "normal"}, at: {0} \cup Entry, seen: Nat]

UrgentLane(e) == <<e, TRUE>>

getQueue(e, hp) == IF hp THEN UrgentLane(e) ELSE <<e, FALSE>>

\* The lane a sender writes to and the lane a session reads from.
LaneOf(m) == getQueue(send[m].at, m \in Urgent)

\* Mutant: the session waits on the urgent lane twice.
LaneAt_Urgent(s) == UrgentLane(recv[s].at)

LaneAt(s) == getQueue(recv[s].at, recv[s].pc = "urgent")

TypeOK ==
    /\ made \in 0..MaxEntry
    /\ entry \in 0..made
    /\ lane \in [Lane -> Seq(Message)]
    /\ \A c \in Lane : Len(lane[c]) <= Room[c[2]]
    /\ send \in [Message -> Sender]
    /\ \A m \in Message : send[m].at <= made /\ (send[m].pc = "sending" => send[m].at # 0)
    /\ recv \in [Session -> Receiver]
    /\ \A s \in Session : recv[s].at <= made /\ (recv[s].pc # "idle" => recv[s].at # 0)
    /\ accepted \in [Lane -> Seq(Message)]
    /\ taken \in [Lane -> Seq(Message)]

NoLanes == [c \in Lane |-> <<>>]
Idle == [pc |-> "idle", at |-> 0]
Unserved == [pc |-> "idle", at |-> 0, seen |-> 0]

Init ==
    /\ entry = 0
    /\ made = 0
    /\ lane = NoLanes
    /\ send = [m \in Message |-> Idle]
    /\ recv = [s \in Session |-> Unserved]
    /\ accepted = NoLanes
    /\ taken = NoLanes

-----------------------------------------------------------------------------
\* GetCwmpCpe: afterwards the table has an entry, the old one if there was one.
GetCwmpCpe ==
    IF entry # 0
    THEN UNCHANGED <<entry, made>>
    ELSE /\ made < MaxEntry
         /\ made' = made + 1
         /\ entry' = made + 1

\* The sender has its pointer and enters the select of SendCwmpEventData.
Begin(m) ==
    /\ send[m].pc = "idle"
    /\ GetCwmpCpe
    /\ send' = [send EXCEPT ![m] = [pc |-> "sending", at |-> entry']]
    /\ UNCHANGED <<lane, recv, accepted, taken>>

\* Mutant: one place too many.
HasRoom_OffByOne(c) == Len(lane[c]) <= Room[c[2]]

HasRoom(c) == Len(lane[c]) < Room[c[2]]

\* Mutant: the newest message goes to the front of the channel.
Put_Front(q, m) == <<m>> \o q

Put(q, m) == Append(q, m)

\* The channel takes the message: SendCwmpEventData returns nil.
Accept(m) ==
    /\ send[m].pc = "sending"
    /\ HasRoom(LaneOf(m))
    /\ lane' = [lane EXCEPT ![LaneOf(m)] = Put(@, m)]
    /\ accepted' = [accepted EXCEPT ![LaneOf(m)] = Append(@, m)]
    /\ send' = [send EXCEPT ![m].pc = "accepted"]
    /\ UNCHANGED <<entry, made, recv, taken>>

\* Mutant: only a timeout of 0 ever expires.
Expires_Never(m) == m \in Hasty

\* A timeout of 0 has expired when select looks, and select picks among what is
\* ready; any other one expires only while the channel stays full.
Expires(m) == m \in Hasty \/ ~HasRoom(LaneOf(m))

\* "cwmp event channel full, write timeout".
Refuse(m) ==
    /\ send[m].pc = "sending"
    /\ Expires(m)
    /\ send' = [send EXCEPT ![m].pc = "refused"]
    /\ UNCHANGED <<entry, made, lane, recv, accepted, taken>>

-----------------------------------------------------------------------------
\* A session asks for a command: an empty POST without a task in the database, or
\* the chaining after a GetParameterValues or SetParameterValues response.
Ask(s) ==
    /\ recv[s].pc = "idle"
    /\ GetCwmpCpe
    /\ recv' = [recv EXCEPT ![s] = [pc |-> "urgent", at |-> entry',
                                    seen |-> Len(accepted[UrgentLane(entry')])]]
    /\ UNCHANGED <<lane, send, accepted, taken>>

\* Mutant: the message stays in the channel.
Rest_Peek(q) == q

Rest(q) == Tail(q)

\* The session takes the oldest message of the lane it is waiting on.
Take(s) ==
    /\ recv[s].pc # "idle"
    /\ lane[LaneAt(s)] # <<>>
    /\ lane' = [lane EXCEPT ![LaneAt(s)] = Rest(@)]
    /\ taken' = [taken EXCEPT ![LaneAt(s)] = Append(@, Head(lane[LaneAt(s)]))]
    /\ recv' = [recv EXCEPT ![s] = Unserved]
    /\ UNCHANGED <<entry, made, send, accepted>>

\* Mutant: no wait on the urgent lane.
GivesUp_AtOnce(s) == TRUE

GivesUp(s) == lane[LaneAt(s)] = <<>>

\* RecvCwmpEventData times out: from the urgent lane to the normal one, from there
\* to the 204 reply.
GiveUp(s) ==
    /\ recv[s].pc # "idle"
    /\ GivesUp(s)
    /\ recv' = [recv EXCEPT ![s] = IF @.pc = "urgent"
                                   THEN [pc |-> "normal", at |-> @.at, seen |-> @.seen]
                                   ELSE Unserved]
    /\ UNCHANGED <<entry, made, lane, send, accepted, taken>>

-----------------------------------------------------------------------------
\* ClearCwmpCpe, when an operator deletes the device.  The channels live on as long
\* as somebody holds the pointer.
ClearCwmpCpe ==
    /\ entry # 0
    /\ entry' = 0
    /\ UNCHANGED <<made, lane, send, recv, accepted, taken>>

\* The process dies: table, channels, senders and sessions are gone.  What was
\* waiting no longer counts as accepted.
Crash ==
    /\ entry' = 0
    /\ lane' = NoLanes
    /\ accepted' = taken
    /\ send' = [m \in Message |-> IF send[m].pc = "sending"
                                  THEN [pc |-> "dead", at |-> send[m].at]
                                  ELSE send[m]]
    /\ recv' = [s \in Session |-> Unserved]
    /\ UNCHANGED <<made, taken>>

Next ==
    \/ \E m \in Message : Begin(m) \/ Accept(m) \/ Refuse(m)
    \/ \E s \in Session : Ask(s) \/ Take(s) \/ GiveUp(s)
    \/ ClearCwmpCpe
    \/ Crash

Spec == Init /\ [][Next]_vars

\* Goroutines run and timers fire; the CPE keeps connecting.
Fairness ==
    /\ \A m \in Message : WF_vars(Accept(m) \/ Refuse(m))
    /\ \A s \in Session : WF_vars(Ask(s)) /\ WF_vars(Take(s) \/ GiveUp(s))

FairSpec == Spec /\ Fairness

-----------------------------------------------------------------------------
(* Properties.                                                             *)

\* Each lane hands out what it accepted, in that order, nothing twice and nothing
\* else; the rest is what is waiting.
LanesInOrder ==
    \A c \in Lane : accepted[c] = taken[c] \o lane[c]

\* A message reaches a session at most once in all, over every entry the CPE ever
\* had, and only if its sender was told so: one reported as refused never does.
TakenOnce ==
    \A b, c \in Lane :
        \A i \in DOMAIN taken[b], j \in DOMAIN taken[c] :
            taken[b][i] = taken[c][j] =>
                b = c /\ i = j /\ send[taken[b][i]].pc = "accepted"

\* A session looks at the normal lane only after every urgent message that was
\* waiting when it asked has been taken, by it or by another session.
UrgentFirst ==
    \A s \in Session :
        recv[s].pc = "normal" => Len(taken[UrgentLane(recv[s].at)]) >= recv[s].seen

\* However senders, sessions and deletions interleave, every lane is a bounded
\* first-in first-out mailbox that only a restart empties.
M == INSTANCE Mailbox WITH Value <- Message, Room <- [c \in Lane |-> Room[c[2]]],
                           in <- accepted, out <- taken

IsMailbox == M!Spec

\* No sender waits forever, whether or not the CPE ever connects.
SendReturns == \A m \in Message : send[m].pc = "sending" ~> send[m].pc # "sending"

Waits(m, e) ==
    LET queue == lane[getQueue(e, m \in Urgent)]
    IN  \E i \in DOMAIN queue : queue[i] = m

\* As long as the CPE keeps connecting, a message that waits is taken, unless the
\* entry is dropped from the table or the server restarts: then it may be lost
\* although its sender was told that it was accepted.
WaitingIsTaken ==
    \A m \in Message, e \in Entry :
        (Waits(m, e) /\ entry = e) ~> (~Waits(m, e) \/ entry # e)
=============================================================================
