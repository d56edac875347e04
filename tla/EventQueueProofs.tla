--------------------------- MODULE EventQueueProofs ---------------------------
(***************************************************************************)
(* Theorems about EventQueue, for every set of messages and sessions, every *)
(* capacity of the lanes and every number of entries.                       *)
(***************************************************************************)
EXTENDS EventQueue, SequenceTheorems, TLAPS

-----------------------------------------------------------------------------
(* Types.                                                                  *)

LEMMA LaneOfType ==
    ASSUME TypeOK, NEW m \in Message, send[m].pc = "sending"
    PROVE  LaneOf(m) \in Lane
<1>1. send[m] \in Sender /\ send[m].at # 0
  BY DEF TypeOK
<1>2. send[m].at \in Entry
  BY <1>1 DEF Sender
<1> QED
  BY <1>2 DEF LaneOf, getQueue, UrgentLane, Lane

LEMMA LaneAtType ==
    ASSUME TypeOK, NEW s \in Session, recv[s].pc # "idle"
    PROVE  /\ LaneAt(s) \in Lane
           /\ recv[s].at \in Entry
           /\ UrgentLane(recv[s].at) \in Lane
<1>1. recv[s] \in Receiver /\ recv[s].at # 0
  BY DEF TypeOK
<1>2. recv[s].at \in Entry
  BY <1>1 DEF Receiver
<1> QED
  BY <1>2 DEF LaneAt, getQueue, UrgentLane, Lane

LEMMA EntryType ==
    ASSUME TypeOK, GetCwmpCpe
    PROVE  /\ made' \in 0..MaxEntry /\ made <= made'
           /\ entry' \in 1..made'
           /\ entry' \in Entry
<1>1. made \in 0..MaxEntry /\ entry \in 0..made /\ MaxEntry \in Nat
  BY ConstantsAssumption DEF TypeOK
<1> QED
  BY <1>1 DEF GetCwmpCpe, Entry

LEMMA InitType == Init => TypeOK
BY ConstantsAssumption
   DEF Init, TypeOK, NoLanes, Idle, Unserved, Sender, Receiver, Entry, Lane

\* One lane gets a new content.
LEMMA LaneUpdate ==
    ASSUME NEW f \in [Lane -> Seq(Message)], NEW c \in Lane, NEW q \in Seq(Message)
    PROVE  /\ [f EXCEPT ![c] = q] \in [Lane -> Seq(Message)]
           /\ \A d \in Lane : [f EXCEPT ![c] = q][d] = IF d = c THEN q ELSE f[d]
OBVIOUS

LEMMA BeginType ==
    ASSUME TypeOK, NEW m \in Message, Begin(m)
    PROVE  TypeOK'
<1>1. /\ made' \in 0..MaxEntry /\ made <= made'
      /\ entry' \in 1..made' /\ entry' \in Entry
  BY EntryType DEF Begin
<1>2. /\ send' = [send EXCEPT ![m] = [pc |-> "sending", at |-> entry']]
      /\ UNCHANGED <<lane, recv, accepted, taken>>
  BY DEF Begin
<1>3. [pc |-> "sending", at |-> entry'] \in Sender
  BY <1>1 DEF Sender
<1>4. send' \in [Message -> Sender]
  BY <1>2, <1>3 DEF TypeOK
<1>5. made \in Nat /\ made' \in Nat /\ entry' # 0 /\ entry' \in 0..made' /\ entry' <= made'
  BY <1>1, ConstantsAssumption DEF TypeOK
<1>6. ASSUME NEW n \in Message
      PROVE  send'[n].at <= made' /\ (send'[n].pc = "sending" => send'[n].at # 0)
  <2>1. CASE n = m
    BY <1>2, <1>5, <2>1 DEF TypeOK
  <2>2. CASE n # m
    <3>1. send'[n] = send[n] /\ send[n] \in Sender /\ send[n].at <= made
      BY <1>2, <2>2 DEF TypeOK
    <3>2. send[n].at \in Nat
      BY <3>1 DEF Sender, Entry
    <3> QED
      BY <1>1, <1>5, <3>1, <3>2 DEF TypeOK
  <2> QED
    BY <2>1, <2>2
<1>7. ASSUME NEW s \in Session
      PROVE  recv[s].at <= made' /\ (recv[s].pc # "idle" => recv[s].at # 0)
  <2>1. recv[s] \in Receiver /\ recv[s].at <= made
    BY DEF TypeOK
  <2>2. recv[s].at \in Nat
    BY <2>1 DEF Receiver, Entry
  <2> QED
    BY <1>1, <1>5, <2>1, <2>2 DEF TypeOK
<1> QED
  BY <1>1, <1>2, <1>4, <1>5, <1>6, <1>7 DEF TypeOK

LEMMA AcceptType ==
    ASSUME TypeOK, NEW m \in Message, Accept(m)
    PROVE  TypeOK'
<1> DEFINE c == LaneOf(m)
<1>1. c \in Lane
  BY LaneOfType DEF Accept
<1>2. /\ lane' = [lane EXCEPT ![c] = Append(lane[c], m)]
      /\ accepted' = [accepted EXCEPT ![c] = Append(accepted[c], m)]
      /\ send' = [send EXCEPT ![m].pc = "accepted"]
      /\ Len(lane[c]) < Room[c[2]]
      /\ UNCHANGED <<entry, made, recv, taken>>
  BY DEF Accept, Put, HasRoom
<1>3. lane[c] \in Seq(Message) /\ accepted[c] \in Seq(Message) /\ send[m] \in Sender
  BY <1>1 DEF TypeOK
<1>4. /\ Append(lane[c], m) \in Seq(Message)
      /\ Append(accepted[c], m) \in Seq(Message)
      /\ Len(Append(lane[c], m)) = Len(lane[c]) + 1
      /\ Len(lane[c]) \in Nat
  BY <1>3
<1>5. Room[c[2]] \in Nat
  BY <1>1, ConstantsAssumption DEF Lane
<1> HIDE DEF c
<1>6. lane' \in [Lane -> Seq(Message)] /\ accepted' \in [Lane -> Seq(Message)]
  BY <1>1, <1>2, <1>4 DEF TypeOK
<1>7. \A d \in Lane : Len(lane'[d]) <= Room[d[2]]
  BY <1>1, <1>2, <1>4, <1>5 DEF TypeOK
<1>8. /\ send' \in [Message -> Sender]
      /\ \A n \in Message : send'[n].at = send[n].at
                            /\ (send'[n].pc = "sending" => send[n].pc = "sending")
  BY <1>2, <1>3 DEF TypeOK, Sender
<1> QED
  BY <1>2, <1>6, <1>7, <1>8 DEF TypeOK

LEMMA RefuseType ==
    ASSUME TypeOK, NEW m \in Message, Refuse(m)
    PROVE  TypeOK'
<1>1. /\ send' = [send EXCEPT ![m].pc = "refused"]
      /\ UNCHANGED <<entry, made, lane, recv, accepted, taken>>
  BY DEF Refuse
<1>2. send[m] \in Sender
  BY DEF TypeOK
<1>3. /\ send' \in [Message -> Sender]
      /\ \A n \in Message : send'[n].at = send[n].at
                            /\ (send'[n].pc = "sending" => send[n].pc = "sending")
  BY <1>1, <1>2 DEF TypeOK, Sender
<1> QED
  BY <1>1, <1>3 DEF TypeOK

LEMMA AskType ==
    ASSUME TypeOK, NEW s \in Session, Ask(s)
    PROVE  TypeOK'
<1>1. /\ made' \in 0..MaxEntry /\ made <= made'
      /\ entry' \in 1..made' /\ entry' \in Entry
  BY EntryType DEF Ask
<1> DEFINE r == [pc |-> "urgent", at |-> entry', seen |-> Len(accepted[UrgentLane(entry')])]
<1>2. /\ recv' = [recv EXCEPT ![s] = r]
      /\ UNCHANGED <<lane, send, accepted, taken>>
  BY DEF Ask
<1>3. accepted[UrgentLane(entry')] \in Seq(Message)
  BY <1>1 DEF TypeOK, Lane, UrgentLane
<1>4. r \in Receiver /\ r.at = entry'
  BY <1>1, <1>3 DEF Receiver
<1> HIDE DEF r
<1>5. recv' \in [Session -> Receiver]
  BY <1>2, <1>4 DEF TypeOK
<1>6. made \in Nat /\ made' \in Nat /\ entry' # 0 /\ entry' \in 0..made' /\ entry' <= made'
  BY <1>1, ConstantsAssumption DEF TypeOK
<1>7. ASSUME NEW t \in Session
      PROVE  recv'[t].at <= made' /\ (recv'[t].pc # "idle" => recv'[t].at # 0)
  <2>1. CASE t = s
    BY <1>2, <1>4, <1>6, <2>1 DEF TypeOK
  <2>2. CASE t # s
    <3>1. recv'[t] = recv[t] /\ recv[t] \in Receiver /\ recv[t].at <= made
      BY <1>2, <2>2 DEF TypeOK
    <3>2. recv[t].at \in Nat
      BY <3>1 DEF Receiver, Entry
    <3> QED
      BY <1>1, <1>6, <3>1, <3>2 DEF TypeOK
  <2> QED
    BY <2>1, <2>2
<1>8. ASSUME NEW n \in Message
      PROVE  send[n].at <= made' /\ (send[n].pc = "sending" => send[n].at # 0)
  <2>1. send[n] \in Sender /\ send[n].at <= made
    BY DEF TypeOK
  <2>2. send[n].at \in Nat
    BY <2>1 DEF Sender, Entry
  <2> QED
    BY <1>1, <1>6, <2>1, <2>2 DEF TypeOK
<1> QED
  BY <1>1, <1>2, <1>5, <1>6, <1>7, <1>8 DEF TypeOK

LEMMA TakeType ==
    ASSUME TypeOK, NEW s \in Session, Take(s)
    PROVE  TypeOK'
<1> DEFINE c == LaneAt(s)
<1>1. c \in Lane
  BY LaneAtType DEF Take
<1>2. /\ lane[c] # <<>>
      /\ lane' = [lane EXCEPT ![c] = Tail(lane[c])]
      /\ taken' = [taken EXCEPT ![c] = Append(taken[c], Head(lane[c]))]
      /\ recv' = [recv EXCEPT ![s] = Unserved]
      /\ UNCHANGED <<entry, made, send, accepted>>
  BY DEF Take, Rest
<1>3. lane[c] \in Seq(Message) /\ taken[c] \in Seq(Message)
  BY <1>1 DEF TypeOK
<1>4. /\ Head(lane[c]) \in Message
      /\ Tail(lane[c]) \in Seq(Message)
      /\ Len(Tail(lane[c])) = Len(lane[c]) - 1
      /\ Append(taken[c], Head(lane[c])) \in Seq(Message)
      /\ Len(lane[c]) \in Nat
  BY <1>2, <1>3, HeadTailProperties
<1>5. Room[c[2]] \in Nat
  BY <1>1, ConstantsAssumption DEF Lane
<1> HIDE DEF c
<1>6. lane' \in [Lane -> Seq(Message)] /\ taken' \in [Lane -> Seq(Message)]
  BY <1>1, <1>2, <1>4 DEF TypeOK
<1>7. \A d \in Lane : Len(lane'[d]) <= Room[d[2]]
  BY <1>1, <1>2, <1>4, <1>5 DEF TypeOK
<1>8. made \in Nat
  BY ConstantsAssumption DEF TypeOK
<1>9. /\ recv' \in [Session -> Receiver]
      /\ \A t \in Session : recv'[t].at <= made /\ (recv'[t].pc # "idle" => recv'[t].at # 0)
  BY <1>2, <1>8 DEF TypeOK, Unserved, Receiver
<1> QED
  BY <1>2, <1>6, <1>7, <1>9 DEF TypeOK

LEMMA GiveUpType ==
    ASSUME TypeOK, NEW s \in Session, GiveUp(s)
    PROVE  TypeOK'
<1> DEFINE r == IF recv[s].pc = "urgent"
                THEN [pc |-> "normal", at |-> recv[s].at, seen |-> recv[s].seen]
                ELSE Unserved
<1>1. /\ recv' = [recv EXCEPT ![s] = r]
      /\ UNCHANGED <<entry, made, lane, send, accepted, taken>>
  BY DEF GiveUp
<1>2. recv[s] \in Receiver /\ recv[s].at <= made /\ (recv[s].pc # "idle" => recv[s].at # 0)
      /\ made \in Nat
  BY ConstantsAssumption DEF TypeOK
<1>3. r \in Receiver /\ r.at <= made /\ (r.pc # "idle" => r.at # 0)
  BY <1>2 DEF Receiver, Unserved
<1> HIDE DEF r
<1>4. /\ recv' \in [Session -> Receiver]
      /\ \A t \in Session : recv'[t].at <= made /\ (recv'[t].pc # "idle" => recv'[t].at # 0)
  BY <1>1, <1>3 DEF TypeOK
<1> QED
  BY <1>1, <1>4 DEF TypeOK

LEMMA CrashType ==
    ASSUME TypeOK, Crash
    PROVE  TypeOK'
<1>1. /\ entry' = 0 /\ made' = made
      /\ lane' = [c \in Lane |-> <<>>]
      /\ accepted' = taken /\ taken' = taken
      /\ recv' = [s \in Session |-> Unserved]
  BY DEF Crash, NoLanes
<1>2. made \in Nat /\ 0 \in 0..made'
  BY <1>1, ConstantsAssumption DEF TypeOK
<1>3. \A d \in Lane : Len(lane'[d]) <= Room[d[2]]
  BY <1>1, ConstantsAssumption DEF Lane
<1>4. lane' \in [Lane -> Seq(Message)]
  BY <1>1
<1>5. /\ recv' \in [Session -> Receiver]
      /\ \A t \in Session : recv'[t].at <= made /\ (recv'[t].pc # "idle" => recv'[t].at # 0)
  BY <1>1, <1>2 DEF Unserved, Receiver
<1>6. ASSUME NEW n \in Message
      PROVE  send'[n] \in Sender /\ send'[n].at <= made /\ send'[n].pc # "sending"
  <2>1. send[n] \in Sender /\ send[n].at <= made
    BY DEF TypeOK
  <2>2. send'[n] = IF send[n].pc = "sending"
                   THEN [pc |-> "dead", at |-> send[n].at] ELSE send[n]
    BY DEF Crash
  <2> QED
    BY <2>1, <2>2 DEF Sender
<1>7. send' \in [Message -> Sender]
  BY <1>6 DEF Crash
<1> QED
  BY <1>1, <1>2, <1>3, <1>4, <1>5, <1>6, <1>7 DEF TypeOK

LEMMA TypeCorrectStep == TypeOK /\ [Next]_vars => TypeOK'
<1> SUFFICES ASSUME TypeOK, [Next]_vars
             PROVE  TypeOK'
  OBVIOUS
<1>1. CASE ClearCwmpCpe
  BY <1>1 DEF ClearCwmpCpe, TypeOK
<1>2. CASE UNCHANGED vars
  BY <1>2 DEF vars, TypeOK
<1> QED
  BY <1>1, <1>2, BeginType, AcceptType, RefuseType, AskType, TakeType, GiveUpType, CrashType
     DEF Next

\* The program's values keep their types and no lane ever exceeds its capacity.
THEOREM TypeCorrect == Spec => []TypeOK
<1> QED
  BY InitType, TypeCorrectStep, PTL DEF Spec

-----------------------------------------------------------------------------
(* Taking from the front of the second half of a sequence.                 *)

LEMMA SplitProperties ==
    ASSUME NEW S, NEW p \in Seq(S), NEW q \in Seq(S), NEW r, r = p \o q
    PROVE  /\ Len(q) \in Nat
           /\ Len(p) \in Nat
           /\ Len(r) \in Nat
           /\ Len(r) = Len(p) + Len(q)
           /\ DOMAIN p \subseteq DOMAIN r
           /\ \A i \in DOMAIN p : r[i] = p[i]
           /\ q # <<>> => Len(p) < Len(r) /\ Head(q) = r[Len(p) + 1]
<1>1. /\ Len(q) \in Nat /\ Len(p) \in Nat
      /\ DOMAIN p = 1..Len(p)
      /\ r \in Seq(S) /\ Len(r) = Len(p) + Len(q)
      /\ \A i \in 1..Len(p) + Len(q) : r[i] = IF i <= Len(p) THEN p[i] ELSE q[i - Len(p)]
  BY LenProperties, ConcatProperties
<1>2. DOMAIN r = 1..Len(r)
  BY <1>1, LenProperties
<1>3. DOMAIN p \subseteq DOMAIN r /\ \A i \in DOMAIN p : r[i] = p[i]
  BY <1>1, <1>2
<1>4. ASSUME q # <<>>
      PROVE  Len(p) < Len(r) /\ Head(q) = r[Len(p) + 1]
  <2>1. Len(q) > 0 /\ Head(q) = q[1]
    BY <1>4, EmptySeq
  <2>2. r[Len(p) + 1] = q[Len(p) + 1 - Len(p)]
    BY <1>1, <2>1
  <2>3. Len(p) + 1 - Len(p) = 1
    BY <1>1
  <2> QED
    BY <1>1, <2>1, <2>2, <2>3
<1> QED
  BY <1>1, <1>3, <1>4

LEMMA TakeKeepsSplit ==
    ASSUME NEW S, NEW p \in Seq(S), NEW q \in Seq(S), q # <<>>
    PROVE  Append(p, Head(q)) \o Tail(q) = p \o q
<1> DEFINE l == Append(p, Head(q)) \o Tail(q)
           r == p \o q
<1>1. /\ Len(q) \in Nat \ {0}
      /\ Head(q) = q[1] /\ Head(q) \in S
      /\ Tail(q) \in Seq(S) /\ Len(Tail(q)) = Len(q) - 1
      /\ \A i \in 1..Len(Tail(q)) : Tail(q)[i] = q[i + 1]
  BY EmptySeq, HeadTailProperties
<1>2. /\ Append(p, Head(q)) \in Seq(S)
      /\ Len(Append(p, Head(q))) = Len(p) + 1
      /\ \A i \in 1..Len(p) : Append(p, Head(q))[i] = p[i]
      /\ Append(p, Head(q))[Len(p) + 1] = q[1]
      /\ Len(p) \in Nat
  BY <1>1, AppendProperties, LenProperties
<1>3. /\ l \in Seq(S) /\ Len(l) = Len(p) + 1 + (Len(q) - 1)
      /\ \A i \in 1..Len(p) + 1 + (Len(q) - 1) :
            l[i] = IF i <= Len(p) + 1 THEN Append(p, Head(q))[i] ELSE Tail(q)[i - (Len(p) + 1)]
  BY <1>1, <1>2, ConcatProperties
<1>4. /\ r \in Seq(S) /\ Len(r) = Len(p) + Len(q)
      /\ \A i \in 1..Len(p) + Len(q) : r[i] = IF i <= Len(p) THEN p[i] ELSE q[i - Len(p)]
  BY ConcatProperties
<1> HIDE DEF l, r
<1>5. Len(l) = Len(r) /\ Len(l) = Len(p) + Len(q)
  BY <1>1, <1>2, <1>3, <1>4
<1>6. ASSUME NEW i \in 1..Len(l)
      PROVE  l[i] = r[i]
  <2>1. i \in 1..Len(p) + Len(q) /\ i \in 1..Len(p) + 1 + (Len(q) - 1)
    BY <1>1, <1>2, <1>5, <1>6
  <2>2. CASE i <= Len(p)
    BY <1>2, <1>3, <1>4, <2>1, <2>2
  <2>3. CASE i = Len(p) + 1
    BY <1>2, <1>3, <1>4, <2>1, <2>3
  <2>4. CASE i > Len(p) + 1
    <3>1. i - (Len(p) + 1) \in 1..Len(Tail(q)) /\ i - (Len(p) + 1) + 1 = i - Len(p)
      BY <1>1, <1>2, <2>1, <2>4
    <3>2. l[i] = Tail(q)[i - (Len(p) + 1)] /\ r[i] = q[i - Len(p)]
      BY <1>2, <1>3, <1>4, <2>1, <2>4
    <3>3. Tail(q)[i - (Len(p) + 1)] = q[i - (Len(p) + 1) + 1]
      BY <1>1, <3>1
    <3> QED
      BY <3>1, <3>2, <3>3
  <2> QED
    BY <1>2, <2>1, <2>2, <2>3, <2>4
<1>7. l = r
  BY <1>3, <1>4, <1>5, <1>6, SeqEqual
<1> QED
  BY <1>7 DEF l, r

-----------------------------------------------------------------------------
(* What a step does to the lanes.                                          *)

\* A message is put in, a message is taken out, everything waiting is lost, or the
\* lanes stay as they are.
PutStep(m) ==
    LET c == LaneOf(m)
    IN  /\ c \in Lane
        /\ Len(lane[c]) < Room[c[2]]
        /\ lane' = [lane EXCEPT ![c] = Append(lane[c], m)]
        /\ accepted' = [accepted EXCEPT ![c] = Append(accepted[c], m)]
        /\ taken' = taken

TakeStep(c) ==
    /\ c \in Lane
    /\ lane[c] # <<>>
    /\ lane' = [lane EXCEPT ![c] = Tail(lane[c])]
    /\ taken' = [taken EXCEPT ![c] = Append(taken[c], Head(lane[c]))]
    /\ accepted' = accepted

LoseStep == lane' = NoLanes /\ accepted' = taken /\ taken' = taken

StillStep == UNCHANGED <<lane, accepted, taken>>

LEMMA LaneSteps ==
    ASSUME TypeOK, [Next]_vars
    PROVE  \/ \E m \in Message : Accept(m) /\ PutStep(m)
           \/ \E s \in Session : Take(s) /\ TakeStep(LaneAt(s))
           \/ Crash /\ LoseStep
           \/ StillStep
<1>1. ASSUME NEW m \in Message, Accept(m)
      PROVE  PutStep(m)
  <2>1. LaneOf(m) \in Lane
    BY <1>1, LaneOfType DEF Accept
  <2> QED
    BY <1>1, <2>1 DEF Accept, PutStep, Put, HasRoom
<1>2. ASSUME NEW s \in Session, Take(s)
      PROVE  TakeStep(LaneAt(s))
  <2>1. LaneAt(s) \in Lane
    BY <1>2, LaneAtType DEF Take
  <2> QED
    BY <1>2, <2>1 DEF Take, TakeStep, Rest
<1>3. ASSUME Crash
      PROVE  LoseStep
  BY <1>3 DEF Crash, LoseStep
<1>4. ASSUME NEW m \in Message, Begin(m) \/ Refuse(m)
      PROVE  StillStep
  BY <1>4 DEF Begin, Refuse, StillStep
<1>5. ASSUME NEW s \in Session, Ask(s) \/ GiveUp(s)
      PROVE  StillStep
  BY <1>5 DEF Ask, GiveUp, StillStep
<1>6. CASE ClearCwmpCpe \/ UNCHANGED vars
  BY <1>6 DEF ClearCwmpCpe, vars, StillStep
<1> QED
  BY <1>1, <1>2, <1>3, <1>4, <1>5, <1>6 DEF Next

LEMMA LanesInOrderStep == TypeOK /\ LanesInOrder /\ [Next]_vars => LanesInOrder'
<1> SUFFICES ASSUME TypeOK, LanesInOrder, [Next]_vars, NEW d \in Lane
             PROVE  accepted'[d] = taken'[d] \o lane'[d]
  BY DEF LanesInOrder
<1>0. /\ lane[d] \in Seq(Message) /\ accepted[d] \in Seq(Message) /\ taken[d] \in Seq(Message)
      /\ accepted[d] = taken[d] \o lane[d]
      /\ lane \in [Lane -> Seq(Message)]
      /\ accepted \in [Lane -> Seq(Message)]
      /\ taken \in [Lane -> Seq(Message)]
  BY DEF TypeOK, LanesInOrder
<1>1. ASSUME NEW m \in Message, PutStep(m)
      PROVE  accepted'[d] = taken'[d] \o lane'[d]
  <2>1. CASE d = LaneOf(m)
    <3>1. /\ lane'[d] = Append(lane[d], m)
          /\ accepted'[d] = Append(accepted[d], m)
          /\ taken'[d] = taken[d]
      BY <1>0, <1>1, <2>1 DEF PutStep
    <3>2. Append(taken[d] \o lane[d], m) = taken[d] \o Append(lane[d], m)
      <4> DEFINE p == taken[d]
                 q == lane[d]
      <4>1. p \in Seq(Message) /\ q \in Seq(Message) /\ m \in Message
        BY <1>0
      <4> HIDE DEF p, q
      <4>2. <<m>> \in Seq(Message) /\ p \o q \in Seq(Message)
        BY <4>1, ConcatProperties
      <4>3. Append(p \o q, m) = (p \o q) \o <<m>> /\ Append(q, m) = q \o <<m>>
        BY <4>1, <4>2, AppendIsConcat
      <4>4. (p \o q) \o <<m>> = p \o (q \o <<m>>)
        BY <4>1, <4>2, ConcatAssociative
      <4> QED
        BY <4>3, <4>4 DEF p, q
    <3> QED
      BY <1>0, <3>1, <3>2
  <2>2. CASE d # LaneOf(m)
    BY <1>0, <1>1, <2>2 DEF PutStep
  <2> QED
    BY <2>1, <2>2
<1>2. ASSUME NEW c, TakeStep(c)
      PROVE  accepted'[d] = taken'[d] \o lane'[d]
  <2>1. CASE d = c
    <3>1. /\ lane[d] # <<>>
          /\ lane'[d] = Tail(lane[d])
          /\ taken'[d] = Append(taken[d], Head(lane[d]))
          /\ accepted'[d] = accepted[d]
      BY <1>0, <1>2, <2>1 DEF TakeStep
    <3>2. taken[d] \o lane[d] = Append(taken[d], Head(lane[d])) \o Tail(lane[d])
      BY <1>0, <3>1, TakeKeepsSplit
    <3> QED
      BY <1>0, <3>1, <3>2
  <2>2. CASE d # c
    BY <1>0, <1>2, <2>2 DEF TakeStep
  <2> QED
    BY <2>1, <2>2
<1>3. ASSUME LoseStep
      PROVE  accepted'[d] = taken'[d] \o lane'[d]
  BY <1>0, <1>3, ConcatEmptySeq DEF LoseStep, NoLanes
<1>4. CASE StillStep
  BY <1>0, <1>4 DEF StillStep
<1> QED
  BY <1>1, <1>2, <1>3, <1>4, LaneSteps

\* Whatever the interleaving, each lane hands out exactly what it accepted, in order.
THEOREM LanesAreInOrder == Spec => []LanesInOrder
<1>1. Init => LanesInOrder
  BY ConcatEmptySeq DEF Init, LanesInOrder, NoLanes
<1> QED
  BY <1>1, LanesInOrderStep, TypeCorrect, PTL DEF Spec

LEMMA LaneLengths ==
    ASSUME TypeOK, LanesInOrder, NEW c \in Lane
    PROVE  /\ Len(lane[c]) \in Nat
           /\ Len(taken[c]) \in Nat
           /\ Len(accepted[c]) \in Nat
           /\ Len(accepted[c]) = Len(taken[c]) + Len(lane[c])
           /\ DOMAIN taken[c] \subseteq DOMAIN accepted[c]
           /\ \A i \in DOMAIN taken[c] : accepted[c][i] = taken[c][i]
           /\ lane[c] # <<>> => /\ Len(taken[c]) < Len(accepted[c])
                                /\ Head(lane[c]) = accepted[c][Len(taken[c]) + 1]
<1> DEFINE p == taken[c]
           q == lane[c]
           r == accepted[c]
<1>1. p \in Seq(Message) /\ q \in Seq(Message)
  BY DEF TypeOK
<1>2. r = p \o q
  BY DEF LanesInOrder
<1> HIDE DEF p, q, r
<1>3. /\ Len(q) \in Nat
      /\ Len(p) \in Nat
      /\ Len(r) \in Nat
      /\ Len(r) = Len(p) + Len(q)
      /\ DOMAIN p \subseteq DOMAIN r
      /\ \A i \in DOMAIN p : r[i] = p[i]
      /\ q # <<>> => Len(p) < Len(r) /\ Head(q) = r[Len(p) + 1]
  BY <1>1, <1>2, SplitProperties
<1> QED
  BY <1>3 DEF p, q, r

-----------------------------------------------------------------------------
(* A mailbox.                                                              *)

\* What senders and sessions see of the channels is the abstract mailbox: bounded,
\* first in first out, emptied by nothing but a restart.
THEOREM ImplementsMailbox == Spec => IsMailbox
<1>1. Init => M!Init
  BY DEF Init, M!Init, NoLanes
<1>2. TypeOK /\ LanesInOrder /\ [Next]_vars => [M!Next]_<<accepted, taken>>
  <2> SUFFICES ASSUME TypeOK, LanesInOrder, [Next]_vars
               PROVE  M!Next \/ UNCHANGED <<accepted, taken>>
    OBVIOUS
  <2>1. ASSUME NEW m \in Message, PutStep(m)
        PROVE  M!Next
    <3> DEFINE c == LaneOf(m)
    <3>1. c \in Lane /\ Room[c[2]] \in Nat
      BY <2>1, ConstantsAssumption DEF PutStep, Lane
    <3>2. Len(accepted[c]) < Len(taken[c]) + [d \in Lane |-> Room[d[2]]][c]
      <4>1. Len(lane[c]) < Room[c[2]]
        BY <2>1 DEF PutStep
      <4>2. /\ Len(accepted[c]) = Len(taken[c]) + Len(lane[c])
            /\ Len(lane[c]) \in Nat /\ Len(taken[c]) \in Nat /\ Len(accepted[c]) \in Nat
        BY <3>1, LaneLengths
      <4>3. [d \in Lane |-> Room[d[2]]][c] = Room[c[2]]
        BY <3>1
      <4>4. \A a, l, o, r \in Nat : l < r /\ a = o + l => a < o + r
        OBVIOUS
      <4> HIDE DEF c
      <4> QED
        BY <3>1, <4>1, <4>2, <4>3, <4>4
    <3>3. M!Put(c, m)
      BY <2>1, <3>2 DEF PutStep, M!Put
    <3> QED
      BY <3>1, <3>3 DEF M!Next
  <2>2. ASSUME NEW c, TakeStep(c)
        PROVE  M!Next
    <3>1. c \in Lane /\ lane[c] # <<>> /\ taken \in [Lane -> Seq(Message)]
      BY <2>2 DEF TakeStep, TypeOK
    <3>2. /\ Len(taken[c]) < Len(accepted[c])
          /\ Head(lane[c]) = accepted[c][Len(taken[c]) + 1]
      BY <3>1, LaneLengths
    <3>3. M!Take(c)
      BY <2>2, <3>1, <3>2 DEF TakeStep, M!Take
    <3> QED
      BY <3>1, <3>3 DEF M!Next
  <2>3. ASSUME LoseStep
        PROVE  M!Next
    BY <2>3 DEF LoseStep, M!Next, M!Lose
  <2>4. CASE StillStep
    BY <2>4 DEF StillStep
  <2> QED
    BY <2>1, <2>2, <2>3, <2>4, LaneSteps
<1> QED
  BY <1>1, <1>2, TypeCorrect, LanesAreInOrder, PTL DEF Spec, IsMailbox, M!Spec

-----------------------------------------------------------------------------
(* Nothing twice.                                                          *)

\* What a lane has accepted comes from senders that were told so, and nothing is in
\* two places.
OnceInv ==
    /\ \A c \in Lane : \A i \in DOMAIN accepted[c] : send[accepted[c][i]].pc = "accepted"
    /\ \A b, c \in Lane : \A i \in DOMAIN accepted[b], j \in DOMAIN accepted[c] :
          accepted[b][i] = accepted[c][j] => b = c /\ i = j

LEMMA AcceptedStays ==
    ASSUME TypeOK, [Next]_vars, NEW m \in Message, send[m].pc = "accepted"
    PROVE  send'[m].pc = "accepted"
<1>1. ASSUME NEW n \in Message, Begin(n) \/ Accept(n) \/ Refuse(n)
      PROVE  send'[m].pc = "accepted"
  <2>1. n # m
    BY <1>1 DEF Begin, Accept, Refuse
  <2>2. send'[m] = send[m]
    BY <1>1, <2>1 DEF Begin, Accept, Refuse, TypeOK
  <2> QED
    BY <2>2
<1>2. CASE Crash
  BY <1>2 DEF Crash
<1>3. CASE (\E s \in Session : Ask(s) \/ Take(s) \/ GiveUp(s)) \/ ClearCwmpCpe \/ UNCHANGED vars
  BY <1>3 DEF Ask, Take, GiveUp, ClearCwmpCpe, vars
<1> QED
  BY <1>1, <1>2, <1>3 DEF Next

LEMMA OnceInvStep ==
    TypeOK /\ LanesInOrder /\ OnceInv /\ [Next]_vars => OnceInv'
<1> SUFFICES ASSUME TypeOK, LanesInOrder, OnceInv, [Next]_vars
             PROVE  OnceInv'
  OBVIOUS
<1>1. ASSUME NEW c \in Lane, NEW i \in DOMAIN accepted[c]
      PROVE  accepted[c][i] \in Message
  <2>1. accepted[c] \in Seq(Message)
    BY DEF TypeOK
  <2> QED
    BY <2>1, ElementOfSeq, LenProperties
<1>2. CASE accepted' = accepted
  BY <1>1, <1>2, AcceptedStays DEF OnceInv
<1>3. CASE accepted' = taken
  <2>1. \A c \in Lane : /\ DOMAIN taken[c] \subseteq DOMAIN accepted[c]
                        /\ \A i \in DOMAIN taken[c] : accepted[c][i] = taken[c][i]
    BY LaneLengths
  <2> QED
    BY <1>1, <1>3, <2>1, AcceptedStays DEF OnceInv
<1>4. ASSUME NEW m \in Message, Accept(m), PutStep(m)
      PROVE  OnceInv'
  <2> DEFINE c == LaneOf(m)
             n == Len(accepted[c]) + 1
  <2>1. c \in Lane /\ accepted[c] \in Seq(Message)
    BY <1>4 DEF PutStep, TypeOK
  <2>2. accepted' = [accepted EXCEPT ![c] = Append(accepted[c], m)]
    BY <1>4 DEF PutStep
  <2>3. /\ DOMAIN accepted'[c] = 1..n
        /\ DOMAIN accepted[c] = 1..Len(accepted[c])
        /\ n \in Nat
        /\ \A i \in DOMAIN accepted[c] : accepted'[c][i] = accepted[c][i]
        /\ accepted'[c][n] = m
    <3> DEFINE q == accepted[c]
    <3>1. q \in Seq(Message) /\ accepted'[c] = Append(q, m)
      BY <2>1, <2>2 DEF TypeOK
    <3> HIDE DEF q
    <3>2. /\ Append(q, m) \in Seq(Message)
          /\ Len(Append(q, m)) = Len(q) + 1
          /\ \A i \in 1..Len(q) : Append(q, m)[i] = q[i]
          /\ Append(q, m)[Len(q) + 1] = m
      BY <3>1, AppendProperties
    <3>3. /\ DOMAIN q = 1..Len(q)
          /\ DOMAIN Append(q, m) = 1..(Len(q) + 1)
          /\ Len(q) \in Nat
      BY <3>1, <3>2, LenProperties
    <3> QED
      BY <3>1, <3>2, <3>3 DEF q
  <2>4. \A d \in Lane : d # c => accepted'[d] = accepted[d]
    BY <2>1, <2>2 DEF TypeOK
  <2>5. \A d \in Lane : \A i \in DOMAIN accepted[d] : accepted[d][i] # m
    BY <1>4 DEF OnceInv, Accept
  <2>6. send'[m].pc = "accepted"
    BY <1>4 DEF Accept, TypeOK, Sender
  <2>7. \A i \in DOMAIN accepted'[c] : i = n \/ i \in DOMAIN accepted[c]
    BY <2>3
  <2> HIDE DEF c, n
  <2>8. \A d \in Lane : \A i \in DOMAIN accepted'[d] :
           \/ d = c /\ i = n /\ accepted'[d][i] = m
           \/ i \in DOMAIN accepted[d] /\ accepted'[d][i] = accepted[d][i]
    BY <2>3, <2>4, <2>7
  <2>9. \A d \in Lane : \A i \in DOMAIN accepted'[d] : send'[accepted'[d][i]].pc = "accepted"
    BY <1>1, <2>6, <2>8, AcceptedStays DEF OnceInv
  <2>10. \A b, d \in Lane : \A i \in DOMAIN accepted'[b], j \in DOMAIN accepted'[d] :
            accepted'[b][i] = accepted'[d][j] => b = d /\ i = j
    BY <2>5, <2>8 DEF OnceInv
  <2> QED
    BY <2>9, <2>10 DEF OnceInv
<1> QED
  BY <1>2, <1>3, <1>4, LaneSteps DEF TakeStep, LoseStep, StillStep

\* A command reaches the device's session at most once, over all entries, and only
\* if its sender was told that it was accepted.
THEOREM NothingTakenTwice == Spec => []TakenOnce
<1>1. Init => OnceInv
  BY DEF Init, OnceInv, NoLanes
<1>2. TypeOK /\ LanesInOrder /\ OnceInv => TakenOnce
  <2> SUFFICES ASSUME TypeOK, LanesInOrder, OnceInv,
                      NEW b \in Lane, NEW c \in Lane,
                      NEW i \in DOMAIN taken[b], NEW j \in DOMAIN taken[c],
                      taken[b][i] = taken[c][j]
               PROVE  b = c /\ i = j /\ send[taken[b][i]].pc = "accepted"
    BY DEF TakenOnce
  <2>1. /\ i \in DOMAIN accepted[b] /\ accepted[b][i] = taken[b][i]
        /\ j \in DOMAIN accepted[c] /\ accepted[c][j] = taken[c][j]
    BY LaneLengths
  <2> QED
    BY <2>1 DEF OnceInv
<1> QED
  BY <1>1, <1>2, OnceInvStep, TypeCorrect, LanesAreInOrder, PTL DEF Spec

-----------------------------------------------------------------------------
(* Urgent messages first.                                                  *)

\* What a session saw accepted stays accepted while the session lasts, and all of it
\* has been taken once the session turns to the normal lane.
UrgentInv ==
    \A s \in Session :
        LET c == UrgentLane(recv[s].at)
        IN  recv[s].pc # "idle" =>
                /\ recv[s].seen <= Len(accepted[c])
                /\ recv[s].pc = "normal" => recv[s].seen <= Len(taken[c])

\* Histories grow, except in a crash.
LEMMA HistoriesGrow ==
    ASSUME TypeOK, LanesInOrder, [Next]_vars, ~Crash, NEW c \in Lane
    PROVE  Len(accepted[c]) <= Len(accepted'[c]) /\ Len(taken[c]) <= Len(taken'[c])
<1> DEFINE p == accepted[c]
           q == taken[c]
<1>1. p \in Seq(Message) /\ q \in Seq(Message)
  BY DEF TypeOK
<1>2. \/ p = accepted'[c]
      \/ \E x \in Message : accepted'[c] = Append(p, x)
  BY LaneSteps DEF PutStep, TakeStep, LoseStep, StillStep, TypeOK
<1>3. \/ q = taken'[c]
      \/ \E x \in Message : taken'[c] = Append(q, x)
  <2>1. \A d \in Lane : lane[d] # <<>> => Head(lane[d]) \in Message
    <3> SUFFICES ASSUME NEW d \in Lane, lane[d] # <<>>
                 PROVE  Head(lane[d]) \in Message
      OBVIOUS
    <3>1. lane[d] \in Seq(Message)
      BY DEF TypeOK
    <3> QED
      BY <3>1, HeadTailProperties
  <2> QED
    BY <2>1, LaneSteps DEF PutStep, TakeStep, LoseStep, StillStep, TypeOK
<1> HIDE DEF p, q
<1>4. \A x \in Message : Len(Append(p, x)) = Len(p) + 1 /\ Len(Append(q, x)) = Len(q) + 1
  BY <1>1, AppendProperties
<1>5. Len(p) \in Nat /\ Len(q) \in Nat
  BY <1>1, LenProperties
<1>6. Len(p) <= Len(accepted'[c]) /\ Len(q) <= Len(taken'[c])
  BY <1>2, <1>3, <1>4, <1>5
<1> QED
  BY <1>6 DEF p, q

LEMMA NoGreater == \A x, y, z \in Nat : x <= y /\ y <= z => x <= z
OBVIOUS

LEMMA UrgentInvStep ==
    TypeOK /\ LanesInOrder /\ UrgentInv /\ [Next]_vars => UrgentInv'
<1> SUFFICES ASSUME TypeOK, LanesInOrder, UrgentInv, [Next]_vars,
                    NEW s \in Session, recv'[s].pc # "idle"
             PROVE  LET c == UrgentLane(recv'[s].at)
                    IN  /\ recv'[s].seen <= Len(accepted'[c])
                        /\ recv'[s].pc = "normal" => recv'[s].seen <= Len(taken'[c])
  BY DEF UrgentInv
<1>1. ~Crash
  BY DEF Crash, Unserved
<1>2. TypeOK' /\ LanesInOrder'
  BY TypeCorrectStep, LanesInOrderStep
<1> DEFINE c == UrgentLane(recv'[s].at)
<1>3. c \in Lane
  <2>1. recv'[s] \in Receiver /\ recv'[s].at # 0
    BY <1>2 DEF TypeOK
  <2> QED
    BY <2>1 DEF Receiver, UrgentLane, Lane
<1>4. /\ Len(accepted[c]) <= Len(accepted'[c])
      /\ Len(taken[c]) <= Len(taken'[c])
  BY <1>1, <1>3, HistoriesGrow
<1>5. /\ Len(accepted[c]) \in Nat /\ Len(taken[c]) \in Nat
      /\ Len(accepted[c]) = Len(taken[c]) + Len(lane[c])
  BY <1>3, LaneLengths
<1>6. Len(accepted'[c]) \in Nat /\ Len(taken'[c]) \in Nat
  <2>1. accepted'[c] \in Seq(Message) /\ taken'[c] \in Seq(Message)
    BY <1>2, <1>3 DEF TypeOK
  <2> QED
    BY <2>1, LenProperties
<1>7. recv'[s].seen \in Nat
  <2>1. recv'[s] \in Receiver
    BY <1>2 DEF TypeOK
  <2> QED
    BY <2>1 DEF Receiver
<1>8. CASE recv'[s] = recv[s]
  <2>1. /\ recv'[s].seen <= Len(accepted[c])
        /\ recv'[s].pc = "normal" => recv'[s].seen <= Len(taken[c])
    BY <1>8 DEF UrgentInv
  <2>2. recv'[s].seen <= Len(accepted'[c])
    BY <1>4, <1>5, <1>6, <1>7, <2>1, NoGreater, Zenon
  <2>3. recv'[s].pc = "normal" => recv'[s].seen <= Len(taken'[c])
    BY <1>4, <1>5, <1>6, <1>7, <2>1, NoGreater, Zenon
  <2> QED
    BY <2>2, <2>3
<1>9. CASE Ask(s)
  <2>1. /\ recv'[s] = [pc |-> "urgent", at |-> entry', seen |-> Len(accepted[UrgentLane(entry')])]
        /\ accepted' = accepted
    BY <1>9 DEF Ask, TypeOK
  <2>2. recv'[s].pc = "urgent" /\ recv'[s].seen = Len(accepted[c])
    BY <2>1
  <2>3. recv'[s].seen <= Len(accepted'[c])
    BY <1>4, <2>2, Zenon
  <2> QED
    BY <2>2, <2>3
<1>10. CASE GiveUp(s)
  <2>1. /\ recv[s].pc = "urgent" /\ lane[LaneAt(s)] = <<>>
        /\ recv'[s] = [pc |-> "normal", at |-> recv[s].at, seen |-> recv[s].seen]
        /\ accepted' = accepted /\ taken' = taken
    BY <1>10 DEF GiveUp, GivesUp, TypeOK, Unserved
  <2>2. lane[c] = <<>> /\ recv'[s].seen <= Len(accepted[c])
    BY <2>1 DEF LaneAt, getQueue, UrgentInv
  <2>3. Len(lane[c]) = 0
    BY <2>2, EmptySeq
  <2>4. taken'[c] = taken[c] /\ accepted'[c] = accepted[c]
    BY <2>1
  <2> HIDE DEF c
  <2>5. Len(accepted[c]) = Len(taken[c])
    BY <1>5, <2>3
  <2>6. /\ recv'[s].seen <= Len(accepted'[c])
        /\ recv'[s].seen <= Len(taken'[c])
    BY <2>2, <2>4, <2>5
  <2> QED
    BY <2>6 DEF c
<1>11. CASE Take(s)
  BY <1>11 DEF Take, TypeOK, Unserved
<1>12. ASSUME ~Ask(s), ~GiveUp(s), ~Take(s)
       PROVE  recv'[s] = recv[s]
  BY <1>1, <1>12 DEF Next, Begin, Accept, Refuse, Ask, GiveUp, Take, ClearCwmpCpe, vars, TypeOK
<1> QED
  BY <1>8, <1>9, <1>10, <1>11, <1>12

\* An urgent command that was waiting when the device asked goes out before any
\* normal one.
THEOREM UrgentGoesFirst == Spec => []UrgentFirst
<1>1. Init => UrgentInv
  BY DEF Init, UrgentInv, Unserved
<1>2. TypeOK /\ LanesInOrder /\ UrgentInv => UrgentFirst
  <2> SUFFICES ASSUME TypeOK, LanesInOrder, UrgentInv,
                      NEW s \in Session, recv[s].pc = "normal"
               PROVE  Len(taken[UrgentLane(recv[s].at)]) >= recv[s].seen
    BY DEF UrgentFirst
  <2>1. UrgentLane(recv[s].at) \in Lane
    BY LaneAtType
  <2>2. Len(taken[UrgentLane(recv[s].at)]) \in Nat
    BY <2>1, LaneLengths
  <2>3. recv[s].seen <= Len(taken[UrgentLane(recv[s].at)])
    BY DEF UrgentInv
  <2>4. recv[s].seen \in Nat
    <3>1. recv[s] \in Receiver
      BY DEF TypeOK
    <3> QED
      BY <3>1 DEF Receiver
  <2> QED
    BY <2>2, <2>3, <2>4
<1> QED
  BY <1>1, <1>2, UrgentInvStep, TypeCorrect, LanesAreInOrder, PTL DEF Spec
=============================================================================
