--------------------------- MODULE CwmpSessionProofs ---------------------------
(***************************************************************************)
(* Theorems about CwmpSession, for every set of commands and parts, every   *)
(* capacity of the lanes, every timeout and window and any number of faults.*)
(***************************************************************************)
EXTENDS CwmpSession, SequenceTheorems, FiniteSetTheorems, TLAPS

-----------------------------------------------------------------------------
(* Types.                                                                  *)

\* A command that is under way is at one of its parts.
AtPart ==
    \A c \in Command :
        /\ op[c].pc = "idle" => op[c].n = 1
        /\ op[c].pc \in {"send", "insert"} => op[c].n \in DOMAIN Parts[c]

LEMMA PartTypes ==
    ASSUME NEW c \in Command
    PROVE  /\ Parts[c] \in Seq(Part)
           /\ Len(Parts[c]) \in Nat
           /\ DOMAIN Parts[c] = 1..Len(Parts[c])
           /\ \A n \in DOMAIN Parts[c] : Parts[c][n] \in Part
<1>1. Parts[c] \in Seq(Part)
  BY ConstantsAssumption
<1> QED
  BY <1>1

LEMMA Requests ==
    /\ \A c \in Command, p \in Part : Set(c, p) \in Setting /\ Set(c, p) \in Request
    /\ Get \in Request /\ Download \in Request
    /\ \A r \in Request : r.kind = "Set" => r \in Setting
    /\ \A r \in Setting : /\ r \in Request
                          /\ r.kind = "Set"
                          /\ r.cmd \in Command
                          /\ r.part \in Part
                          /\ r = Set(r.cmd, r.part)
                          /\ TargetOf(r) \in Target
BY DEF Set, Get, Download, Setting, Request, Target, TargetOf

LEMMA RowsType ==
    ASSUME TypeOK
    PROVE  /\ Len(rows) \in Nat
           /\ DOMAIN rows = 1..Len(rows)
           /\ \A i \in DOMAIN rows : /\ rows[i] \in Row
                                     /\ rows[i].what \in Request
                                     /\ rows[i].age \in Int
<1>1. rows \in Seq(Row)
  BY DEF TypeOK
<1>2. \A r \in Row : r.what \in Request /\ r.age \in Int
  BY DEF Row
<1> QED
  BY <1>1, <1>2

LEMMA LaneTypes ==
    ASSUME TypeOK, NEW hp \in BOOLEAN
    PROVE  /\ lane[hp] \in Seq(Request)
           /\ Len(lane[hp]) \in Nat
           /\ DOMAIN lane[hp] = 1..Len(lane[hp])
           /\ \A i \in DOMAIN lane[hp] : lane[hp][i] \in Request
<1>1. lane[hp] \in Seq(Request)
  BY DEF TypeOK
<1> QED
  BY <1>1

LEMMA SessionTypes ==
    /\ Closed \in Session /\ Informed \in Session
    /\ \A s \in Seq(Source) : Asking(s) \in Session
    /\ \A r \in Request : Executing(r) \in Session
    /\ OnEmptyPost \in Seq(Source) /\ Chain \in Seq(Source)
<1>1. <<>> \in Seq(Source) /\ OnEmptyPost \in Seq(Source) /\ Chain \in Seq(Source)
  BY DEF OnEmptyPost, Chain, Source
<1>2. Get \in Request
  BY Requests
<1> QED
  BY <1>1, <1>2 DEF Closed, Informed, Asking, Executing, State, Session

LEMMA InitType == Init => TypeOK /\ AtPart
<1> SUFFICES ASSUME Init PROVE TypeOK /\ AtPart
  OBVIOUS
<1>1. session \in Session
  BY SessionTypes DEF Init
<1>2. /\ lane \in [BOOLEAN -> Seq(Request)]
      /\ lane[TRUE] \in Seq(Setting) /\ lane[FALSE] \in Seq({Get})
      /\ \A hp \in BOOLEAN : Len(lane[hp]) <= Room[hp]
  BY ConstantsAssumption DEF Init
<1>3. op \in [Command -> Handler] /\ AtPart
  BY ConstantsAssumption DEF Init, Handler, AtPart
<1>4. got \in [Target -> Nat] /\ rows \in Seq(Row)
  BY DEF Init
<1>5. inform \subseteq {"job", "fetch"} /\ known \in BOOLEAN /\ owed \in BOOLEAN
  BY DEF Init
<1>6. device \in [Part -> Command \cup {Nobody}]
  BY DEF Init
<1>7. before \in [Command -> SUBSET Command]
  BY DEF Init
<1>8. /\ faults \in 0..MaxFault
      /\ cut \subseteq Target /\ stranded \subseteq Target /\ dropped \subseteq Target
  BY ConstantsAssumption DEF Init
<1> QED
  BY <1>1, <1>2, <1>3, <1>4, <1>5, <1>6, <1>7, <1>8 DEF TypeOK

\* A handler moves on without moving to another part.
LEMMA HandlerMoves ==
    ASSUME TypeOK, AtPart, NEW c \in Command, NEW h \in Handler, op' = [op EXCEPT ![c] = h],
           h.pc # "idle", h.pc \in {"send", "insert"} => h.n \in DOMAIN Parts[c]
    PROVE  op' \in [Command -> Handler] /\ AtPart'
BY DEF TypeOK, AtPart

LEMMA ToInsertMoves ==
    ASSUME TypeOK, AtPart, NEW c \in Command, op[c].pc = "send", ToInsert(c)
    PROVE  /\ op' = [op EXCEPT ![c] = [pc |-> "insert", n |-> op[c].n, waited |-> 0]]
           /\ op' \in [Command -> Handler] /\ AtPart'
<1> DEFINE h == [pc |-> "insert", n |-> op[c].n, waited |-> 0]
<1>1. op[c] \in Handler /\ op[c].n \in DOMAIN Parts[c]
  BY DEF TypeOK, AtPart
<1>2. h \in Handler
  BY <1>1, ConstantsAssumption DEF Handler
<1>3. op' = [op EXCEPT ![c] = h]
  BY DEF ToInsert
<1> QED
  BY <1>1, <1>2, <1>3, HandlerMoves

\* What TypeOK says of the lanes.
LaneOK ==
    /\ lane \in [BOOLEAN -> Seq(Request)]
    /\ lane[TRUE] \in Seq(Setting)
    /\ lane[FALSE] \in Seq({Get})
    /\ \A hp \in BOOLEAN : Len(lane[hp]) <= Room[hp]

LEMMA AppendTo ==
    ASSUME NEW S, NEW q \in Seq(S), NEW m \in S
    PROVE  Append(q, m) \in Seq(S) /\ Len(Append(q, m)) = Len(q) + 1 /\ Len(q) \in Nat
BY AppendProperties

LEMMA Appended ==
    ASSUME TypeOK, NEW hp \in BOOLEAN, NEW m \in Request, HasRoom(hp),
           hp => m \in Setting, ~hp => m = Get,
           lane' = [lane EXCEPT ![hp] = Append(@, m)]
    PROVE  LaneOK'
<1>1. /\ lane \in [BOOLEAN -> Seq(Request)] /\ lane[hp] \in Seq(Request)
      /\ lane[TRUE] \in Seq(Setting) /\ lane[FALSE] \in Seq({Get})
      /\ \A b \in BOOLEAN : Len(lane[b]) <= Room[b]
  BY Zenon DEF TypeOK
<1>2. Append(lane[hp], m) \in Seq(Request) /\ Len(Append(lane[hp], m)) = Len(lane[hp]) + 1
      /\ Len(lane[hp]) \in Nat
  BY <1>1, AppendTo
<1>3. /\ lane' \in [BOOLEAN -> Seq(Request)] /\ lane'[hp] = Append(lane[hp], m)
      /\ \A b \in BOOLEAN : b # hp => lane'[b] = lane[b]
  BY <1>1, <1>2, Zenon
<1>4. Len(lane'[hp]) <= Room[hp]
  <2>1. Room[hp] \in Nat
    BY ConstantsAssumption, Zenon
  <2>2. Len(lane[hp]) < Room[hp]
    BY DEF HasRoom
  <2> QED
    BY <1>2, <1>3, <2>1, <2>2
<1>5. \A b \in BOOLEAN : Len(lane'[b]) <= Room[b]
  BY <1>1, <1>3, <1>4, Zenon
<1>6. CASE hp = TRUE
  <2>1. lane'[TRUE] \in Seq(Setting) /\ lane'[FALSE] = lane[FALSE]
    BY <1>1, <1>3, <1>6, AppendTo, Zenon
  <2> QED
    BY <1>1, <1>3, <1>5, <2>1, Zenon DEF LaneOK
<1>7. CASE hp = FALSE
  <2>1. lane'[FALSE] \in Seq({Get}) /\ lane'[TRUE] = lane[TRUE]
    BY <1>1, <1>3, <1>7, AppendTo, Zenon
  <2> QED
    BY <1>1, <1>3, <1>5, <2>1, Zenon DEF LaneOK
<1> QED
  BY <1>6, <1>7, Zenon

LEMMA OverType == Over \subseteq Command
BY DEF Over

LEMMA CommandStepType ==
    ASSUME TypeOK, AtPart, NEW c \in Command, CommandStep(c)
    PROVE  TypeOK' /\ AtPart'
<1> USE ConstantsAssumption
<1>1. op[c] \in Handler /\ Len(Parts[c]) \in Nat /\ DOMAIN Parts[c] = 1..Len(Parts[c])
  BY PartTypes DEF TypeOK
<1>2. CASE Begin(c)
  <2>1. op' = [op EXCEPT ![c] = [op[c] EXCEPT !.pc = "send"]]
    BY <1>2 DEF Begin
  <2>2. before' \in [Command -> SUBSET Command]
    BY <1>2, OverType DEF Begin, TypeOK
  <2>3. op' \in [Command -> Handler] /\ AtPart'
    <3>1. /\ [op[c] EXCEPT !.pc = "send"] \in Handler
          /\ [op[c] EXCEPT !.pc = "send"].n = op[c].n
          /\ [op[c] EXCEPT !.pc = "send"].pc = "send"
      BY <1>1 DEF Handler
    <3>2. op[c].n = 1 /\ 1 \in DOMAIN Parts[c]
      <4>1. Parts[c] # <<>> /\ op[c].n = 1
        BY <1>2 DEF Begin, AtPart
      <4> QED
        BY <1>1, <4>1, PartTypes
    <3> QED
      BY <2>1, <3>1, <3>2, HandlerMoves
  <2> QED
    BY <1>2, <2>1, <2>2, <2>3 DEF Begin, TypeOK, cpe
<1>3. CASE SendPart(c)
  <2>1. Current(c) \in Part
    BY <1>3, PartTypes DEF SendPart, AtPart, Current
  <2>2. Set(c, Current(c)) \in Setting /\ Set(c, Current(c)) \in Request
    BY <2>1, Requests
  <2>3. /\ lane' \in [BOOLEAN -> Seq(Request)]
        /\ lane'[TRUE] \in Seq(Setting)
        /\ lane'[FALSE] \in Seq({Get})
        /\ \A hp \in BOOLEAN : Len(lane'[hp]) <= Room[hp]
    <3>1. lane' = [lane EXCEPT ![TRUE] = Append(@, Set(c, Current(c)))] /\ HasRoom(TRUE)
      BY <1>3 DEF SendPart
    <3> QED
      BY <2>2, <3>1, Appended DEF LaneOK
  <2>4. op' \in [Command -> Handler] /\ AtPart'
    BY <1>3, ToInsertMoves DEF SendPart
  <2> QED
    BY <1>3, <2>3, <2>4 DEF SendPart, TypeOK, cpe, observers
<1>4. CASE GiveUpPart(c)
  <2>1. op' \in [Command -> Handler] /\ AtPart'
    BY <1>4, ToInsertMoves DEF GiveUpPart
  <2> QED
    BY <1>4, <2>1 DEF GiveUpPart, TypeOK, cpe, observers
<1>5. CASE InsertPart(c)
  <2>1. Current(c) \in Part /\ op[c].n \in DOMAIN Parts[c]
    BY <1>5, PartTypes DEF InsertPart, AtPart, Current
  <2>2. Set(c, Current(c)) \in Request /\ -Offset(c) \in Int
    BY <1>1, <2>1, Requests DEF Offset, Handler
  <2>3. rows' \in Seq(Row)
    <3>1. [what |-> Set(c, Current(c)), age |-> -Offset(c)] \in Row
      BY <2>2 DEF Row
    <3> QED
      BY <1>5, <3>1 DEF InsertPart, TypeOK
  <2>4. op' \in [Command -> Handler] /\ AtPart'
    <3>1. CASE op[c].n = Len(Parts[c])
      <4>1. op' = [op EXCEPT ![c].pc = "done"]
        BY <1>5, <3>1 DEF InsertPart
      <4> QED
        BY <1>1, <4>1 DEF TypeOK, Handler, AtPart
    <3>2. CASE op[c].n # Len(Parts[c])
      <4>1. op' = [op EXCEPT ![c] = [pc |-> "send", n |-> op[c].n + 1, waited |-> 0]]
        BY <1>5, <3>2 DEF InsertPart
      <4>2. op[c].n + 1 \in DOMAIN Parts[c] /\ op[c].n + 1 \in Nat \ {0}
        BY <1>1, <2>1, <3>2
      <4>3. [pc |-> "send", n |-> op[c].n + 1, waited |-> 0] \in Handler
        BY <4>2 DEF Handler
      <4> QED
        BY <4>1, <4>2, <4>3 DEF TypeOK, AtPart
    <3> QED
      BY <3>1, <3>2
  <2> QED
    BY <1>5, <2>3, <2>4 DEF InsertPart, TypeOK, cpe
<1>6. CASE FailPart(c)
  <2>1. op' \in [Command -> Handler] /\ AtPart'
    BY <1>1, <1>6 DEF FailPart, TypeOK, Handler, AtPart
  <2>2. faults' \in 0..MaxFault
    BY <1>6 DEF FailPart, Fault, TypeOK
  <2> QED
    BY <1>6, <2>1, <2>2 DEF FailPart, TypeOK, cpe, observers
<1> QED
  BY <1>2, <1>3, <1>4, <1>5, <1>6 DEF CommandStep

LEMMA TailOf ==
    ASSUME NEW S, NEW q \in Seq(S), q # <<>>
    PROVE  /\ Head(q) \in S /\ Tail(q) \in Seq(S) /\ Len(Tail(q)) = Len(q) - 1
           /\ Len(q) \in Nat
BY HeadTailProperties

LEMMA Taken ==
    ASSUME TypeOK, NEW hp \in BOOLEAN, lane[hp] # <<>>,
           lane' = [lane EXCEPT ![hp] = Rest(@)]
    PROVE  LaneOK' /\ Head(lane[hp]) \in Request
<1>1. /\ lane \in [BOOLEAN -> Seq(Request)] /\ lane[hp] \in Seq(Request)
      /\ lane[TRUE] \in Seq(Setting) /\ lane[FALSE] \in Seq({Get})
      /\ \A b \in BOOLEAN : Len(lane[b]) <= Room[b]
  BY Zenon DEF TypeOK
<1>2. /\ Tail(lane[hp]) \in Seq(Request) /\ Len(Tail(lane[hp])) = Len(lane[hp]) - 1
      /\ Len(lane[hp]) \in Nat /\ Head(lane[hp]) \in Request
  BY <1>1, TailOf
<1>3. /\ lane' \in [BOOLEAN -> Seq(Request)] /\ lane'[hp] = Tail(lane[hp])
      /\ \A b \in BOOLEAN : b # hp => lane'[b] = lane[b]
  BY <1>1, <1>2, Zenon DEF Rest
<1>4. Len(lane'[hp]) <= Room[hp]
  <2>1. Room[hp] \in Nat
    BY ConstantsAssumption, Zenon
  <2>2. Len(lane[hp]) <= Room[hp]
    BY <1>1, Zenon
  <2> QED
    BY <1>2, <1>3, <2>1, <2>2
<1>5. \A b \in BOOLEAN : Len(lane'[b]) <= Room[b]
  BY <1>1, <1>3, <1>4, Zenon
<1>6. CASE hp = TRUE
  <2>1. lane'[TRUE] \in Seq(Setting) /\ lane'[FALSE] = lane[FALSE]
    <3>1. lane[TRUE] # <<>> /\ lane'[TRUE] = Tail(lane[TRUE]) /\ lane'[FALSE] = lane[FALSE]
      BY <1>3, <1>6, Zenon
    <3>2. \A q \in Seq(Setting) : q # <<>> => Tail(q) \in Seq(Setting)
      BY TailOf
    <3> QED
      BY <1>1, <3>1, <3>2, Zenon
  <2> QED
    BY <1>1, <1>2, <1>3, <1>5, <2>1, Zenon DEF LaneOK
<1>7. CASE hp = FALSE
  <2>1. lane'[FALSE] \in Seq({Get}) /\ lane'[TRUE] = lane[TRUE]
    <3>1. lane[FALSE] # <<>> /\ lane'[FALSE] = Tail(lane[FALSE]) /\ lane'[TRUE] = lane[TRUE]
      BY <1>3, <1>7, Zenon
    <3>2. \A q \in Seq({Get}) : q # <<>> => Tail(q) \in Seq({Get})
      BY TailOf
    <3> QED
      BY <1>1, <3>1, <3>2, Zenon
  <2> QED
    BY <1>1, <1>2, <1>3, <1>5, <2>1, Zenon DEF LaneOK
<1> QED
  BY <1>6, <1>7, Zenon

\* What is left of the rows when one is taken is a sequence of rows.
LEMMA WithoutType ==
    ASSUME TypeOK, NEW i \in DOMAIN rows
    PROVE  /\ Without(i) \in Seq(Row)
           /\ Len(Without(i)) = Len(rows) - 1
           /\ \A j \in 1..Len(rows) - 1 :
                 Without(i)[j] = IF j < i THEN rows[j] ELSE rows[j + 1]
<1>1. Len(rows) \in Nat /\ DOMAIN rows = 1..Len(rows) /\ \A j \in DOMAIN rows : rows[j] \in Row
  BY RowsType
<1>2. Len(rows) - 1 \in Nat
  BY <1>1
<1>3. \A j \in 1..Len(rows) - 1 : (IF j < i THEN rows[j] ELSE rows[j + 1]) \in Row
  BY <1>1
<1>4. Without(i) \in [1..Len(rows) - 1 -> Row]
  BY <1>3 DEF Without
<1> QED
  BY <1>2, <1>4 DEF Without

LEMMA AcsStepType ==
    ASSUME TypeOK, AtPart, AcsStep
    PROVE  TypeOK' /\ AtPart'
<1>1. CASE InsertDownload
  <2>1. [what |-> Download, age |-> 0] \in Row
    BY Requests DEF Row
  <2>2. rows \in Seq(Row) /\ inform \subseteq {"job", "fetch"}
    BY DEF TypeOK
  <2>3. rows' \in Seq(Row) /\ inform' \subseteq {"job", "fetch"}
    BY <1>1, <2>1, <2>2 DEF InsertDownload
  <2> QED
    BY <1>1, <2>3 DEF InsertDownload, TypeOK, AtPart, cpe, observers
<1>2. CASE Fetch
  <2>1. LaneOK'
    <3>1. CASE HasRoom(FALSE)
      BY <1>2, <3>1, Requests, Appended DEF Fetch
    <3>2. CASE ~HasRoom(FALSE)
      <4>1. lane' = lane
        BY <1>2, <3>2 DEF Fetch
      <4> QED
        BY <4>1, Zenon DEF TypeOK, LaneOK
    <3> QED
      BY <3>1, <3>2
  <2> QED
    BY <1>2, <2>1 DEF Fetch, TypeOK, LaneOK, AtPart, cpe, observers
<1>3. CASE AskTask
  <2>1. PICK i \in DOMAIN rows : Deliver(rows[i].what) /\ rows' = Without(i)
    BY <1>3 DEF AskTask
  <2>2. rows' \in Seq(Row)
    BY <2>1, WithoutType
  <2>3. session' \in Session
    BY <2>1, RowsType, SessionTypes DEF Deliver
  <2> QED
    BY <1>3, <2>2, <2>3 DEF AskTask, TypeOK, AtPart, cpe, observers
<1>4. ASSUME NEW hp \in BOOLEAN, AskLane(hp)
      PROVE  TypeOK' /\ AtPart'
  <2>1. LaneOK' /\ Head(lane[hp]) \in Request
    BY <1>4, Taken DEF AskLane
  <2>2. session' \in Session
    BY <1>4, <2>1, SessionTypes DEF AskLane, Deliver
  <2> QED
    BY <1>4, <2>1, <2>2 DEF AskLane, TypeOK, LaneOK, AtPart, cpe, observers
<1>5. CASE AskNext
  <2>1. session.left \in Seq(Source) /\ session.left # <<>>
    BY <1>5 DEF AskNext, TypeOK, Session
  <2>2. session' \in Session
    BY <1>5, <2>1, TailOf, SessionTypes DEF AskNext
  <2> QED
    BY <1>5, <2>2 DEF AskNext, TypeOK, AtPart, server, cpe, observers
<1>6. CASE NoContent
  BY <1>6, SessionTypes DEF NoContent, TypeOK, AtPart, server, cpe, observers
<1> QED
  BY <1>1, <1>2, <1>3, <1>4, <1>5, <1>6 DEF AcsStep

LEMMA UrgentType == ASSUME TypeOK PROVE \A i \in DOMAIN lane[TRUE] : lane[TRUE][i] \in Setting
<1>1. lane[TRUE] \in Seq(Setting)
  BY DEF TypeOK
<1>2. \A q \in Seq(Setting) : \A i \in DOMAIN q : q[i] \in Setting
  OBVIOUS
<1> QED
  BY <1>1, <1>2, Zenon

\* What the CPE does, and what is noted of it, is typed.
LEMMA DoType ==
    ASSUME TypeOK, NEW r \in Request
    PROVE  /\ Do(r) => /\ device' \in [Part -> Command \cup {Nobody}]
                       /\ got' \in [Target -> Nat]
                       /\ owed' \in BOOLEAN
           /\ Cut(r) => cut' \subseteq Target /\ stranded' \subseteq Target
<1>1. CASE r.kind = "Set"
  <2>1. /\ r.cmd \in Command /\ r.part \in Part /\ TargetOf(r) \in Target
        /\ owed \in BOOLEAN
    BY <1>1, Requests DEF TypeOK
  <2>2. Do(r) => device' \in [Part -> Command \cup {Nobody}]
    BY <1>1, <2>1 DEF Do, TypeOK
  <2>3. Do(r) => got' \in [Target -> Nat]
    BY <1>1, <2>1 DEF Do, TypeOK
  <2>4. Do(r) => owed' \in BOOLEAN
    BY DEF Do
  <2>5. Cut(r) => cut' \subseteq Target
    BY <1>1, <2>1 DEF Cut, TypeOK
  <2>6. Cut(r) => stranded' \subseteq Target
    <3>1. \A m \in Alone : TargetOf(m) \in Target
      <4>1. \A i \in DOMAIN lane[TRUE] : lane[TRUE][i] \in Setting
        BY UrgentType
      <4> QED
        BY <4>1, Requests DEF Alone
    <3>2. stranded \subseteq Target
      BY DEF TypeOK
    <3> QED
      BY <1>1, <3>1, <3>2 DEF Cut
  <2> QED
    BY <2>2, <2>3, <2>4, <2>5, <2>6
<1>2. CASE r.kind # "Set"
  BY <1>2 DEF Do, Cut, TypeOK
<1> QED
  BY <1>1, <1>2

LEMMA CpeStepType ==
    ASSUME TypeOK, AtPart, CpeStep
    PROVE  TypeOK' /\ AtPart'
<1>1. session.what \in Request
  BY DEF TypeOK, Session
<1>2. ASSUME NEW periodic \in BOOLEAN, Inform(periodic)
      PROVE  TypeOK' /\ AtPart'
  BY <1>2, SessionTypes DEF Inform, TypeOK, AtPart, cpe, observers
<1>3. CASE TransferComplete
  <2>1. session' \in Session /\ owed' \in BOOLEAN
    BY <1>3, SessionTypes DEF TransferComplete, TypeOK
  <2> QED
    BY <1>3, <2>1 DEF TransferComplete, TypeOK, AtPart, server, observers
<1>4. CASE EmptyPost
  BY <1>4, SessionTypes DEF EmptyPost, TypeOK, AtPart, server, cpe, observers
<1>5. CASE Respond
  <2>1. session' \in Session
    BY <1>5, SessionTypes DEF Respond
  <2>2. cut' \subseteq Target /\ stranded' \subseteq Target
    BY <1>1, <1>5, DoType DEF Respond, TypeOK
  <2> QED
    BY <1>1, <1>5, <2>1, <2>2, DoType DEF Respond, TypeOK, AtPart, server
<1>6. CASE LoseReply
  <2>1. faults' \in 0..MaxFault
    BY <1>6, ConstantsAssumption DEF LoseReply, Fault, TypeOK
  <2> QED
    BY <1>1, <1>6, <2>1, DoType, SessionTypes DEF LoseReply, TypeOK, AtPart, server, cpe
<1>7. CASE LoseResponse
  <2>1. faults' \in 0..MaxFault
    BY <1>7, ConstantsAssumption DEF LoseResponse, Fault, TypeOK
  <2> QED
    BY <1>1, <1>7, <2>1, DoType, SessionTypes DEF LoseResponse, TypeOK, AtPart, server
<1> QED
  BY <1>2, <1>3, <1>4, <1>5, <1>6, <1>7 DEF CpeStep

\* Time keeps an ordered part of the rows, each as it was but for its age.
LEMMA TickRows ==
    ASSUME TypeOK, Tick
    PROVE  /\ rows' \in Seq(Row)
           /\ \E kept \in [1..Len(rows') -> DOMAIN rows] :
                 /\ \A m, n \in 1..Len(rows') : m # n => kept[m] # kept[n]
                 /\ \A n \in 1..Len(rows') : rows'[n].what = rows[kept[n]].what
<1>1. Len(rows) \in Nat /\ DOMAIN rows = 1..Len(rows)
      /\ \A i \in DOMAIN rows : rows[i] \in Row
  BY RowsType
<1>2. Lasting \subseteq DOMAIN rows
  BY DEF Lasting
<1>3. Cardinality(Lasting) \in Nat
  <2>1. IsFiniteSet(1..Len(rows))
    BY <1>1, FS_Interval
  <2> QED
    BY <1>1, <1>2, <2>1, FS_Subset, FS_CardinalityType
<1>4. PICK kept \in [1..Cardinality(Lasting) -> Lasting] :
          /\ \A m, n \in DOMAIN kept : m < n => kept[m] < kept[n]
          /\ rows' = [n \in DOMAIN kept |-> [rows[kept[n]] EXCEPT !.age = @ + 1]]
  BY DEF Tick
<1>5. DOMAIN kept = 1..Cardinality(Lasting) /\ \A n \in DOMAIN kept : kept[n] \in DOMAIN rows
  BY <1>2, <1>4
<1>6. \A n \in DOMAIN kept : /\ [rows[kept[n]] EXCEPT !.age = @ + 1] \in Row
                             /\ [rows[kept[n]] EXCEPT !.age = @ + 1].what = rows[kept[n]].what
  BY <1>1, <1>5 DEF Row
<1>7. rows' \in [1..Cardinality(Lasting) -> Row]
  BY <1>4, <1>5, <1>6
<1>8. rows' \in Seq(Row) /\ Len(rows') = Cardinality(Lasting)
  BY <1>3, <1>7
<1>9. \A m, n \in 1..Len(rows') : m # n => kept[m] # kept[n]
  <2> SUFFICES ASSUME NEW m \in 1..Len(rows'), NEW n \in 1..Len(rows'), m # n
               PROVE  kept[m] # kept[n]
    OBVIOUS
  <2>1. m < n \/ n < m
    BY <1>3, <1>8
  <2>2. m \in DOMAIN kept /\ n \in DOMAIN kept
    BY <1>5, <1>8
  <2>3. kept[m] \in Nat /\ kept[n] \in Nat
    BY <1>1, <1>5, <2>2
  <2>4. kept[m] < kept[n] \/ kept[n] < kept[m]
    BY <1>4, <2>1, <2>2
  <2> QED
    BY <2>3, <2>4
<1>10. \A n \in 1..Len(rows') : rows'[n].what = rows[kept[n]].what
  BY <1>4, <1>5, <1>6, <1>8
<1>11. kept \in [1..Len(rows') -> DOMAIN rows]
  BY <1>4, <1>5, <1>8
<1> QED
  BY <1>8, <1>9, <1>10, <1>11

LEMMA TickType ==
    ASSUME TypeOK, AtPart, Tick
    PROVE  TypeOK' /\ AtPart'
<1>1. rows' \in Seq(Row)
  BY TickRows
<1>2. dropped' \subseteq Target
  <2>1. \A j \in DOMAIN rows : rows[j].what.kind = "Set" => TargetOf(rows[j].what) \in Target
    BY RowsType, Requests
  <2> QED
    BY <2>1 DEF Tick, TypeOK
<1>3. op' \in [Command -> Handler] /\ AtPart'
  <2> SUFFICES ASSUME NEW c \in Command
               PROVE  /\ op'[c] \in Handler
                      /\ op'[c].pc = op[c].pc /\ op'[c].n = op[c].n
    BY DEF Tick, AtPart
  <2>1. op[c] \in Handler
    BY DEF TypeOK
  <2>2. op'[c] = IF op[c].pc = "send" /\ op[c].waited < Timeout
                 THEN [op[c] EXCEPT !.waited = @ + 1]
                 ELSE op[c]
    BY DEF Tick
  <2>3. CASE op[c].pc = "send" /\ op[c].waited < Timeout
    <3>1. op'[c] = [op[c] EXCEPT !.waited = @ + 1]
      BY <2>2, <2>3
    <3>2. Timeout \in Nat /\ op[c].waited \in 0..Timeout
      BY <2>1, ConstantsAssumption DEF Handler
    <3>3. op[c].waited + 1 \in 0..Timeout
      BY <2>3, <3>2
    <3> QED
      BY <2>1, <3>1, <3>3 DEF Handler
  <2>4. CASE ~(op[c].pc = "send" /\ op[c].waited < Timeout)
    BY <2>1, <2>2, <2>4
  <2> QED
    BY <2>3, <2>4
<1> QED
  BY <1>1, <1>2, <1>3 DEF Tick, TypeOK, cpe

LEMMA CrashType ==
    ASSUME TypeOK, AtPart, Crash
    PROVE  TypeOK' /\ AtPart'
<1>1. faults' \in 0..MaxFault
  <2>1. faults < MaxFault /\ faults' = faults + 1 /\ faults \in 0..MaxFault /\ MaxFault \in Nat
    BY ConstantsAssumption DEF Crash, Fault, TypeOK
  <2> QED
    BY <2>1
<1>2. op' \in [Command -> Handler] /\ AtPart'
  <2> SUFFICES ASSUME NEW c \in Command
               PROVE  /\ op'[c] \in Handler
                      /\ op'[c] = op[c] \/ op'[c].pc = "failed"
    BY DEF Crash, AtPart
  <2>1. op[c] \in Handler
    BY DEF TypeOK
  <2>2. op'[c] = IF op[c].pc \in {"send", "insert"}
                 THEN [op[c] EXCEPT !.pc = "failed", !.waited = 0]
                 ELSE op[c]
    BY DEF Crash
  <2>3. 0 \in 0..Timeout
    BY ConstantsAssumption
  <2>4. CASE op[c].pc \in {"send", "insert"}
    <3>1. op'[c] = [op[c] EXCEPT !.pc = "failed", !.waited = 0]
      BY <2>2, <2>4
    <3> QED
      BY <2>1, <2>3, <3>1 DEF Handler
  <2>5. CASE op[c].pc \notin {"send", "insert"}
    BY <2>1, <2>2, <2>5
  <2> QED
    BY <2>4, <2>5
<1>3. LaneOK'
  <2>1. lane' = [hp \in BOOLEAN |-> <<>>]
    BY DEF Crash
  <2>2. \A hp \in BOOLEAN : lane'[hp] = <<>>
    BY <2>1, Zenon
  <2>3. Len(<<>>) = 0 /\ \A S : <<>> \in Seq(S)
    OBVIOUS
  <2>4. \A hp \in BOOLEAN : 0 <= Room[hp]
    BY ConstantsAssumption
  <2>5. lane' \in [BOOLEAN -> Seq(Request)]
    BY <2>1, <2>3, Zenon
  <2> QED
    BY <2>2, <2>3, <2>4, <2>5, Zenon DEF LaneOK
<1>4. session' \in Session
  BY SessionTypes DEF Crash, TypeOK
<1> QED
  BY <1>1, <1>2, <1>3, <1>4 DEF Crash, TypeOK, LaneOK, cpe, observers

LEMMA NextType ==
    ASSUME TypeOK, AtPart, [Next]_vars
    PROVE  TypeOK' /\ AtPart'
<1>1. CASE UNCHANGED vars
  BY <1>1 DEF vars, TypeOK, AtPart
<1> QED
  BY <1>1, CommandStepType, AcsStepType, CpeStepType, TickType, CrashType DEF Next

\* The variables keep their types: no lane outgrows its channel, whatever is sent, asked,
\* lost or restarted, and the urgent lane holds commands only, the normal one fetches.
THEOREM TypeCorrect == Spec => []TypeOK
<1>1. Init => TypeOK /\ AtPart
  BY InitType
<1>2. TypeOK /\ AtPart /\ [Next]_vars => TypeOK' /\ AtPart'
  BY NextType
<1> QED
  BY <1>1, <1>2, PTL DEF Spec

-----------------------------------------------------------------------------
(* A part of a command is in at most two places from which the CPE can      *)
(* still get it, one on the way through the lane and one through the rows;  *)
(* what it has got is taken from them.                                      *)

Has(q, m) == \E i \in DOMAIN q : q[i] = m
Once(q, m) == \A i, j \in DOMAIN q : q[i] = m /\ q[j] = m => i = j

InRows(m) == \E i \in DOMAIN rows : rows[i].what = m
OnceInRows(m) == \A i, j \in DOMAIN rows : rows[i].what = m /\ rows[j].what = m => i = j
InLane(m) == Has(lane[TRUE], m)
InHand(m) == session.pc = "executing" /\ session.what = m

\* The command has yet to put the part in the lane, ...
ToSend(m) ==
    \E n \in DOMAIN Parts[m.cmd] :
        /\ Parts[m.cmd][n] = m.part
        /\ \/ op[m.cmd].pc = "idle"
           \/ op[m.cmd].pc = "send" /\ op[m.cmd].n <= n
           \/ op[m.cmd].pc = "insert" /\ op[m.cmd].n < n

\* ... or in a row.
ToRow(m) ==
    \E n \in DOMAIN Parts[m.cmd] :
        /\ Parts[m.cmd][n] = m.part
        /\ \/ op[m.cmd].pc = "idle"
           \/ op[m.cmd].pc \in {"send", "insert"} /\ op[m.cmd].n <= n

Count(m) ==
    got[TargetOf(m)] + (IF InHand(m) THEN 1 ELSE 0)
        + (IF ToSend(m) THEN 1 ELSE 0) + (IF InLane(m) THEN 1 ELSE 0)
        + (IF ToRow(m) THEN 1 ELSE 0) + (IF InRows(m) THEN 1 ELSE 0)

Apart(m) ==
    /\ Once(lane[TRUE], m) /\ (InLane(m) => ~ToSend(m))
    /\ OnceInRows(m) /\ (InRows(m) => ~ToRow(m))

Counted(m) == Apart(m) /\ Count(m) <= 2

LEMMA HasAppended ==
    ASSUME NEW S, NEW q \in Seq(S), NEW x \in S, NEW m
    PROVE  /\ Has(Append(q, x), m) <=> Has(q, m) \/ x = m
           /\ Once(q, m) /\ (x = m => ~Has(q, m)) => Once(Append(q, x), m)
<1>1. /\ Len(q) \in Nat /\ DOMAIN q = 1..Len(q)
      /\ DOMAIN Append(q, x) = 1..Len(q) + 1
      /\ \A i \in 1..Len(q) : Append(q, x)[i] = q[i]
      /\ Append(q, x)[Len(q) + 1] = x
  OBVIOUS
<1>2. \A i \in DOMAIN Append(q, x) : i \in DOMAIN q \/ i = Len(q) + 1
  BY <1>1
<1>3. Len(q) + 1 \in DOMAIN Append(q, x) /\ DOMAIN q \subseteq DOMAIN Append(q, x)
  BY <1>1
<1> QED
  BY <1>1, <1>2, <1>3, Zenon DEF Has, Once

LEMMA HasTail ==
    ASSUME NEW S, NEW q \in Seq(S), q # <<>>, NEW m
    PROVE  /\ Has(Tail(q), m) => Has(q, m)
           /\ Has(q, Head(q))
           /\ Once(q, m) => Once(Tail(q), m) /\ (Head(q) = m => ~Has(Tail(q), m))
<1>1. /\ Len(q) \in Nat \ {0} /\ DOMAIN q = 1..Len(q)
      /\ DOMAIN Tail(q) = 1..Len(q) - 1
      /\ \A i \in DOMAIN Tail(q) : Tail(q)[i] = q[i + 1]
      /\ Head(q) = q[1]
  BY HeadTailProperties
<1>2. \A i \in DOMAIN Tail(q) : i \in Nat /\ i + 1 \in DOMAIN q /\ i + 1 # 1
  BY <1>1
<1>3. 1 \in DOMAIN q
  BY <1>1
<1>4. \A i, j \in DOMAIN Tail(q) : i + 1 = j + 1 => i = j
  BY <1>2
<1> HIDE DEF Has, Once
<1>5. Has(Tail(q), m) => Has(q, m)
  BY <1>1, <1>2, Zenon DEF Has
<1>6. Has(q, Head(q))
  BY <1>1, <1>3, Zenon DEF Has
<1>7. Once(q, m) => Once(Tail(q), m)
  BY <1>1, <1>2, <1>4, Zenon DEF Once
<1>8. Once(q, m) /\ Head(q) = m => ~Has(Tail(q), m)
  BY <1>1, <1>2, <1>3, Zenon DEF Once, Has
<1> QED
  BY <1>5, <1>6, <1>7, <1>8

LEMMA RowAppended ==
    ASSUME TypeOK, NEW r \in Row, rows' = Append(rows, r), NEW m
    PROVE  /\ InRows(m)' <=> InRows(m) \/ r.what = m
           /\ OnceInRows(m) /\ (r.what = m => ~InRows(m)) => OnceInRows(m)'
<1>1. rows \in Seq(Row)
  BY DEF TypeOK
<1>2. /\ Len(rows) \in Nat /\ DOMAIN rows = 1..Len(rows)
      /\ DOMAIN rows' = 1..Len(rows) + 1
      /\ \A i \in 1..Len(rows) : rows'[i] = rows[i]
      /\ rows'[Len(rows) + 1] = r
  BY <1>1
<1>3. \A i \in DOMAIN rows' : i \in DOMAIN rows \/ i = Len(rows) + 1
  BY <1>2
<1>4. Len(rows) + 1 \in DOMAIN rows' /\ DOMAIN rows \subseteq DOMAIN rows'
  BY <1>2
<1> QED
  BY <1>2, <1>3, <1>4, Zenon DEF InRows, OnceInRows

\* Rows that are some of the rows before, each once.
LEMMA RowsKept ==
    ASSUME NEW kept \in [DOMAIN rows' -> DOMAIN rows], NEW m,
           \A i, j \in DOMAIN rows' : i # j => kept[i] # kept[j],
           \A i \in DOMAIN rows' : rows'[i].what = rows[kept[i]].what
    PROVE  /\ InRows(m)' => InRows(m)
           /\ OnceInRows(m) => OnceInRows(m)'
<1>1. \A i \in DOMAIN rows' : kept[i] \in DOMAIN rows
  OBVIOUS
<1>2. InRows(m)' => InRows(m)
  BY <1>1 DEF InRows
<1>3. ASSUME OnceInRows(m), NEW i \in DOMAIN rows', NEW j \in DOMAIN rows',
             rows'[i].what = m, rows'[j].what = m
      PROVE  i = j
  <2>1. rows[kept[i]].what = m /\ rows[kept[j]].what = m
    BY <1>3
  <2>2. kept[i] = kept[j]
    BY <1>1, <1>3, <2>1 DEF OnceInRows
  <2> QED
    BY <2>2
<1> QED
  BY <1>2, <1>3 DEF OnceInRows

LEMMA RowTaken ==
    ASSUME TypeOK, NEW k \in DOMAIN rows, rows' = Without(k), NEW m
    PROVE  /\ InRows(m)' => InRows(m)
           /\ InRows(rows[k].what)
           /\ OnceInRows(m) => OnceInRows(m)' /\ (rows[k].what = m => ~InRows(m)')
<1> DEFINE kept == [i \in DOMAIN rows' |-> IF i < k THEN i ELSE i + 1]
<1>1. Len(rows) \in Nat /\ DOMAIN rows = 1..Len(rows)
  BY RowsType
<1>2. /\ rows' \in Seq(Row) /\ Len(rows') = Len(rows) - 1
      /\ \A i \in 1..Len(rows) - 1 : rows'[i] = IF i < k THEN rows[i] ELSE rows[i + 1]
  BY WithoutType
<1>3. DOMAIN rows' = 1..Len(rows) - 1
  BY <1>2
<1>4. \A i \in DOMAIN rows' : kept[i] \in DOMAIN rows /\ kept[i] # k
  BY <1>1, <1>3
<1>5. \A i, j \in DOMAIN rows' : i # j => kept[i] # kept[j]
  BY <1>1, <1>3
<1>6. \A i \in DOMAIN rows' : rows'[i].what = rows[kept[i]].what
  BY <1>2, <1>3
<1>7. kept \in [DOMAIN rows' -> DOMAIN rows]
  BY <1>4
<1> HIDE DEF kept
<1>8. OnceInRows(m) /\ rows[k].what = m => ~InRows(m)'
  BY <1>4, <1>6, Zenon DEF OnceInRows, InRows
<1>9. InRows(rows[k].what)
  BY DEF InRows
<1> QED
  BY <1>5, <1>6, <1>7, <1>8, <1>9, RowsKept

\* When nothing is new in any place, and nothing was received, the count stands.
LEMMA NothingNew ==
    ASSUME TypeOK, NEW m \in Setting, Counted(m),
           got'[TargetOf(m)] = got[TargetOf(m)],
           InHand(m)' => InHand(m),
           ToSend(m)' => ToSend(m), ToRow(m)' => ToRow(m),
           InLane(m)' => InLane(m), Once(lane[TRUE], m)',
           InRows(m)' => InRows(m), OnceInRows(m)'
    PROVE  Counted(m)'
<1>1. TargetOf(m) \in Target /\ got[TargetOf(m)] \in Nat
  BY Requests DEF TypeOK
<1>2. TargetOf(m)' = TargetOf(m)
  BY DEF TargetOf
<1>3. Count(m)' <= Count(m) /\ Count(m) \in Int /\ Count(m)' \in Int
  <2> HIDE DEF InHand, ToSend, ToRow, InLane, InRows, TargetOf
  <2> QED
    BY <1>1, <1>2 DEF Count
<1> QED
  BY <1>3 DEF Counted, Apart

\* Handlers stop, or stay at their part.
LEMMA NoProgress ==
    ASSUME NEW m \in Setting,
           op'[m.cmd].pc \in {"done", "failed"}
               \/ (op'[m.cmd].pc = op[m.cmd].pc /\ op'[m.cmd].n = op[m.cmd].n)
    PROVE  (ToSend(m)' => ToSend(m)) /\ (ToRow(m)' => ToRow(m))
BY DEF ToSend, ToRow

LEMMA OpUnchanged ==
    ASSUME UNCHANGED op, NEW m
    PROVE  (ToSend(m)' <=> ToSend(m)) /\ (ToRow(m)' <=> ToRow(m))
BY DEF ToSend, ToRow

LEMMA LaneUnchanged ==
    ASSUME UNCHANGED lane, NEW m
    PROVE  (InLane(m)' <=> InLane(m)) /\ (Once(lane[TRUE], m)' <=> Once(lane[TRUE], m))
BY DEF InLane, Has, Once

LEMMA RowsUnchanged ==
    ASSUME UNCHANGED rows, NEW m
    PROVE  (InRows(m)' <=> InRows(m)) /\ (OnceInRows(m)' <=> OnceInRows(m))
BY DEF InRows, OnceInRows

LEMMA SessionUnchanged ==
    ASSUME UNCHANGED session, NEW m
    PROVE  InHand(m)' <=> InHand(m)
BY DEF InHand

\* The part a handler is at.
LEMMA AtCurrent ==
    ASSUME TypeOK, AtPart, NEW c \in Command, op[c].pc \in {"send", "insert"}, NEW m \in Setting
    PROVE  /\ Set(c, Current(c)) \in Setting
           /\ op[c].n \in Nat /\ op[c].n \in DOMAIN Parts[c] /\ DOMAIN Parts[c] \subseteq Nat
           /\ m = Set(c, Current(c)) <=> m.cmd = c /\ m.part = Parts[c][op[c].n]
           /\ \A n \in DOMAIN Parts[c] : Parts[c][n] = Parts[c][op[c].n] => n = op[c].n
<1>1. op[c].n \in DOMAIN Parts[c]
  BY DEF AtPart
<1>2. Current(c) \in Part /\ DOMAIN Parts[c] \subseteq Nat
  BY <1>1, PartTypes DEF Current
<1>3. Set(c, Current(c)) \in Setting
  BY <1>2, Requests
<1>4. m = Set(c, Current(c)) <=> m.cmd = c /\ m.part = Parts[c][op[c].n]
  BY <1>3 DEF Setting, Set, Current
<1> QED
  BY <1>1, <1>2, <1>3, <1>4, ConstantsAssumption

LEMMA BeginCounted ==
    ASSUME TypeOK, AtPart, NEW c \in Command, Begin(c), NEW m \in Setting, Counted(m)
    PROVE  Counted(m)'
<1>1. /\ op' = [op EXCEPT ![c] = [op[c] EXCEPT !.pc = "send"]] /\ op[c] \in Handler
      /\ op[c].pc = "idle"
  BY DEF Begin, TypeOK
<1>2. op'[m.cmd] = op[m.cmd] \/ (m.cmd = c /\ op'[c].pc = "send")
  BY <1>1, Requests DEF TypeOK, Handler
<1>3. (ToSend(m)' => ToSend(m)) /\ (ToRow(m)' => ToRow(m))
  BY <1>1, <1>2 DEF ToSend, ToRow
<1>4. UNCHANGED <<got, lane, rows, session>>
  BY DEF Begin
<1> QED
  BY <1>3, <1>4, NothingNew, LaneUnchanged, RowsUnchanged, SessionUnchanged DEF Counted, Apart

\* From send to insert: the current part is not to be sent any more.
LEMMA ToInsertCount ==
    ASSUME TypeOK, AtPart, NEW c \in Command, op[c].pc = "send", ToInsert(c), NEW m \in Setting
    PROVE  /\ ToSend(m)' => ToSend(m)
           /\ ToRow(m)' => ToRow(m)
           /\ m = Set(c, Current(c)) => ToSend(m) /\ ~ToSend(m)'
<1>1. /\ op' = [op EXCEPT ![c] = [pc |-> "insert", n |-> op[c].n, waited |-> 0]]
      /\ op \in [Command -> Handler]
  BY ToInsertMoves DEF TypeOK
<1>2. op'[c].pc = "insert" /\ op'[c].n = op[c].n /\ m.cmd \in Command
      /\ (m.cmd # c => op'[m.cmd] = op[m.cmd])
  BY <1>1, Requests
<1>3. /\ op[c].n \in Nat /\ op[c].n \in DOMAIN Parts[c] /\ DOMAIN Parts[c] \subseteq Nat
      /\ m = Set(c, Current(c)) <=> m.cmd = c /\ m.part = Parts[c][op[c].n]
      /\ \A n \in DOMAIN Parts[c] : Parts[c][n] = Parts[c][op[c].n] => n = op[c].n
  BY AtCurrent
<1>4. CASE m.cmd # c
  BY <1>2, <1>3, <1>4 DEF ToSend, ToRow
<1>5. CASE m.cmd = c
  <2>1. ToSend(m)' <=> \E n \in DOMAIN Parts[c] : Parts[c][n] = m.part /\ op[c].n < n
    BY <1>2, <1>5 DEF ToSend
  <2>2. ToSend(m) <=> \E n \in DOMAIN Parts[c] : Parts[c][n] = m.part /\ op[c].n <= n
    BY <1>5 DEF ToSend
  <2>3. ToRow(m)' => ToRow(m)
    BY <1>2, <1>5 DEF ToRow
  <2>4. \A n \in DOMAIN Parts[c] : op[c].n < n => op[c].n <= n /\ n # op[c].n
    BY <1>3
  <2>5. op[c].n <= op[c].n
    BY <1>3
  <2> QED
    BY <1>3, <1>5, <2>1, <2>2, <2>3, <2>4, <2>5
<1> QED
  BY <1>4, <1>5

LEMMA SendPartCounted ==
    ASSUME TypeOK, AtPart, NEW c \in Command, SendPart(c), NEW m \in Setting, Counted(m)
    PROVE  Counted(m)'
<1> DEFINE x == Set(c, Current(c))
<1>1. /\ ToSend(m)' => ToSend(m)
      /\ ToRow(m)' => ToRow(m)
      /\ m = x => ToSend(m) /\ ~ToSend(m)'
  BY ToInsertCount DEF SendPart
<1>2. x \in Request
  BY AtCurrent, Requests DEF SendPart
<1>3. lane[TRUE] \in Seq(Request) /\ lane' = [lane EXCEPT ![TRUE] = Append(@, x)]
      /\ lane \in [BOOLEAN -> Seq(Request)]
  BY LaneTypes, Zenon DEF SendPart, TypeOK
<1>4. lane'[TRUE] = Append(lane[TRUE], x)
  BY <1>3, Zenon
<1>5. /\ InLane(m)' <=> InLane(m) \/ x = m
      /\ Once(lane[TRUE], m) /\ (x = m => ~InLane(m)) => Once(lane[TRUE], m)'
  <2> HIDE DEF x
  <2>1. /\ Has(Append(lane[TRUE], x), m) <=> Has(lane[TRUE], m) \/ x = m
        /\ Once(lane[TRUE], m) /\ (x = m => ~Has(lane[TRUE], m))
               => Once(Append(lane[TRUE], x), m)
    BY <1>2, <1>3, HasAppended, Zenon
  <2>2. Has(lane[TRUE], m)' <=> Has(Append(lane[TRUE], x), m)
    BY <1>4, Zenon DEF Has
  <2>3. Once(lane[TRUE], m)' <=> Once(Append(lane[TRUE], x), m)
    BY <1>4, Zenon DEF Once
  <2> QED
    BY <2>1, <2>2, <2>3, Zenon DEF InLane
<1>6. Once(lane[TRUE], m)'
  BY <1>1, <1>5 DEF Counted, Apart
<1>7. UNCHANGED <<got, rows, session>>
  BY DEF SendPart, observers
<1>8. CASE m # x
  <2>1. InLane(m)' => InLane(m)
    BY <1>5, <1>8
  <2>2. (InRows(m)' => InRows(m)) /\ OnceInRows(m)' /\ (InHand(m)' => InHand(m))
    BY <1>7, RowsUnchanged, SessionUnchanged DEF Counted, Apart
  <2> QED
    BY <1>1, <1>6, <1>7, <2>1, <2>2, NothingNew
<1>9. CASE m = x
  <2>1. /\ InRows(m)' <=> InRows(m)
        /\ OnceInRows(m)'
        /\ InHand(m)' <=> InHand(m)
    BY <1>7, RowsUnchanged, SessionUnchanged DEF Counted, Apart
  <2>2. got[TargetOf(m)] \in Nat /\ got'[TargetOf(m)'] = got[TargetOf(m)]
    BY <1>7, Requests DEF TypeOK, TargetOf
  <2>3. ~InLane(m) /\ InLane(m)' /\ ToSend(m) /\ ~ToSend(m)'
    BY <1>1, <1>5, <1>9 DEF Counted, Apart
  <2>4. Count(m)' <= Count(m) /\ Count(m) \in Int /\ Count(m)' \in Int
    <3> HIDE DEF InHand, ToSend, ToRow, InLane, InRows, TargetOf
    <3> QED
      BY <1>1, <2>1, <2>2, <2>3 DEF Count
  <2>5. Apart(m)'
    BY <1>1, <1>6, <2>1, <2>3 DEF Counted, Apart
  <2> QED
    BY <2>4, <2>5 DEF Counted
<1> QED
  BY <1>8, <1>9

\* From insert to the next part or the end: the current part is not to be inserted any more.
LEMMA AfterInsertCount ==
    ASSUME TypeOK, AtPart, NEW c \in Command, InsertPart(c), NEW m \in Setting
    PROVE  /\ ToSend(m)' => ToSend(m)
           /\ ToRow(m)' => ToRow(m)
           /\ m = Set(c, Current(c)) => ToRow(m) /\ ~ToRow(m)'
<1>1. /\ op[c].pc = "insert" /\ op[c] \in Handler /\ op \in [Command -> Handler]
      /\ op' = [op EXCEPT ![c] = IF op[c].n = Len(Parts[c])
                                 THEN [op[c] EXCEPT !.pc = "done"]
                                 ELSE [pc |-> "send", n |-> op[c].n + 1, waited |-> 0]]
  BY DEF InsertPart, TypeOK
<1>2. /\ \/ op'[c].pc = "done"
         \/ op'[c].pc = "send" /\ op'[c].n = op[c].n + 1
      /\ m.cmd \in Command
      /\ (m.cmd # c => op'[m.cmd] = op[m.cmd])
  BY <1>1, Requests DEF Handler
<1>3. /\ op[c].n \in Nat /\ op[c].n \in DOMAIN Parts[c] /\ DOMAIN Parts[c] \subseteq Nat
      /\ m = Set(c, Current(c)) <=> m.cmd = c /\ m.part = Parts[c][op[c].n]
      /\ \A n \in DOMAIN Parts[c] : Parts[c][n] = Parts[c][op[c].n] => n = op[c].n
  BY <1>1, AtCurrent
<1>4. CASE m.cmd # c
  BY <1>2, <1>3, <1>4 DEF ToSend, ToRow
<1>5. CASE m.cmd = c
  <2>1. ToSend(m) <=> \E n \in DOMAIN Parts[c] : Parts[c][n] = m.part /\ op[c].n < n
    BY <1>1, <1>5 DEF ToSend
  <2>2. ToRow(m) <=> \E n \in DOMAIN Parts[c] : Parts[c][n] = m.part /\ op[c].n <= n
    BY <1>1, <1>5 DEF ToRow
  <2>3. ToSend(m)' => \E n \in DOMAIN Parts[c] : Parts[c][n] = m.part /\ op[c].n + 1 <= n
    BY <1>2, <1>5 DEF ToSend
  <2>4. ToRow(m)' => \E n \in DOMAIN Parts[c] : Parts[c][n] = m.part /\ op[c].n + 1 <= n
    BY <1>2, <1>5 DEF ToRow
  <2>5. \A n \in DOMAIN Parts[c] :
            op[c].n + 1 <= n => op[c].n < n /\ op[c].n <= n /\ n # op[c].n
    BY <1>3
  <2>6. op[c].n <= op[c].n
    BY <1>3
  <2> QED
    BY <1>3, <1>5, <2>1, <2>2, <2>3, <2>4, <2>5, <2>6
<1> QED
  BY <1>4, <1>5

LEMMA InsertPartCounted ==
    ASSUME TypeOK, AtPart, NEW c \in Command, InsertPart(c), NEW m \in Setting, Counted(m)
    PROVE  Counted(m)'
<1> DEFINE x == Set(c, Current(c))
           r == [what |-> x, age |-> -Offset(c)]
<1>1. /\ ToSend(m)' => ToSend(m)
      /\ ToRow(m)' => ToRow(m)
      /\ m = x => ToRow(m) /\ ~ToRow(m)'
  BY AfterInsertCount
<1>2. r \in Row
  <2>1. x \in Request
    BY AtCurrent, Requests DEF InsertPart
  <2>2. -Offset(c) \in Int
    BY AtCurrent DEF InsertPart, Offset
  <2> QED
    BY <2>1, <2>2 DEF Row
<1>3. rows' = Append(rows, r) /\ r.what = x
  BY DEF InsertPart
<1>4. UNCHANGED <<got, lane, session>>
  BY DEF InsertPart
<1> HIDE DEF r, x
<1>5. /\ InRows(m)' <=> InRows(m) \/ x = m
      /\ OnceInRows(m) /\ (x = m => ~InRows(m)) => OnceInRows(m)'
  BY <1>2, <1>3, RowAppended
<1>6. OnceInRows(m)'
  BY <1>1, <1>5 DEF Counted, Apart
<1>7. /\ InLane(m)' <=> InLane(m)
      /\ Once(lane[TRUE], m)'
      /\ InHand(m)' <=> InHand(m)
  BY <1>4, LaneUnchanged, SessionUnchanged DEF Counted, Apart
<1>8. CASE m # x
  BY <1>1, <1>4, <1>5, <1>6, <1>7, <1>8, NothingNew
<1>9. CASE m = x
  <2>1. got[TargetOf(m)] \in Nat /\ got'[TargetOf(m)'] = got[TargetOf(m)]
    BY <1>4, Requests DEF TypeOK, TargetOf
  <2>2. ~InRows(m) /\ InRows(m)' /\ ToRow(m) /\ ~ToRow(m)'
    BY <1>1, <1>5, <1>9 DEF Counted, Apart
  <2>3. Count(m)' <= Count(m) /\ Count(m) \in Int /\ Count(m)' \in Int
    <3> HIDE DEF InHand, ToSend, ToRow, InLane, InRows, TargetOf
    <3> QED
      BY <1>1, <1>7, <2>1, <2>2 DEF Count
  <2>4. Apart(m)'
    BY <1>1, <1>6, <1>7, <2>2 DEF Counted, Apart
  <2> QED
    BY <2>3, <2>4 DEF Counted
<1> QED
  BY <1>8, <1>9

LEMMA CommandCounted ==
    ASSUME TypeOK, AtPart, NEW c \in Command, CommandStep(c), NEW m \in Setting, Counted(m)
    PROVE  Counted(m)'
<1>1. CASE GiveUpPart(c)
  <2>1. (ToSend(m)' => ToSend(m)) /\ (ToRow(m)' => ToRow(m))
    BY <1>1, ToInsertCount DEF GiveUpPart
  <2>2. UNCHANGED <<got, lane, rows, session>>
    BY <1>1 DEF GiveUpPart, observers
  <2> QED
    BY <2>1, <2>2, NothingNew, LaneUnchanged, RowsUnchanged, SessionUnchanged
       DEF Counted, Apart
<1>2. CASE FailPart(c)
  <2>1. op' = [op EXCEPT ![c] = [op[c] EXCEPT !.pc = "failed"]] /\ op[c] \in Handler
        /\ op \in [Command -> Handler] /\ m.cmd \in Command
    BY <1>2, Requests DEF FailPart, TypeOK
  <2>2. op'[m.cmd].pc = "failed" \/ op'[m.cmd] = op[m.cmd]
    BY <2>1 DEF Handler
  <2>3. (ToSend(m)' => ToSend(m)) /\ (ToRow(m)' => ToRow(m))
    BY <2>2, NoProgress
  <2>4. UNCHANGED <<got, lane, rows, session>>
    BY <1>2 DEF FailPart, observers
  <2> QED
    BY <2>3, <2>4, NothingNew, LaneUnchanged, RowsUnchanged, SessionUnchanged
       DEF Counted, Apart
<1> QED
  BY <1>1, <1>2, BeginCounted, SendPartCounted, InsertPartCounted DEF CommandStep

\* A reply takes what it delivers from its place.
LEMMA TaskCounted ==
    ASSUME TypeOK, AskTask, NEW m \in Setting, Counted(m)
    PROVE  Counted(m)'
<1>1. PICK i \in DOMAIN rows : Deliver(rows[i].what) /\ rows' = Without(i)
  BY DEF AskTask
<1>2. /\ InRows(m)' => InRows(m)
      /\ OnceInRows(m)'
      /\ rows[i].what = m => InRows(m) /\ ~InRows(m)'
  BY <1>1, RowTaken DEF Counted, Apart
<1>3. ~InHand(m) /\ (InHand(m)' <=> rows[i].what = m)
  BY <1>1 DEF AskTask, Deliver, Executing, State, InHand
<1>4. UNCHANGED <<got, lane, op>>
  BY DEF AskTask, observers
<1>5. /\ ToSend(m)' <=> ToSend(m)
      /\ ToRow(m)' <=> ToRow(m)
      /\ InLane(m)' <=> InLane(m)
      /\ Once(lane[TRUE], m)'
  BY <1>4, OpUnchanged, LaneUnchanged DEF Counted, Apart
<1>6. got[TargetOf(m)] \in Nat /\ got'[TargetOf(m)'] = got[TargetOf(m)]
  BY <1>4, Requests DEF TypeOK, TargetOf
<1>7. Count(m)' <= Count(m) /\ Count(m) \in Int /\ Count(m)' \in Int
  <2> HIDE DEF InHand, ToSend, ToRow, InLane, InRows, TargetOf
  <2> QED
    BY <1>2, <1>3, <1>5, <1>6 DEF Count
<1>8. Apart(m)'
  BY <1>2, <1>5 DEF Counted, Apart
<1> QED
  BY <1>7, <1>8 DEF Counted

LEMMA UrgentCounted ==
    ASSUME TypeOK, AskLane(TRUE), NEW m \in Setting, Counted(m)
    PROVE  Counted(m)'
<1> DEFINE q == lane[TRUE]
<1>1. q \in Seq(Request) /\ lane \in [BOOLEAN -> Seq(Request)]
  BY LaneTypes, Zenon DEF TypeOK
<1>2. q # <<>> /\ Deliver(Head(q)) /\ lane' = [lane EXCEPT ![TRUE] = Tail(q)]
  BY Zenon DEF AskLane, Rest
<1>3. lane'[TRUE] = Tail(q)
  BY <1>1, <1>2, Zenon
<1>4. /\ Has(Tail(q), m) => Has(q, m)
      /\ Has(q, Head(q))
      /\ Once(q, m) => Once(Tail(q), m) /\ (Head(q) = m => ~Has(Tail(q), m))
  <2> HIDE DEF q
  <2> QED
    BY <1>1, <1>2, HasTail, Zenon
<1>5. /\ InLane(m) <=> Has(q, m)
      /\ InLane(m)' <=> Has(Tail(q), m)
      /\ Once(lane[TRUE], m)' <=> Once(Tail(q), m)
  BY <1>3, Zenon DEF InLane, Has, Once
<1>6. /\ InLane(m)' => InLane(m)
      /\ Once(lane[TRUE], m)'
      /\ Head(q) = m => InLane(m) /\ ~InLane(m)'
  BY <1>4, <1>5, Zenon DEF Counted, Apart
<1>7. ~InHand(m) /\ (InHand(m)' <=> Head(q) = m)
  <2>1. session.pc = "asking"
    BY DEF AskLane
  <2> HIDE DEF q
  <2> QED
    BY <1>2, <2>1 DEF Deliver, Executing, State, InHand
<1>8. UNCHANGED <<got, rows, op>>
  BY DEF AskLane, observers
<1>9. /\ ToSend(m)' <=> ToSend(m)
      /\ ToRow(m)' <=> ToRow(m)
      /\ InRows(m)' <=> InRows(m)
      /\ OnceInRows(m)'
  BY <1>8, OpUnchanged, RowsUnchanged DEF Counted, Apart
<1>10. got[TargetOf(m)] \in Nat /\ got'[TargetOf(m)'] = got[TargetOf(m)]
  BY <1>8, Requests DEF TypeOK, TargetOf
<1>11. Count(m)' <= Count(m) /\ Count(m) \in Int /\ Count(m)' \in Int
  <2> HIDE DEF q, InHand, ToSend, ToRow, InLane, InRows, TargetOf
  <2> QED
    BY <1>6, <1>7, <1>9, <1>10 DEF Count
<1>12. Apart(m)'
  BY <1>6, <1>9 DEF Counted, Apart
<1> QED
  BY <1>11, <1>12 DEF Counted

\* The normal lane holds no commands.
LEMMA NormalLane ==
    ASSUME NEW m, lane \in [BOOLEAN -> Seq(Request)], NEW q \in Seq(Request),
           lane' = [lane EXCEPT ![FALSE] = q]
    PROVE  /\ InLane(m)' <=> InLane(m)
           /\ Once(lane[TRUE], m)' <=> Once(lane[TRUE], m)
<1>1. lane'[TRUE] = lane[TRUE]
  BY Zenon
<1> QED
  BY <1>1, Zenon DEF InLane, Has, Once

LEMMA AcsCounted ==
    ASSUME TypeOK, AtPart, AcsStep, NEW m \in Setting, Counted(m)
    PROVE  Counted(m)'
<1> USE DEF Counted, Apart
<1>1. CASE InsertDownload
  <2>1. [what |-> Download, age |-> 0] \in Row /\ Download # m
    BY Requests DEF Row, Download
  <2>2. rows' = Append(rows, [what |-> Download, age |-> 0])
    BY <1>1 DEF InsertDownload
  <2>3. (InRows(m)' => InRows(m)) /\ OnceInRows(m)'
    <3>1. [what |-> Download, age |-> 0].what # m
      BY <2>1
    <3> QED
      BY <2>1, <2>2, <3>1, RowAppended
  <2>4. UNCHANGED <<got, lane, op, session>>
    BY <1>1 DEF InsertDownload, observers
  <2> QED
    BY <2>3, <2>4, NothingNew, LaneUnchanged, OpUnchanged, SessionUnchanged
<1>2. CASE Fetch
  <2>1. (InLane(m)' => InLane(m)) /\ Once(lane[TRUE], m)'
    <3>1. CASE HasRoom(FALSE)
      <4>1. lane[FALSE] \in Seq(Request) /\ Get \in Request
            /\ lane \in [BOOLEAN -> Seq(Request)]
        BY Requests, LaneTypes, Zenon DEF TypeOK
      <4>2. lane' = [lane EXCEPT ![FALSE] = Append(lane[FALSE], Get)]
        BY <1>2, <3>1, Zenon DEF Fetch
      <4>3. Append(lane[FALSE], Get) \in Seq(Request)
        BY <4>1, AppendTo
      <4> QED
        BY <4>1, <4>2, <4>3, NormalLane
    <3>2. CASE ~HasRoom(FALSE)
      BY <1>2, <3>2, LaneUnchanged DEF Fetch
    <3> QED
      BY <3>1, <3>2
  <2>2. UNCHANGED <<got, rows, op, session>>
    BY <1>2 DEF Fetch, observers
  <2> QED
    BY <2>1, <2>2, NothingNew, RowsUnchanged, OpUnchanged, SessionUnchanged
<1>3. CASE AskLane(FALSE)
  <2> DEFINE q == lane[FALSE]
  <2>1. q \in Seq({Get}) /\ q \in Seq(Request) /\ lane \in [BOOLEAN -> Seq(Request)]
    BY LaneTypes, Zenon DEF TypeOK
  <2>2. q # <<>> /\ Deliver(Head(q)) /\ lane' = [lane EXCEPT ![FALSE] = Tail(q)]
    BY <1>3, Zenon DEF AskLane, Rest
  <2>3. UNCHANGED <<got, rows, op>>
    BY <1>3 DEF AskLane, observers
  <2> HIDE DEF q
  <2>4. Head(q) = Get /\ Tail(q) \in Seq(Request)
    BY <2>1, <2>2, TailOf
  <2>5. ~InHand(m)'
    <3>1. Get # m
      BY Requests DEF Get
    <3> QED
      BY <2>2, <2>4, <3>1 DEF Deliver, Executing, State, InHand
  <2>6. (InLane(m)' => InLane(m)) /\ Once(lane[TRUE], m)'
    BY <2>1, <2>2, <2>4, NormalLane
  <2> QED
    BY <2>3, <2>5, <2>6, NothingNew, RowsUnchanged, OpUnchanged
<1>4. CASE AskNext \/ NoContent
  <2>1. UNCHANGED <<got, lane, rows, op>>
    BY <1>4 DEF AskNext, NoContent, server, observers
  <2>2. ~InHand(m)'
    BY <1>4 DEF AskNext, NoContent, InHand, Asking, Closed, State
  <2> QED
    BY <2>1, <2>2, NothingNew, LaneUnchanged, RowsUnchanged, OpUnchanged
<1>5. AskLane(TRUE) => Counted(m)'
  BY UrgentCounted
<1>6. AskTask => Counted(m)'
  BY TaskCounted
<1>7. \A hp \in BOOLEAN : AskLane(hp) => AskLane(TRUE) \/ AskLane(FALSE)
  BY Zenon
<1> HIDE DEF Counted
<1> QED
  BY <1>1, <1>2, <1>3, <1>4, <1>5, <1>6, <1>7, Zenon DEF AcsStep

\* Nothing but the session moves.
LEMMA SessionEnds ==
    ASSUME TypeOK, NEW m \in Setting, Counted(m), UNCHANGED <<got, lane, rows, op>>,
           InHand(m)' => InHand(m)
    PROVE  Counted(m)'
BY NothingNew, LaneUnchanged, RowsUnchanged, OpUnchanged DEF Counted, Apart

\* The CPE has it: what was in hand is received, and no longer in hand.
LEMMA DoCounted ==
    ASSUME TypeOK, NEW m \in Setting, Counted(m), UNCHANGED <<lane, rows, op>>,
           session.pc = "executing", Do(session.what), session'.pc # "executing"
    PROVE  Counted(m)'
<1>1. ~InHand(m)' /\ (InHand(m) <=> session.what = m)
  BY DEF InHand
<1>2. /\ ToSend(m)' <=> ToSend(m)
      /\ ToRow(m)' <=> ToRow(m)
      /\ InLane(m)' <=> InLane(m)
      /\ InRows(m)' <=> InRows(m)
      /\ Apart(m)'
  BY LaneUnchanged, RowsUnchanged, OpUnchanged DEF Counted, Apart
<1>3. session.what \in Request /\ TargetOf(m) \in Target /\ got \in [Target -> Nat]
      /\ TargetOf(m)' = TargetOf(m)
  BY Requests DEF TypeOK, Session, TargetOf
<1>4. CASE session.what = m
  <2>1. got' = [got EXCEPT ![TargetOf(m)] = @ + 1]
    BY <1>4, Requests DEF Do
  <2>2. got'[TargetOf(m)'] = got[TargetOf(m)] + 1 /\ got[TargetOf(m)] \in Nat
    BY <1>3, <2>1
  <2>3. Count(m)' = Count(m)
    <3> HIDE DEF InHand, ToSend, ToRow, InLane, InRows, TargetOf
    <3> QED
      BY <1>1, <1>2, <1>4, <2>2 DEF Count
  <2> QED
    BY <1>2, <2>3 DEF Counted
<1>5. CASE session.what # m
  <2>1. got'[TargetOf(m)] = got[TargetOf(m)]
    <3>1. CASE session.what.kind = "Set"
      <4>1. session.what \in Setting
        BY <1>3, <3>1, Requests
      <4>2. TargetOf(session.what) # TargetOf(m)
        BY <1>5, <4>1, Requests DEF TargetOf, Set
      <4>3. got' = [got EXCEPT ![TargetOf(session.what)] = @ + 1]
        BY <3>1 DEF Do
      <4> QED
        BY <1>3, <4>2, <4>3
    <3>2. CASE session.what.kind # "Set"
      BY <3>2 DEF Do
    <3> QED
      BY <3>1, <3>2
  <2> QED
    BY <1>1, <1>2, <2>1, NothingNew DEF Apart
<1> QED
  BY <1>4, <1>5

LEMMA CpeCounted ==
    ASSUME TypeOK, CpeStep, NEW m \in Setting, Counted(m)
    PROVE  Counted(m)'
<1>1. ASSUME NEW periodic \in BOOLEAN, Inform(periodic)
      PROVE  Counted(m)'
  <2>1. UNCHANGED <<got, lane, rows, op>> /\ ~InHand(m)'
    BY <1>1 DEF Inform, observers, InHand, Informed, State
  <2> QED
    BY <2>1, SessionEnds
<1>2. CASE TransferComplete \/ EmptyPost
  <2>1. UNCHANGED <<got, lane, rows, op>> /\ ~InHand(m)'
    BY <1>2 DEF TransferComplete, EmptyPost, server, observers, InHand, Informed, Closed,
                Asking, State
  <2> QED
    BY <2>1, SessionEnds
<1>3. CASE Respond
  BY <1>3, DoCounted DEF Respond, server, Closed, Asking, State
<1>4. CASE LoseReply
  <2>1. UNCHANGED <<got, lane, rows, op>> /\ ~InHand(m)'
    BY <1>4 DEF LoseReply, server, InHand, Closed, State
  <2> QED
    BY <2>1, SessionEnds
<1>5. CASE LoseResponse
  BY <1>5, DoCounted DEF LoseResponse, server, Closed, State
<1> QED
  BY <1>1, <1>2, <1>3, <1>4, <1>5 DEF CpeStep

LEMMA TickCounted ==
    ASSUME TypeOK, Tick, NEW m \in Setting, Counted(m)
    PROVE  Counted(m)'
<1>1. (InRows(m)' => InRows(m)) /\ OnceInRows(m)'
  <2>1. PICK kept \in [1..Len(rows') -> DOMAIN rows] :
            /\ \A i, j \in 1..Len(rows') : i # j => kept[i] # kept[j]
            /\ \A i \in 1..Len(rows') : rows'[i].what = rows[kept[i]].what
    BY TickRows
  <2>2. DOMAIN rows' = 1..Len(rows')
    BY TickRows
  <2> QED
    BY <2>1, <2>2, RowsKept DEF Counted, Apart
<1>2. op'[m.cmd].pc = op[m.cmd].pc /\ op'[m.cmd].n = op[m.cmd].n
  <2>1. op' = [c \in Command |-> IF op[c].pc = "send" /\ op[c].waited < Timeout
                                 THEN [op[c] EXCEPT !.waited = @ + 1]
                                 ELSE op[c]]
    BY DEF Tick
  <2>2. m.cmd \in Command /\ op[m.cmd] \in Handler
    BY Requests DEF TypeOK
  <2> QED
    BY <2>1, <2>2 DEF Handler
<1>3. UNCHANGED <<got, lane, session>>
  BY DEF Tick
<1> QED
  BY <1>1, <1>2, <1>3, NoProgress, NothingNew, LaneUnchanged, SessionUnchanged
     DEF Counted, Apart

LEMMA CrashCounted ==
    ASSUME TypeOK, Crash, NEW m \in Setting, Counted(m)
    PROVE  Counted(m)'
<1>1. ~InLane(m)' /\ Once(lane[TRUE], m)'
  <2>1. lane'[TRUE] = <<>>
    <3>1. lane' = [hp \in BOOLEAN |-> <<>>]
      BY DEF Crash
    <3> QED
      BY <3>1, Zenon
  <2>2. DOMAIN <<>> = {}
    OBVIOUS
  <2>3. DOMAIN lane'[TRUE] = {}
    BY <2>1, <2>2, Zenon
  <2> QED
    BY <2>3, Zenon DEF InLane, Has, Once
<1>2. op'[m.cmd].pc = "failed" \/ op'[m.cmd] = op[m.cmd]
  <2>1. op' = [c \in Command |-> IF op[c].pc \in {"send", "insert"}
                                 THEN [op[c] EXCEPT !.pc = "failed", !.waited = 0]
                                 ELSE op[c]]
    BY DEF Crash
  <2>2. m.cmd \in Command /\ op[m.cmd] \in Handler
    BY Requests DEF TypeOK
  <2> QED
    BY <2>1, <2>2 DEF Handler
<1>3. InHand(m)' => InHand(m)
  BY DEF Crash, InHand, Closed, State
<1>4. UNCHANGED <<got, rows>>
  BY DEF Crash, observers
<1> QED
  BY <1>1, <1>2, <1>3, <1>4, NoProgress, NothingNew, RowsUnchanged DEF Counted, Apart

AllCounted == \A m \in Setting : Counted(m)

LEMMA InitCounted == Init => AllCounted
<1> SUFFICES ASSUME Init, NEW m \in Setting PROVE Counted(m)
  BY DEF AllCounted
<1>1. ~InRows(m) /\ OnceInRows(m)
  BY DEF Init, InRows, OnceInRows
<1>2. ~InLane(m) /\ Once(lane[TRUE], m)
  <2>1. lane[TRUE] = <<>>
    <3>1. lane = [hp \in BOOLEAN |-> <<>>]
      BY DEF Init
    <3> QED
      BY <3>1, Zenon
  <2>2. DOMAIN <<>> = {}
    OBVIOUS
  <2>3. DOMAIN lane[TRUE] = {}
    BY <2>1, <2>2, Zenon
  <2> QED
    BY <2>3, Zenon DEF InLane, Has, Once
<1>3. ~InHand(m) /\ got[TargetOf(m)] = 0
  BY Requests DEF Init, InHand, Closed, State
<1>4. Count(m) <= 2
  <2> HIDE DEF InHand, ToSend, ToRow, InLane, InRows, TargetOf
  <2> QED
    BY <1>1, <1>2, <1>3 DEF Count
<1> QED
  BY <1>1, <1>2, <1>4 DEF Counted, Apart

LEMMA NextCounted ==
    ASSUME TypeOK, AtPart, AllCounted, [Next]_vars
    PROVE  AllCounted'
<1> SUFFICES ASSUME NEW m \in Setting PROVE Counted(m)'
  BY DEF AllCounted
<1>1. Counted(m)
  BY DEF AllCounted
<1>2. CASE UNCHANGED vars
  <2>1. UNCHANGED <<got, lane, rows, op, session>>
    BY <1>2 DEF vars
  <2> QED
    BY <1>1, <2>1, SessionEnds, SessionUnchanged
<1> QED
  BY <1>1, <1>2, CommandCounted, AcsCounted, CpeCounted, TickCounted, CrashCounted DEF Next

LEMMA CountedAtMostTwice == TypeOK /\ AllCounted => AtMostTwice
<1> SUFFICES ASSUME TypeOK, AllCounted, NEW c \in Command, NEW p \in Part
             PROVE  got[<<c, p>>] <= 2
  BY DEF AtMostTwice, Target
<1>1. Set(c, p) \in Setting /\ TargetOf(Set(c, p)) = <<c, p>> /\ <<c, p>> \in Target
  BY Requests DEF TargetOf, Set, Target
<1>2. Count(Set(c, p)) <= 2 /\ got[<<c, p>>] \in Nat
  BY <1>1 DEF AllCounted, Counted, TypeOK
<1> HIDE DEF InHand, ToSend, ToRow, InLane, InRows
<1> QED
  BY <1>1, <1>2 DEF Count

\* Whatever is lost, refused, restarted or asked again, a CPE gets a part of a command at
\* most twice: by the urgent lane and by the row that cwmpSetWifiParams inserts as well.
THEOREM SentAtMostTwice == Spec => []AtMostTwice
<1>1. Init => TypeOK /\ AtPart /\ AllCounted
  BY InitType, InitCounted
<1>2. TypeOK /\ AtPart /\ AllCounted /\ [Next]_vars => TypeOK' /\ AtPart' /\ AllCounted'
  BY NextType, NextCounted
<1>3. TypeOK /\ AllCounted => AtMostTwice
  BY CountedAtMostTwice
<1> QED
  BY <1>1, <1>2, <1>3, PTL DEF Spec
=============================================================================
