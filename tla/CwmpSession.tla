------------------------------ MODULE CwmpSession ------------------------------
(***************************************************************************)
(* One CPE and everything that decides what it is asked to do next: the     *)
(* pending rows of cwmp_preset_task, the two lanes, and the dialogue of     *)
(* Tr069Index, which asks them in an order that depends on what the CPE     *)
(* has just sent.                                                          *)
(*                                                                         *)
(*   commands   /admin/supervise/wifi/set and wan/set: every part of a      *)
(*              command goes to the urgent lane and then, whether or not    *)
(*              there was room, into a row dated some seconds ahead;        *)
(*   the fetch  the goroutine that asks for parameters after an Inform;     *)
(*   the job    a preset for periodic Informs that makes the CPE download;  *)
(*   the CPE    (external) one session at a time; it executes what it gets, *)
(*              answers, and reports a finished download in a new session.  *)
(*                                                                         *)
(* PresetTask has the life of the rows and overlapping sessions, EventQueue *)
(* the lanes with several entries; here a dispatch is one step, a row that  *)
(* can no longer be selected is forgotten, and times are ages: how long a   *)
(* row or a sender has been there, in seconds.                             *)
(***************************************************************************)
EXTENDS Integers, Sequences, FiniteSets

CONSTANTS
    Command,     \* the operators' commands
    Part,        \* groups of parameters set together: SSID, channel, enable
    Parts,       \* [Command -> the parts it sets, in order]
    Nobody,      \* no command: requests of the ACS itself
    Periodic,    \* there is a download preset for periodic Informs
    Room,        \* [BOOLEAN -> Nat]: capacity of the urgent (TRUE) and normal lane
    Timeout,     \* seconds a command waits for room in the urgent lane
    Window,      \* age after which a row is not selected
    MaxFault     \* bound: connections lost, requests refused, INSERTs failed, restarts

ASSUME ConstantsAssumption ==
    /\ Parts \in [Command -> Seq(Part)]
    /\ \A c \in Command : \A m, n \in DOMAIN Parts[c] : Parts[c][m] = Parts[c][n] => m = n
    /\ Nobody \notin Command
    /\ Periodic \in BOOLEAN
    /\ Room \in [BOOLEAN -> Nat \ {0}]
    /\ {Timeout, Window, MaxFault} \subseteq Nat

VARIABLES
    rows,       \* the pending rows of the CPE, in order of insertion
    lane,       \* [BOOLEAN -> the messages in the channel, oldest first]
    op,         \* [Command -> the handler of the command]
    inform,     \* what processInformEvent still has to do: "job", then "fetch"
    session,    \* the session of the CPE
    known,      \* LastInform is there: false after a restart
    owed,       \* the CPE has a finished download to report
    device,     \* [Part -> the command whose values the CPE has]
    faults,     \* faults so far
    before,     \* observer: [Command -> the commands that were over when it began]
    got,        \* observer: [Command \X Part -> how often the CPE received it]
    cut,        \* observer: commands and parts whose request or answer failed
    stranded,   \* observer: those whose message, not their row, was waiting at that time
    dropped,    \* observer: commands and parts whose row got too old
    ahead       \* observer: <<c, d, p>>: the row of d was dated before that of c

server == <<rows, lane, op, inform>>
cpe == <<owed, device>>
observers == <<before, got, cut, stranded, dropped, ahead>>
vars == <<rows, lane, op, inform, session, known, owed, device, faults, before,
          got, cut, stranded, dropped, ahead>>

-----------------------------------------------------------------------------
Set(c, p) == [kind |-> "Set", cmd |-> c, part |-> p]
Get == [kind |-> "Get", cmd |-> Nobody, part |-> Nobody]
Download == [kind |-> "Download", cmd |-> Nobody, part |-> Nobody]

Setting == [kind: {"Set"}, cmd: Command, part: Part]
Request == Setting \cup {Get, Download}
Target == Command \X Part
TargetOf(r) == <<r.cmd, r.part>>

Row == [what: Request, age: Int]
Source == {"task", "urgent", "normal"}
Handler == [pc: {"idle", "send", "insert", "done", "failed"}, n: Nat \ {0}, waited: 0..Timeout]
Session == [pc: {"closed", "informed", "asking", "executing"}, left: Seq(Source), what: Request]

TypeOK ==
    /\ rows \in Seq(Row)
    /\ lane \in [BOOLEAN -> Seq(Request)]
    /\ lane[TRUE] \in Seq(Setting)
    /\ lane[FALSE] \in Seq({Get})
    /\ \A hp \in BOOLEAN : Len(lane[hp]) <= Room[hp]
    /\ op \in [Command -> Handler]
    /\ inform \subseteq {"job", "fetch"}
    /\ known \in BOOLEAN /\ owed \in BOOLEAN
    /\ session \in Session
    /\ device \in [Part -> Command \cup {Nobody}]
    /\ faults \in 0..MaxFault
    /\ before \in [Command -> SUBSET Command]
    /\ got \in [Target -> Nat]
    /\ cut \subseteq Target
    /\ stranded \subseteq Target
    /\ dropped \subseteq Target

State(pc, sources, r) == [pc |-> pc, left |-> sources, what |-> r]
Closed == State("closed", <<>>, Get)
Informed == State("informed", <<>>, Get)
Asking(sources) == State("asking", sources, Get)
Executing(r) == State("executing", <<>>, r)

Init ==
    /\ rows = <<>>
    /\ lane = [hp \in BOOLEAN |-> <<>>]
    /\ op = [c \in Command |-> [pc |-> "idle", n |-> 1, waited |-> 0]]
    /\ inform = {}
    /\ session = Closed
    /\ known = FALSE
    /\ owed = FALSE
    /\ device = [p \in Part |-> Nobody]
    /\ faults = 0
    /\ before = [c \in Command |-> {}]
    /\ got = [t \in Target |-> 0]
    /\ cut = {}
    /\ stranded = {}
    /\ dropped = {}
    /\ ahead = {}

Fault ==
    /\ faults < MaxFault
    /\ faults' = faults + 1

-----------------------------------------------------------------------------
(* Commands.                                                               *)

Over == {c \in Command : op[c].pc \in {"done", "failed"}}

\* cwmpSetWifiParams, cwmpSetWanParams begin.
Begin(c) ==
    /\ op[c].pc = "idle"
    /\ Parts[c] # <<>>
    /\ op' = [op EXCEPT ![c].pc = "send"]
    /\ before' = [before EXCEPT ![c] = Over]
    /\ UNCHANGED <<rows, lane, inform, session, known, cpe, faults, got, cut, stranded, dropped, ahead>>

Current(c) == Parts[c][op[c].n]

\* Mutant: one place too many.
HasRoom_OffByOne(hp) == Len(lane[hp]) <= Room[hp]

HasRoom(hp) == Len(lane[hp]) < Room[hp]

ToInsert(c) == op' = [op EXCEPT ![c] = [pc |-> "insert", n |-> @.n, waited |-> 0]]

\* SendCwmpEventData(..., 5000, true): the message is in the urgent lane, ...
SendPart(c) ==
    /\ op[c].pc = "send"
    /\ HasRoom(TRUE)
    /\ lane' = [lane EXCEPT ![TRUE] = Append(@, Set(c, Current(c)))]
    /\ ToInsert(c)
    /\ UNCHANGED <<rows, inform, session, known, cpe, faults, observers>>

\* ... or the lane stayed full and the error is only logged.
GiveUpPart(c) ==
    /\ op[c].pc = "send"
    /\ ~HasRoom(TRUE)
    /\ op[c].waited = Timeout
    /\ ToInsert(c)
    /\ UNCHANGED <<rows, lane, inform, session, known, cpe, faults, observers>>

\* taskCount: the seconds the row of the current part is dated ahead.
Offset(c) == op[c].n - 1

\* createWifiPresetTask: created_at = now + taskCount seconds.
InsertPart(c) ==
    /\ op[c].pc = "insert"
    /\ rows' = Append(rows, [what |-> Set(c, Current(c)), age |-> -Offset(c)])
    /\ ahead' = ahead \cup
            {<<rows[i].what.cmd, c, Current(c)>> : i \in
                {j \in DOMAIN rows : /\ rows[j].what.kind = "Set"
                                     /\ rows[j].what.part = Current(c)
                                     /\ rows[j].age < -Offset(c)}}
    /\ op' = [op EXCEPT ![c] = IF @.n = Len(Parts[c])
                               THEN [@ EXCEPT !.pc = "done"]
                               ELSE [pc |-> "send", n |-> @.n + 1, waited |-> 0]]
    /\ UNCHANGED <<lane, inform, session, known, cpe, faults, before, got, cut, stranded, dropped>>

\* The INSERT fails: the command returns the error, the parts after it are not sent.
FailPart(c) ==
    /\ op[c].pc = "insert"
    /\ Fault
    /\ op' = [op EXCEPT ![c].pc = "failed"]
    /\ UNCHANGED <<rows, lane, inform, session, known, cpe, observers>>

-----------------------------------------------------------------------------
(* Informs.                                                                *)

\* processInform.  Its goroutine runs the job of a periodic Inform, then the fetch; before
\* that it stores the LastInform, which the model has at once: a CPE whose next message
\* overtakes it gets 401 and starts over, as after a restart.
Inform(periodic) ==
    /\ session = Closed
    /\ session' = Informed
    /\ known' = TRUE
    /\ inform' = inform \cup {IF periodic /\ Periodic THEN "job" ELSE "fetch"}
    /\ UNCHANGED <<rows, lane, op, cpe, faults, observers>>

\* CreateCwmpPresetEventTask for a periodic Inform.
InsertDownload ==
    /\ "job" \in inform
    /\ inform' = (inform \ {"job"}) \cup {"fetch"}
    /\ rows' = Append(rows, [what |-> Download, age |-> 0])
    /\ UNCHANGED <<lane, op, session, known, cpe, faults, observers>>

\* The fetch: a GetParameterValues for the normal lane, which gives up when it is full.
Fetch ==
    /\ "fetch" \in inform
    /\ inform' = inform \ {"fetch"}
    /\ IF HasRoom(FALSE)
       THEN lane' = [lane EXCEPT ![FALSE] = Append(@, Get)]
       ELSE UNCHANGED lane
    /\ UNCHANGED <<rows, op, session, known, cpe, faults, observers>>

-----------------------------------------------------------------------------
(* Tr069Index.                                                             *)

\* processTransferComplete; 401 without a LastInform, and the CPE has to start over.
TransferComplete ==
    /\ session = Informed
    /\ owed
    /\ owed' = ~known
    /\ session' = IF known THEN session ELSE Closed
    /\ UNCHANGED <<server, known, device, faults, observers>>

\* Mutant: the lanes are left to the responses.
OnEmptyPost_TasksOnly == <<"task">>

OnEmptyPost == <<"task", "urgent", "normal">>

\* An empty POST is answered from the tasks first.
EmptyPost ==
    /\ session = Informed
    /\ ~owed
    /\ session' = Asking(OnEmptyPost)
    /\ UNCHANGED <<server, known, cpe, faults, observers>>

Earlier(i, j) == rows[i].age > rows[j].age \/ (rows[i].age = rows[j].age /\ i < j)

IsLatest(i) == \A j \in DOMAIN rows : j = i \/ Earlier(i, j)

\* Mutant: the UPDATE to running forgets its primary key.
Without_All(i) == <<>>

Without(i) == [j \in 1..Len(rows) - 1 |-> IF j < i THEN rows[j] ELSE rows[j + 1]]

\* The reply reaches the CPE.
Deliver(r) == session' = Executing(r)

\* GetLatestCwmpPresetTask finds a row and sets it to running.
AskTask ==
    /\ session.pc = "asking"
    /\ session.left # <<>>
    /\ Head(session.left) = "task"
    /\ \E i \in DOMAIN rows :
          /\ IsLatest(i)
          /\ Deliver(rows[i].what)
          /\ rows' = Without(i)
    /\ UNCHANGED <<lane, op, inform, known, cpe, faults, observers>>

\* Mutant: a message stays in its lane.
Rest_Peek(q) == q

Rest(q) == Tail(q)

\* RecvCwmpEventData finds a message.
AskLane(hp) ==
    /\ session.pc = "asking"
    /\ session.left # <<>>
    /\ Head(session.left) = IF hp THEN "urgent" ELSE "normal"
    /\ lane[hp] # <<>>
    /\ Deliver(Head(lane[hp]))
    /\ lane' = [lane EXCEPT ![hp] = Rest(@)]
    /\ UNCHANGED <<rows, op, inform, known, cpe, faults, observers>>

Empty(source) ==
    CASE source = "task" -> rows = <<>>
      [] source = "urgent" -> lane[TRUE] = <<>>
      [] source = "normal" -> lane[FALSE] = <<>>

\* Nothing there: the next source is asked, ...
AskNext ==
    /\ session.pc = "asking"
    /\ session.left # <<>>
    /\ Empty(Head(session.left))
    /\ session' = Asking(Tail(session.left))
    /\ UNCHANGED <<server, known, cpe, faults, observers>>

\* ... and after the last one the CPE is sent nothing, which ends the session.
NoContent ==
    /\ session = Asking(<<>>)
    /\ session' = Closed
    /\ UNCHANGED <<server, known, cpe, faults, observers>>

-----------------------------------------------------------------------------
(* The CPE, and what can go wrong.                                         *)

\* Messages in the urgent lane whose row is not there, or not there any more.
Alone ==
    {lane[TRUE][i] : i \in DOMAIN lane[TRUE]} \ {rows[i].what : i \in DOMAIN rows}

\* The session ends with a request; the urgent lane is not asked any further.
Cut(r) ==
    IF r.kind = "Set"
    THEN /\ cut' = cut \cup {TargetOf(r)}
         /\ stranded' = stranded \cup {TargetOf(m) : m \in Alone}
    ELSE UNCHANGED <<cut, stranded>>

\* The CPE does what it was sent.
Do(r) ==
    /\ device' = IF r.kind = "Set" THEN [device EXCEPT ![r.part] = r.cmd] ELSE device
    /\ got' = IF r.kind = "Set" THEN [got EXCEPT ![TargetOf(r)] = @ + 1] ELSE got
    /\ owed' = (owed \/ r.kind = "Download")

\* Mutant: a response asks in the order of an empty POST.
Chain_TasksFirst == <<"task", "urgent", "normal">>

Chain == <<"urgent", "normal", "task">>

\* The response to SetParameterValues or GetParameterValues is answered from the lanes
\* first, that to Download with nothing; 401 when a restart has lost the LastInform.
Respond ==
    /\ session.pc = "executing"
    /\ Do(session.what)
    /\ IF known
       THEN /\ session' = IF session.what.kind = "Download" THEN Closed ELSE Asking(Chain)
            /\ UNCHANGED <<cut, stranded>>
       ELSE /\ session' = Closed
            /\ Cut(session.what)
    /\ UNCHANGED <<server, known, faults, before, dropped, ahead>>

\* The request is lost on its way to the CPE, or answered with a Fault, which
\* ParseXML does not read: 400.
LoseReply ==
    /\ session.pc = "executing"
    /\ Fault
    /\ session' = Closed
    /\ Cut(session.what)
    /\ UNCHANGED <<server, known, cpe, before, got, dropped, ahead>>

\* The response is lost.
LoseResponse ==
    /\ session.pc = "executing"
    /\ Fault
    /\ Do(session.what)
    /\ session' = Closed
    /\ Cut(session.what)
    /\ UNCHANGED <<server, known, before, dropped, ahead>>

\* Rows that can still be selected in a second.
Lasting == {i \in DOMAIN rows : rows[i].age < Window}

\* A second passes.  A row that gets older than the window is never selected again.
Tick ==
    /\ \E kept \in [1..Cardinality(Lasting) -> Lasting] :
          /\ \A m, n \in DOMAIN kept : m < n => kept[m] < kept[n]
          /\ rows' = [n \in DOMAIN kept |-> [rows[kept[n]] EXCEPT !.age = @ + 1]]
    /\ dropped' = dropped \cup {TargetOf(rows[i].what) :
            i \in {j \in DOMAIN rows \ Lasting : rows[j].what.kind = "Set"}}
    /\ op' = [c \in Command |-> IF op[c].pc = "send" /\ op[c].waited < Timeout
                                THEN [op[c] EXCEPT !.waited = @ + 1]
                                ELSE op[c]]
    /\ UNCHANGED <<lane, inform, session, known, cpe, faults, before, got, cut, stranded, ahead>>

\* The server is killed and started again.  The request of an asking session fails.
Crash ==
    /\ Fault
    /\ lane' = [hp \in BOOLEAN |-> <<>>]
    /\ op' = [c \in Command |-> IF op[c].pc \in {"send", "insert"}
                                THEN [op[c] EXCEPT !.pc = "failed", !.waited = 0]
                                ELSE op[c]]
    /\ inform' = {}
    /\ known' = FALSE
    /\ session' = IF session.pc = "asking" THEN Closed ELSE session
    /\ UNCHANGED <<rows, cpe, observers>>

-----------------------------------------------------------------------------
CommandStep(c) ==
    \/ Begin(c)
    \/ SendPart(c)
    \/ GiveUpPart(c)
    \/ InsertPart(c)
    \/ FailPart(c)

AcsStep ==
    \/ InsertDownload
    \/ Fetch
    \/ AskTask
    \/ \E hp \in BOOLEAN : AskLane(hp)
    \/ AskNext
    \/ NoContent

CpeStep ==
    \/ \E periodic \in BOOLEAN : Inform(periodic)
    \/ TransferComplete
    \/ EmptyPost
    \/ Respond
    \/ LoseReply
    \/ LoseResponse

Next ==
    \/ \E c \in Command : CommandStep(c)
    \/ AcsStep
    \/ CpeStep
    \/ Tick
    \/ Crash

Spec == Init /\ [][Next]_vars

\* A session opened to report a finished download is not the periodic one.
ReportInform == owed /\ Inform(FALSE)

\* Time passes while a sender waits for its timeout.
TimerTick == Tick /\ \E c \in Command : op[c].pc = "send" /\ op[c].waited < Timeout

\* Goroutines run and timers fire.  The CPE keeps connecting, goes through with a
\* session, and opens one for every download it has finished.
Fairness ==
    /\ \A c \in Command : WF_vars(SendPart(c) \/ GiveUpPart(c) \/ InsertPart(c))
    /\ WF_vars(Fetch)
    /\ WF_vars(InsertDownload)
    /\ WF_vars(AskTask \/ AskLane(TRUE) \/ AskLane(FALSE) \/ AskNext \/ NoContent)
    /\ WF_vars(EmptyPost \/ TransferComplete \/ Respond)
    /\ WF_vars(\E periodic \in BOOLEAN : Inform(periodic))
    /\ SF_vars(ReportInform)
    /\ WF_vars(TimerTick)

FairSpec == Spec /\ Fairness

-----------------------------------------------------------------------------
(* Properties.                                                             *)

Sets(c) == {Parts[c][n] : n \in DOMAIN Parts[c]}

\* A part of a command reaches the CPE at most twice, by the lane and by the row,
\* whatever sessions, losses and restarts come in between.
AtMostTwice == \A t \in Target : got[t] <= 2

\* The parts of commands that wait as messages, that wait as rows, that the CPE was sent.
Messages == {t \in Target : \E i \in DOMAIN lane[TRUE] : lane[TRUE][i] = Set(t[1], t[2])}
Rows == {t \in Target : \E i \in DOMAIN rows : rows[i].what = Set(t[1], t[2])}
Hand == {t \in Target : session.pc = "executing" /\ session.what = Set(t[1], t[2])}

\* The n-th part of a command has its row, or had it.
Inserted(c, n) == op[c].pc = "done" \/ n < op[c].n

\* A part that has been inserted is in its row, or in the request the CPE has been sent, or
\* it was received, or it is known to have failed or to be too old: whatever sessions,
\* restarts and other commands do, and even if a later part of its command fails, no row
\* vanishes without the CPE being asked.
KeptUntilSent ==
    \A c \in Command : \A n \in DOMAIN Parts[c] :
        LET t == <<c, Parts[c][n]>>
        IN  Inserted(c, n) => t \in Rows \cup Hand \cup cut \cup dropped \/ got[t] > 0

\* The parts a command has yet to put in the lane, ...
Unsent ==
    {t \in Target : \E n \in DOMAIN Parts[t[1]] :
        /\ Parts[t[1]][n] = t[2]
        /\ \/ op[t[1]].pc = "idle"
           \/ op[t[1]].pc = "send" /\ op[t[1]].n <= n
           \/ op[t[1]].pc = "insert" /\ op[t[1]].n < n}

\* ... or in a row.
Due ==
    {t \in Target : \E n \in DOMAIN Parts[t[1]] :
        /\ Parts[t[1]][n] = t[2]
        /\ \/ op[t[1]].pc = "idle"
           \/ op[t[1]].pc \in {"send", "insert"} /\ op[t[1]].n <= n}

\* The commands, the lanes, the rows and the dialogue, with all that can fail, keep the
\* books of Delivery: one message and one row per part, one request in the CPE's hand,
\* every copy received, noted or lost in a restart.
Promise == INSTANCE Delivery WITH
        Value <- Target, unsent <- Unsent, due <- Due,
        message <- Messages, row <- Rows, hand <- Hand,
        noted <- cut \cup dropped

IsDelivery == Promise!Spec

\* No command is under way, and nothing is left that could still be sent.
Quiescent ==
    /\ \A c \in Command : op[c].pc \notin {"send", "insert"}
    /\ rows = <<>>
    /\ \A hp \in BOOLEAN : lane[hp] = <<>>
    /\ session = Closed

\* Command d was issued when c was over, and both set part p.
Later(d, c, p) == c \in before[d] /\ p \in Sets(c) \cap Sets(d)

\* What excuses that a CPE has values of c after d, which was issued later: the request of
\* d or its answer failed, or its row got too old, which is then the only way left for it;
\* the row of c got too old; its message was left in the lane, its row being taken, when
\* another request failed, since the next session asks for rows first; the row of c was
\* dated further ahead; or its INSERT failed: the operator was told so, but the message was
\* in the lane.
Excused(c, d, p) ==
    \/ <<d, p>> \in cut \cup dropped
    \/ <<c, p>> \in stranded \cup dropped
    \/ <<c, d, p>> \in ahead
    \/ op[c].pc = "failed"

\* When all is quiet, the CPE has for each part what a command without a later one asked
\* for, and not nothing - but for the excuses.
LastWinsUnlessCut ==
    Quiescent =>
        \A d \in Command, p \in Part : (op[d].pc = "done" /\ p \in Sets(d)) =>
            /\ device[p] = Nobody => <<d, p>> \in cut \cup dropped
            /\ Later(d, device[p], p) => Excused(device[p], d, p)

\* controllers/supervise/supervise.go:178: the command was "sent, will take effect
\* after device applies changes" - so when all has been sent and nothing failed or
\* got too old, the device has what the last command asked for.
LastCommandWins ==
    (Quiescent /\ cut = {} /\ dropped = {}) =>
        \A d \in Command, p \in Part :
            (op[d].pc = "done" /\ p \in Sets(d)) => ~Later(d, device[p], p)

\* As long as the CPE keeps connecting, every part of an accepted command is sent to it,
\* unless its row gets too old first.  Stated for all commands at once: one that is done
\* stays so, and what was received, cut or dropped remains noted.
CommandIsSent ==
    <>[](\A c \in Command : \A p \in Sets(c) :
            op[c].pc = "done" => got[<<c, p>>] > 0 \/ <<c, p>> \in cut \cup dropped)

\* A session asks the lanes only when the database has no task, and a periodic preset
\* makes a task for every periodic session.  The urgent messages are taken all the same,
\* once faults cease: commands are finitely many, so in the end none is left.
UrgentIsTaken == <>[](lane[TRUE] = <<>>)
=============================================================================
