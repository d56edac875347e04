------------------------------ MODULE PresetTask ------------------------------
(***************************************************************************)
(* The rows of table cwmp_preset_task: how the ACS creates them, hands     *)
(* them to the CPE one at a time and settles them.                         *)
(*                                                                         *)
(*   jobs      CreateCwmpPresetEventTask, one goroutine per batch, inserts *)
(*             the transfer rows of every preset one by one and leaves the *)
(*             SetParameterValues row to a goroutine of its own;           *)
(*   sessions  a handler of Tr069Index runs GetLatestCwmpPresetTask, a     *)
(*             SELECT and then an UPDATE with nothing between them but     *)
(*             time, and writes the request of the row to the CPE;         *)
(*   the CPE   (external) executes what it was sent and reports;           *)
(*   updates   UpdateCwmpPresetTaskStatus, in a goroutine for a            *)
(*             TransferComplete, inline for a SetParameterValuesResponse.  *)
(*                                                                         *)
(* A row is named by its position in rows: ids are snowflakes, so the id   *)
(* order is the order of insertion.                                        *)
(***************************************************************************)
EXTENDS Naturals, Sequences, FiniteSets

CONSTANTS
    Device,       \* serial numbers
    Session,      \* HTTP sessions the ACS may be serving at the same time
    Serves,       \* [Session -> Device]
    Batch,        \* batch ids, one per run of a job
    NoBatch,      \* the empty batch of a row made by an operator's command
    PresetId,     \* ids of presets
    NoPreset,     \* preset id 0
    Contents,     \* the lists of presets a job may load, in priority order
    Commands,     \* what makes rows besides sessions: a subset of Command
    Window,       \* age in clock units after which a row is not selected
    MaxOrder,     \* what createWifiPresetTask may add to created_at: its last task's order
    MaxRow,       \* bound: rows ever inserted
    MaxClock,     \* bound: clock
    MaxCrash      \* bound: restarts of the server

TransferKind == {"Download", "Upload"}
Kind == TransferKind \cup {"SetParameterValues", "Wifi", "Reboot"}
OnFail == {"cancel", "ignore"}
Status == {"pending", "running", "success", "failure", "cancel", "deleted"}

Command == {"Event", "Execute", "Wifi", "Reboot", "Delete"}

Step == [kind: TransferKind, onfail: OnFail]
Content == [id: PresetId, yaml: BOOLEAN, steps: Seq(Step), set: BOOLEAN]

ASSUME ConstantsAssumption ==
    /\ Device # {}
    /\ Serves \in [Session -> Device]
    /\ IsFiniteSet(Session)
    /\ NoBatch \notin Batch
    /\ NoPreset \notin PresetId
    /\ Contents \subseteq Seq(Content)
    /\ Commands \subseteq Command
    /\ {Window, MaxOrder, MaxRow, MaxClock, MaxCrash} \subseteq Nat

VARIABLES
    rows,      \* the table, in order of insertion
    clock,     \* time.Now(), in units of the order offset of a Wifi row
    job,       \* [Batch -> what the creating goroutine still has to do]
    async,     \* goroutines that will insert a SetParameterValues row
    pick,      \* [Session -> row selected and not yet marked, 0 if none]
    held,      \* rows the CPE has received and not reported on
    reports,   \* TransferComplete messages the CPE still wants acknowledged
    updates,   \* goroutines started by processTransferComplete
    crashes,   \* restarts so far
    sent,      \* observer: how often the request of a row reached the wire
    faulted    \* observer: rows settled by a TransferComplete with a fault

db == <<rows, clock>>
server == <<job, async, pick, updates>>
cpe == <<held, reports>>
vars == <<rows, clock, job, async, pick, held, reports, updates, crashes, sent, faulted>>

-----------------------------------------------------------------------------
RowId == 1..MaxRow
Row == [sn: Device, preset: PresetId \cup {NoPreset}, batch: Batch \cup {NoBatch},
        kind: Kind, onfail: OnFail, status: Status, at: Nat]
Job == [sn: Device, started: BOOLEAN, todo: Seq(Content), next: Nat \ {0}]
Async == [sn: Device, batch: Batch, preset: PresetId]
Report == [row: RowId, fault: BOOLEAN]
Update == [row: RowId, fault: BOOLEAN, pc: {"status", "cancel"}]

TypeOK ==
    /\ rows \in Seq(Row)
    /\ Len(rows) \in 0..MaxRow
    /\ clock \in 0..MaxClock
    /\ job \in [Batch -> Job]
    /\ async \subseteq Async
    /\ pick \in [Session -> {0} \cup RowId]
    /\ \A s \in Session : pick[s] \in {0} \cup DOMAIN rows
    /\ held \subseteq DOMAIN rows
    /\ reports \subseteq Report
    /\ updates \subseteq Update
    /\ \A r \in reports : r.row \in DOMAIN rows
    /\ \A u \in updates : u.row \in DOMAIN rows
    /\ crashes \in 0..MaxCrash
    /\ sent \in [RowId -> Nat]
    /\ faulted \subseteq DOMAIN rows

Init ==
    /\ rows = <<>>
    /\ clock = 0
    /\ job = [b \in Batch |-> [sn |-> CHOOSE d \in Device : TRUE, started |-> FALSE,
                               todo |-> <<>>, next |-> 1]]
    /\ async = {}
    /\ pick = [s \in Session |-> 0]
    /\ held = {}
    /\ reports = {}
    /\ updates = {}
    /\ crashes = 0
    /\ sent = [i \in RowId |-> 0]
    /\ faulted = {}

-----------------------------------------------------------------------------
(* Rows.                                                                   *)

Insert(d, p, b, k, f, offset) ==
    /\ Len(rows) < MaxRow
    /\ rows' = Append(rows, [sn |-> d, preset |-> p, batch |-> b, kind |-> k,
                             onfail |-> f, status |-> "pending", at |-> clock + offset])

Fresh(i) == rows[i].at + Window >= clock

\* Mutant: created_at desc.
Before_Desc(i, j) == rows[i].at > rows[j].at \/ (rows[i].at = rows[j].at /\ i > j)

\* created_at asc, then the primary key First() adds to the order.
Before(i, j) == rows[i].at < rows[j].at \/ (rows[i].at = rows[j].at /\ i < j)

\* Mutant: only the rows of presets.
Dispatchable_OfPreset(d) ==
    {i \in DOMAIN rows : /\ rows[i].sn = d
                        /\ rows[i].preset # NoPreset
                        /\ rows[i].status = "pending"
                        /\ Fresh(i)}

Dispatchable(d) ==
    {i \in DOMAIN rows : rows[i].sn = d /\ rows[i].status = "pending" /\ Fresh(i)}

IsLatest(i, d) ==
    /\ i \in Dispatchable(d)
    /\ \A j \in Dispatchable(d) : j = i \/ Before(i, j)

SetStatus(i, st) ==
    rows' = [rows EXCEPT ![i].status = IF @ = "deleted" THEN @ ELSE st]

-----------------------------------------------------------------------------
(* Jobs.                                                                   *)

\* The job is about to work through the presets c from the first entry of the first.
Doing(d, c) == [sn |-> d, started |-> TRUE, todo |-> c, next |-> 1]

\* CreateCwmpPresetEventTask up to its loop: the presets of the event whose tags
\* match the device are loaded in priority order under a fresh batch id.
StartJob(b, d) ==
    /\ "Event" \in Commands
    /\ ~job[b].started
    /\ \E c \in Contents :
          job' = [job EXCEPT ![b] = Doing(d, c)]
    /\ UNCHANGED <<db, async, pick, cpe, updates, crashes, sent, faulted>>

\* /admin/cwmp/preset/execute: refused while a row of the preset is pending.
Execute(b, d, p) ==
    /\ "Execute" \in Commands
    /\ ~job[b].started
    /\ \A i \in DOMAIN rows : ~(rows[i].preset = p /\ rows[i].status = "pending")
    /\ \E c \in Contents :
          /\ Len(c) = 1
          /\ c[1].id = p
          /\ job' = [job EXCEPT ![b] = Doing(d, c)]
    /\ UNCHANGED <<db, async, pick, cpe, updates, crashes, sent, faulted>>

Current(b) == Head(job[b].todo)

\* creatFactoryResetConfigDownloadTask .. creatUploadTask: one INSERT, or none
\* when the entry is disabled, its script is not found or the INSERT fails.
CreateStep(b) ==
    /\ job[b].todo # <<>>
    /\ Current(b).yaml
    /\ job[b].next <= Len(Current(b).steps)
    /\ \/ LET step == Current(b).steps[job[b].next]
          IN  Insert(job[b].sn, Current(b).id, b, step.kind, step.onfail, 0)
       \/ rows' = rows
    /\ job' = [job EXCEPT ![b].next = @ + 1]
    /\ UNCHANGED <<clock, async, pick, cpe, updates, crashes, sent, faulted>>

\* The content does not parse: the function returns, later presets are dropped.
BadContent(b) ==
    /\ job[b].todo # <<>>
    /\ ~Current(b).yaml
    /\ job' = [job EXCEPT ![b].todo = <<>>]
    /\ UNCHANGED <<db, async, pick, cpe, updates, crashes, sent, faulted>>

\* All transfers of the preset are in: go func() for the parameters, next preset.
SpawnSet(b) ==
    /\ job[b].todo # <<>>
    /\ Current(b).yaml
    /\ job[b].next > Len(Current(b).steps)
    /\ async' = IF Current(b).set
                THEN async \cup {[sn |-> job[b].sn, batch |-> b, preset |-> Current(b).id]}
                ELSE async
    /\ job' = [job EXCEPT ![b] = Doing(@.sn, Tail(@.todo))]
    /\ UNCHANGED <<db, pick, cpe, updates, crashes, sent, faulted>>

\* creatSetParameterValuesTask in that goroutine.
CreateSet(a) ==
    /\ \/ Insert(a.sn, a.preset, a.batch, "SetParameterValues", "ignore", 0)
       \/ rows' = rows
    /\ async' = async \ {a}
    /\ UNCHANGED <<clock, job, pick, cpe, updates, crashes, sent, faulted>>

\* createWifiPresetTask: created_at lies order seconds in the future.
CreateWifi(d, order) ==
    /\ "Wifi" \in Commands
    /\ Insert(d, NoPreset, NoBatch, "Wifi", "ignore", order)
    /\ UNCHANGED <<clock, server, cpe, crashes, sent, faulted>>

\* /admin/supervise/reboot.
CreateReboot(d) ==
    /\ "Reboot" \in Commands
    /\ Insert(d, NoPreset, NoBatch, "Reboot", "ignore", 0)
    /\ UNCHANGED <<clock, server, cpe, crashes, sent, faulted>>

\* /admin/cwmp/presettask/delete.
DeleteRow(i) ==
    /\ "Delete" \in Commands
    /\ rows[i].status # "deleted"
    /\ SetStatus(i, "deleted")
    /\ UNCHANGED <<clock, server, cpe, crashes, sent, faulted>>

-----------------------------------------------------------------------------
(* Sessions.                                                               *)

\* GetLatestCwmpPresetTask, the SELECT.
Select(s) ==
    /\ pick[s] = 0
    /\ \E i \in DOMAIN rows :
          /\ IsLatest(i, Serves[s])
          /\ pick' = [pick EXCEPT ![s] = i]
    /\ UNCHANGED <<db, job, async, updates, cpe, crashes, sent, faulted>>

\* Mutant: the row stays pending.
MarkRunning_Forgotten(i) == rows' = rows

MarkRunning(i) == SetStatus(i, "running")

\* GetLatestCwmpPresetTask, the UPDATE by primary key, whatever the row has become
\* since; then the request goes to the CPE, or is lost with the connection.
Mark(s) ==
    /\ pick[s] # 0
    /\ MarkRunning(pick[s])
    /\ sent' = [sent EXCEPT ![pick[s]] = @ + 1]
    /\ held' \in {held, held \cup {pick[s]}}
    /\ pick' = [pick EXCEPT ![s] = 0]
    /\ UNCHANGED <<clock, job, async, updates, reports, crashes, faulted>>

\* SetParameterValuesResponse: the row settles only when the session id of the
\* message starts with "PresetTask".  A Wifi row does not, and no response to a
\* Reboot names a row.
AnswerSet(i, ok) ==
    /\ i \in held
    /\ rows[i].kind \notin TransferKind
    /\ held' = held \ {i}
    /\ IF rows[i].kind = "SetParameterValues"
       THEN SetStatus(i, IF ok THEN "success" ELSE "failure")
       ELSE rows' = rows
    /\ UNCHANGED <<clock, server, reports, crashes, sent, faulted>>

\* A SOAP Fault instead of the response: ParseXML knows no such body, Tr069Index
\* replies 400 and touches no row.
AnswerFault(i) ==
    /\ i \in held
    /\ held' = held \ {i}
    /\ UNCHANGED <<db, server, reports, crashes, sent, faulted>>

\* (external) The CPE has finished a transfer and reports it in a later session.
Report_(i, fault) ==
    /\ i \in held
    /\ rows[i].kind \in TransferKind
    /\ held' = held \ {i}
    /\ reports' = reports \cup {[row |-> i, fault |-> fault]}
    /\ UNCHANGED <<db, server, crashes, sent, faulted>>

\* processTransferComplete: reply at once, update in a goroutine.  When the reply
\* is lost the CPE keeps the message and sends it again.
RecvReport(r) ==
    /\ r \in reports
    /\ updates' = updates \cup {[row |-> r.row, fault |-> r.fault, pc |-> "status"]}
    /\ reports' \in {reports, reports \ {r}}
    /\ UNCHANGED <<db, job, async, pick, held, crashes, sent, faulted>>

-----------------------------------------------------------------------------
(* Updates.                                                                *)

\* Mutant: a word nobody else uses.
Outcome_Misspelt(fault) == IF fault THEN "failed" ELSE "success"

\* Mutant: only failures are recorded.
Outcome_OnlyFailure(fault) == IF fault THEN "failure" ELSE "running"

\* Mutant: what failed is tried again.
Outcome_Retry(fault) == IF fault THEN "pending" ELSE "success"

Outcome(fault) == IF fault THEN "failure" ELSE "success"

\* UpdateCwmpPresetTaskStatus: find the row by session and set its status.  A
\* deleted row ends the update.
UpdateStatus(u) ==
    /\ u \in updates
    /\ u.pc = "status"
    /\ SetStatus(u.row, Outcome(u.fault))
    /\ LET row == rows[u.row]
           goesOn == /\ row.status # "deleted"
                     /\ u.fault
                     /\ row.batch # NoBatch
                     /\ row.onfail = "cancel"
       IN  updates' = (updates \ {u}) \cup IF goesOn THEN {[u EXCEPT !.pc = "cancel"]} ELSE {}
    /\ faulted' = IF u.fault THEN faulted \cup {u.row} ELSE faulted
    /\ UNCHANGED <<clock, job, async, pick, cpe, crashes, sent>>

\* Mutant: the UPDATE forgets its status condition.
Cancelled_AnyStatus(i, b) == rows[i].batch = b

\* Mutant: the UPDATE forgets its batch condition.
Cancelled_AnyBatch(i, b) == rows[i].status = "pending"

Cancelled(i, b) == rows[i].status = "pending" /\ rows[i].batch = b

CancelPending(b) ==
    rows' = [i \in DOMAIN rows |->
                IF Cancelled(i, b)
                THEN [rows[i] EXCEPT !.status = "cancel"]
                ELSE rows[i]]

\* UpdateCwmpPresetTaskStatus, its last UPDATE.
UpdateBatch(u) ==
    /\ u \in updates
    /\ u.pc = "cancel"
    /\ CancelPending(rows[u.row].batch)
    /\ updates' = updates \ {u}
    /\ UNCHANGED <<clock, job, async, pick, cpe, crashes, sent, faulted>>

-----------------------------------------------------------------------------
Tick ==
    /\ clock < MaxClock
    /\ clock' = clock + 1
    /\ UNCHANGED <<rows, server, cpe, crashes, sent, faulted>>

\* The process dies and starts again: goroutines are gone, rows stay.
Crash ==
    /\ crashes < MaxCrash
    /\ crashes' = crashes + 1
    /\ job' = [b \in Batch |-> [job[b] EXCEPT !.todo = <<>>]]
    /\ async' = {}
    /\ pick' = [s \in Session |-> 0]
    /\ updates' = {}
    /\ UNCHANGED <<db, cpe, sent, faulted>>

JobStep ==
    \/ \E b \in Batch, d \in Device : StartJob(b, d)
    \/ \E b \in Batch, d \in Device, p \in PresetId : Execute(b, d, p)
    \/ \E b \in Batch : CreateStep(b) \/ BadContent(b) \/ SpawnSet(b)
    \/ \E a \in async : CreateSet(a)

OperatorStep ==
    \/ \E d \in Device, order \in 0..MaxOrder : CreateWifi(d, order)
    \/ \E d \in Device : CreateReboot(d)
    \/ \E i \in DOMAIN rows : DeleteRow(i)

SessionStep == \E s \in Session : Select(s) \/ Mark(s)

CpeStep ==
    \/ \E i \in held, ok \in BOOLEAN : AnswerSet(i, ok)
    \/ \E i \in held : AnswerFault(i)
    \/ \E i \in held, fault \in BOOLEAN : Report_(i, fault)
    \/ \E r \in reports : RecvReport(r)

UpdateStep == \E u \in updates : UpdateStatus(u) \/ UpdateBatch(u)

Next == JobStep \/ OperatorStep \/ SessionStep \/ CpeStep \/ UpdateStep \/ Tick \/ Crash

Spec == Init /\ [][Next]_vars

\* The server's own steps are never starved; the CPE keeps opening sessions (it
\* informs periodically) and keeps sending a report until it is acknowledged.
Fairness ==
    /\ \A s \in Session : WF_vars(Select(s)) /\ WF_vars(Mark(s))
    /\ \A i \in RowId, f \in BOOLEAN : WF_vars(RecvReport([row |-> i, fault |-> f]))
    /\ \A i \in RowId, f \in BOOLEAN, pc \in {"status", "cancel"} :
          LET u == [row |-> i, fault |-> f, pc |-> pc]
          IN  WF_vars(UpdateStatus(u) \/ UpdateBatch(u))

FairSpec == Spec /\ Fairness

-----------------------------------------------------------------------------
(* Properties.                                                             *)

Settled == {"success", "failure"}

Begun(i) ==
    \/ rows[i].status \in {"running"} \cup Settled
    \/ \E s \in Session : pick[s] = i

\* The tasks of a device start in order of creation: while a task is pending and
\* not too old, no task inserted after it with a later created_at has been
\* selected, however many sessions the device has open.
StartInOrder ==
    \A i, j \in DOMAIN rows :
        (/\ i < j
         /\ rows[i].sn = rows[j].sn
         /\ rows[i].at <= rows[j].at
         /\ rows[i].status = "pending"
         /\ Fresh(i)) => ~Begun(j)

\* SELECT and UPDATE are not one transaction, so two sessions of a device may both
\* send a task; but never more often than the device has sessions.
SentOncePerSession ==
    \A i \in DOMAIN rows :
        sent[i] <= Cardinality({s \in Session : Serves[s] = rows[i].sn})

\* A task is cancelled only on account of another task of its own batch, marked
\* onfail=cancel, that the CPE reported as failed.
CancelHasCause ==
    \A i \in DOMAIN rows : rows[i].status = "cancel" =>
        \E j \in faulted : /\ j # i
                           /\ rows[j].batch = rows[i].batch
                           /\ rows[j].onfail = "cancel"

\* With one session per device: the result of a task is never overwritten, not by
\* a late UPDATE of a session, not by a cancellation and not by a repeated report.
ResultIsFinal ==
    [][\A i \in DOMAIN rows : rows[i].status \in Settled =>
            rows'[i].status \in {rows[i].status, "deleted"}]_vars

\* Nothing of a batch is to be inserted, selected or pending.
Ended(b) ==
    /\ job[b].started /\ job[b].todo = <<>>
    /\ \A a \in async : a.batch # b
    /\ \A s \in Session : pick[s] # 0 => rows[pick[s]].batch # b
    /\ \A i \in DOMAIN rows : rows[i].batch = b => rows[i].status # "pending"

\* A batch that has ended, be it by success or by a cancellation, stays so, and none of its
\* tasks is sent again: not by another session, not after a report that comes again, a late
\* UPDATE, the failure of another batch or a restart.
EndedBatchIsSilent ==
    [][\A b \in Batch : Ended(b) =>
          /\ Ended(b)'
          /\ \A i \in DOMAIN rows : rows[i].batch = b => sent'[i] = sent[i]]_vars

\* However jobs, sessions, operators and late updates interleave, the table is a board
\* of tasks: a result only for a task that was started, a cancellation of exactly the
\* pending tasks of a batch one of which has failed, and nothing after a deletion.
B == INSTANCE TaskBoard WITH
        Worker <- Session, Group <- Batch, NoGroup <- NoBatch, claim <- pick, failed <- faulted,
        task <- [i \in DOMAIN rows |-> [group |-> rows[i].batch,
                                        critical |-> rows[i].onfail = "cancel",
                                        status |-> rows[i].status]]

IsTaskBoard == B!Spec

Waiting(i) == i \in DOMAIN rows /\ rows[i].status = "pending" /\ Fresh(i)

\* No starvation: as long as the device keeps connecting, a pending task that is
\* not too old is taken up, cancelled or deleted before it gets too old.
PendingIsServed ==
    \A i \in RowId :
        Waiting(i) ~> ~Waiting(i)

\* A transfer the CPE reports is settled, unless the server restarts once more
\* after it has acknowledged the report.
ReportSettles ==
    \A i \in RowId :
        ((\E r \in reports : r.row = i) /\ crashes = MaxCrash)
            ~> (i \in DOMAIN rows /\ rows[i].status \in Settled \cup {"deleted"})

FailedBatch(b) ==
    /\ \E j \in faulted : rows[j].batch = b /\ rows[j].onfail = "cancel"
    /\ \A u \in updates : rows[u.row].batch # b

\* assets/tr069_preset.yml:6: when a task with onfail=cancel fails, "all unexecuted
\* tasks defined by the description file will be canceled" - so once the
\* cancellation is over no task of the batch is sent: neither one a session had
\* selected before, nor one that was not inserted yet.
FailedBatchStaysStopped ==
    [][\A i \in DOMAIN rows : sent'[i] > sent[i] => ~FailedBatch(rows[i].batch)]_vars

\* controllers/cwmppreset/cwmp.go:90: executing a preset by hand is refused with
\* "The task is already in progress" - so a preset is never in progress twice.
OneRunPerPreset ==
    \A i, j \in DOMAIN rows :
        (/\ rows[i].sn = rows[j].sn
         /\ rows[i].preset = rows[j].preset
         /\ rows[i].batch # rows[j].batch
         /\ rows[i].status \in {"pending", "running"})
            => rows[j].status \notin {"pending", "running"}
=============================================================================
