------------------------------- MODULE CpeTable -------------------------------
(***************************************************************************)
(* What the ACS knows of one CPE, twice: the row of net_cpe and the entry   *)
(* of the CwmpEventTable, which caches parts of it.                        *)
(*                                                                         *)
(*   handlers   processInformEvent, one goroutine per Inform;              *)
(*   fillers    goroutines that read the task tags of the CPE (TaskTags);  *)
(*   editors    requests of /admin/cpe/update;                             *)
(*   deleters   requests of /admin/cpe/delete;                             *)
(*   the job    SchedUpdateBatchCwmpStatus, every 60 s.                     *)
(*                                                                         *)
(* Nothing but the map of the table is locked.  Handlers and fillers work   *)
(* with the pointer GetCwmpCpe gave them even when the table has dropped    *)
(* the entry since; the entries made for the CPE are numbered.  An Inform   *)
(* is named by its number; data stands for the columns an Inform fills.     *)
(***************************************************************************)
EXTENDS Naturals

CONSTANTS
    Handler,        \* goroutines that may be handling Informs at the same time
    Filler,         \* goroutines that may be reading the task tags
    Editor,         \* update requests
    Deleter,        \* delete requests
    Tags,           \* task tags an operator may set
    NoTags,         \* task_tags = "", and the nil cache
    AutoRegister,   \* CpeAutoRegister = "enabled"
    Quiet,          \* 300 s: the throttle of data updates and the limit of the job
    MaxInform,      \* bound: Informs and other messages that refresh the row
    MaxRow,         \* bound: rows inserted for the CPE
    MaxEntry        \* bound: entries made for the CPE

ASSUME ConstantsAssumption ==
    /\ NoTags \notin Tags
    /\ AutoRegister \in BOOLEAN
    /\ {Quiet, MaxInform, MaxRow, MaxEntry} \subseteq Nat

VARIABLES
    row,        \* the row of the CPE, its id 0 if there is none
    inserted,   \* rows inserted so far
    informs,    \* messages received so far
    entry,      \* the entry in cpeTable, 0 if there is none
    made,       \* entries made so far
    cpe,        \* [1..MaxEntry -> the entry behind the pointer]
    handler,    \* [Handler -> the goroutine]
    filler,     \* [Filler -> the goroutine]
    edits,      \* editors that have changed the row and not yet cleared the cache
    doomed,     \* [Deleter -> id of the row it is about to delete, 0 if idle]
    suspect     \* observer: entries whose cached tags were overtaken by a change

database == <<row, inserted>>
table == <<entry, made>>
vars == <<row, inserted, informs, entry, made, cpe, handler, filler, edits, doomed, suspect>>

Entry == 1..MaxEntry
Inform == 0..MaxInform
Age == 0..Quiet + 1      \* Quiet + 1 stands for every larger age

Row == [id: 0..MaxRow, tags: Tags \cup {NoTags}, status: {"", "online", "offline"},
        age: Age, data: Inform]
CwmpCpe == [isRegister: BOOLEAN, tags: Tags \cup {NoTags}, inform: Inform, age: Age]
Thread == [pc: {"idle", "register", "insert", "mark", "status", "notify", "online", "read",
                "write", "stamp"},
           at: {0} \cup Entry, msg: Inform, snap: Inform, again: BOOLEAN,
           calm: BOOLEAN, beside: SUBSET Inform]
Fill == [pc: {"idle", "store"}, at: {0} \cup Entry, tags: Tags \cup {NoTags}, late: BOOLEAN]

TypeOK ==
    /\ row \in Row
    /\ inserted \in row.id..MaxRow
    /\ informs \in Inform
    /\ made \in 0..MaxEntry
    /\ entry \in 0..made
    /\ cpe \in [Entry -> CwmpCpe]
    /\ handler \in [Handler -> Thread]
    /\ \A h \in Handler : handler[h].at <= made /\ (handler[h].pc # "idle" => handler[h].at # 0)
    /\ filler \in [Filler -> Fill]
    /\ \A f \in Filler : filler[f].at <= made /\ (filler[f].pc # "idle" => filler[f].at # 0)
    /\ edits \subseteq Editor
    /\ doomed \in [Deleter -> 0..MaxRow]
    /\ suspect \subseteq Entry

NoRow == [id |-> 0, tags |-> NoTags, status |-> "", age |-> 0, data |-> 0]
Unused == [isRegister |-> FALSE, tags |-> NoTags, inform |-> 0, age |-> Quiet + 1]
Idle == [pc |-> "idle", at |-> 0, msg |-> 0, snap |-> 0, again |-> FALSE,
         calm |-> FALSE, beside |-> {}]
NoFill == [pc |-> "idle", at |-> 0, tags |-> NoTags, late |-> FALSE]

Init ==
    /\ row = NoRow
    /\ inserted = 0
    /\ informs = 0
    /\ entry = 0
    /\ made = 0
    /\ cpe = [e \in Entry |-> Unused]
    /\ handler = [h \in Handler |-> Idle]
    /\ filler = [f \in Filler |-> NoFill]
    /\ edits = {}
    /\ doomed = [d \in Deleter |-> 0]
    /\ suspect = {}

-----------------------------------------------------------------------------
\* GetCwmpCpe, under the lock: afterwards the table has an entry; a new one is
\* registered when the CPE has a row.
GetCwmpCpe ==
    IF entry # 0
    THEN UNCHANGED <<entry, made, cpe>>
    ELSE /\ made < MaxEntry
         /\ made' = made + 1
         /\ entry' = made + 1
         /\ cpe' = [cpe EXCEPT ![made + 1].isRegister = row.id # 0]

Insert(t, data) ==
    /\ inserted < MaxRow
    /\ inserted' = inserted + 1
    /\ row' = [id |-> inserted + 1, tags |-> t, status |-> "", age |-> Quiet + 1, data |-> data]

\* The row's tags are about to change: what the fillers read is out of date.
OvertakeFills == filler' = [f \in Filler |-> [filler[f] EXCEPT !.late = @ \/ filler[f].pc = "store"]]

Deleting == \E d \in Deleter : doomed[d] # 0

-----------------------------------------------------------------------------
(* Informs.                                                                *)

\* The Informs that are being handled.
Running == {handler[h].msg : h \in {g \in Handler : handler[g].pc # "idle"}}

\* An Inform arrives and its goroutine gets the entry; change says that it reports
\* a VALUE CHANGE.
Receive(h, change) ==
    /\ handler[h].pc = "idle"
    /\ informs < MaxInform
    /\ informs' = informs + 1
    /\ GetCwmpCpe
    /\ handler' = [handler EXCEPT ![h] =
            [pc |-> "register", at |-> entry', msg |-> informs + 1, snap |-> 0,
             again |-> change, calm |-> ~Deleting, beside |-> Running]]
    /\ UNCHANGED <<database, filler, edits, doomed, suspect>>

Goto(h, pc) == handler' = [handler EXCEPT ![h].pc = pc]

Unregistered(h) == AutoRegister /\ ~cpe[handler[h].at].isRegister

\* Mutant: the entry is marked before there is a row.
CheckRegister_Claims(h) ==
    /\ handler[h].pc = "register"
    /\ Goto(h, IF Unregistered(h) THEN "insert" ELSE "status")
    /\ cpe' = [cpe EXCEPT ![handler[h].at].isRegister = @ \/ AutoRegister]
    /\ UNCHANGED <<database, informs, table, filler, edits, doomed, suspect>>

\* CheckRegister, up to the INSERT.
CheckRegister(h) ==
    /\ handler[h].pc = "register"
    /\ Goto(h, IF Unregistered(h) THEN "insert" ELSE "status")
    /\ UNCHANGED <<database, informs, table, cpe, filler, edits, doomed, suspect>>

\* The INSERT.
CreateCpe(h) ==
    /\ handler[h].pc = "insert"
    /\ row.id = 0
    /\ Insert(NoTags, handler[h].msg)
    /\ Goto(h, "mark")
    /\ UNCHANGED <<informs, table, cpe, filler, edits, doomed, suspect>>

\* The INSERT is refused by the unique index on sn, or fails: the error is logged.
FailCreate(h) ==
    /\ handler[h].pc = "insert"
    /\ handler' = [handler EXCEPT ![h] = [@ EXCEPT !.pc = "status",
                                                  !.calm = handler[h].calm /\ row.id # 0]]
    /\ UNCHANGED <<database, informs, table, cpe, filler, edits, doomed, suspect>>

\* IsRegister, after the INSERT has returned.
MarkRegister(h) ==
    /\ handler[h].pc = "mark"
    /\ cpe' = [cpe EXCEPT ![handler[h].at].isRegister = TRUE]
    /\ Goto(h, "status")
    /\ UNCHANGED <<database, informs, table, filler, edits, doomed, suspect>>

\* Mutant: the first Inform of an entry is kept.
Latest_First(old, msg) == IF old = 0 THEN msg ELSE old

Latest(old, msg) == msg

UpdateStatus(h) ==
    /\ handler[h].pc = "status"
    /\ cpe' = [cpe EXCEPT ![handler[h].at].inform = Latest(@, handler[h].msg)]
    /\ Goto(h, "notify")
    /\ UNCHANGED <<database, informs, table, filler, edits, doomed, suspect>>

\* NotifyDataUpdate(false): a full update when the last one is long enough ago.
NotifyDataUpdate(h) ==
    /\ handler[h].pc = "notify"
    /\ Goto(h, IF cpe[handler[h].at].age > Quiet THEN "read" ELSE "online")
    /\ UNCHANGED <<database, informs, table, cpe, filler, edits, doomed, suspect>>

\* One round is over: another one, forced, follows for a VALUE CHANGE.
RoundOver(h) ==
    IF handler[h].again
    THEN handler' = [handler EXCEPT ![h] = [@ EXCEPT !.pc = "read", !.again = FALSE]]
    ELSE handler' = [handler EXCEPT ![h] = Idle]

\* Both UPDATEs name the row by its sn: without a row they change nothing.
Online(data) ==
    row' = IF row.id = 0
           THEN row
           ELSE [row EXCEPT !.status = "online", !.age = 0, !.data = data]

OnInformUpdateOnline(h) ==
    /\ handler[h].pc = "online"
    /\ Online(row.data)
    /\ RoundOver(h)
    /\ UNCHANGED <<inserted, informs, table, cpe, filler, edits, doomed, suspect>>

\* OnInformUpdate begins: it takes the LastInform of the entry, whoever stored it.
TakeInform(h) ==
    /\ handler[h].pc = "read"
    /\ handler' = [handler EXCEPT ![h] = [@ EXCEPT !.pc = "write",
                                                  !.snap = cpe[handler[h].at].inform]]
    /\ UNCHANGED <<database, informs, table, cpe, filler, edits, doomed, suspect>>

\* The UPDATE of OnInformUpdate, by sn.
OnInformUpdate(h) ==
    /\ handler[h].pc = "write"
    /\ Online(handler[h].snap)
    /\ Goto(h, "stamp")
    /\ UNCHANGED <<inserted, informs, table, cpe, filler, edits, doomed, suspect>>

\* LastDataNotify, after OnInformUpdate has returned.
Stamp(h) ==
    /\ handler[h].pc = "stamp"
    /\ cpe' = [cpe EXCEPT ![handler[h].at].age = 0]
    /\ RoundOver(h)
    /\ UNCHANGED <<database, informs, table, filler, edits, doomed, suspect>>

\* OnParamsUpdate, for a GetParameterValuesResponse: refreshes the row as an Inform
\* does; the columns it fills besides are not part of data.
OnParamsUpdate ==
    /\ entry # 0
    /\ cpe[entry].inform # 0
    /\ informs < MaxInform
    /\ informs' = informs + 1
    /\ Online(row.data)
    /\ UNCHANGED <<inserted, table, cpe, handler, filler, edits, doomed, suspect>>

-----------------------------------------------------------------------------
(* Task tags.                                                              *)

\* TaskTags, up to its SELECT; cached tags are returned as they are, and without
\* tags in the row there is nothing to store.
ReadTags(f) ==
    /\ filler[f].pc = "idle"
    /\ GetCwmpCpe
    /\ cpe'[entry'].tags = NoTags
    /\ row.tags # NoTags
    /\ filler' = [filler EXCEPT ![f] = [pc |-> "store", at |-> entry', tags |-> row.tags,
                                        late |-> FALSE]]
    /\ UNCHANGED <<database, informs, handler, edits, doomed, suspect>>

StoreTags(f) ==
    /\ filler[f].pc = "store"
    /\ cpe' = [cpe EXCEPT ![filler[f].at].tags = filler[f].tags]
    /\ suspect' = IF filler[f].late THEN suspect \cup {filler[f].at} ELSE suspect \ {filler[f].at}
    /\ filler' = [filler EXCEPT ![f] = NoFill]
    /\ UNCHANGED <<database, informs, table, handler, edits, doomed>>

-----------------------------------------------------------------------------
(* Operators.                                                              *)

\* /admin/cpe/add.
AddCpe(t) ==
    /\ row.id = 0
    /\ Insert(t, 0)
    /\ UNCHANGED <<informs, table, cpe, handler, filler, edits, doomed, suspect>>

\* /admin/cpe/update, the UPDATE: an empty form field leaves its column alone.
UpdateCpe(o, t) ==
    /\ o \notin edits
    /\ row.id # 0
    /\ IF t \in {NoTags, row.tags}
       THEN UNCHANGED <<row, filler>>
       ELSE row' = [row EXCEPT !.tags = t] /\ OvertakeFills
    /\ edits' = edits \cup {o}
    /\ UNCHANGED <<inserted, informs, table, cpe, handler, doomed, suspect>>

\* Mutant: only an entry that is registered is cleared.
Uncached_Registered(c) == IF c.isRegister THEN [c EXCEPT !.tags = NoTags] ELSE c

Uncached(c) == [c EXCEPT !.tags = NoTags]

\* /admin/cpe/update, ClearCwmpCpeCache.
ClearCwmpCpeCache(o) ==
    /\ o \in edits
    /\ edits' = edits \ {o}
    /\ IF entry # 0
       THEN cpe' = [cpe EXCEPT ![entry] = Uncached(@)] /\ UNCHANGED table
       ELSE GetCwmpCpe
    /\ suspect' = suspect \ {entry'}
    /\ UNCHANGED <<database, informs, handler, filler, doomed>>

\* /admin/cpe/delete, ClearCwmpCpe for the serial number of the row.
ClearCwmpCpe(d) ==
    /\ doomed[d] = 0
    /\ row.id # 0
    /\ doomed' = [doomed EXCEPT ![d] = row.id]
    /\ entry' = 0
    /\ handler' = [h \in Handler |-> [handler[h] EXCEPT !.calm = FALSE]]
    /\ UNCHANGED <<database, informs, made, cpe, filler, edits, suspect>>

\* /admin/cpe/delete, the DELETE by id.
DeleteCpe(d) ==
    /\ doomed[d] # 0
    /\ doomed' = [doomed EXCEPT ![d] = 0]
    /\ IF doomed[d] = row.id
       THEN /\ row' = NoRow
            /\ OvertakeFills
            /\ suspect' = suspect \cup ({entry} \ {0})
       ELSE UNCHANGED <<row, filler, suspect>>
    /\ UNCHANGED <<inserted, informs, table, cpe, handler, edits>>

-----------------------------------------------------------------------------
\* Mutant: the comparison is the wrong way round.
IsQuiet_Swapped == row.age < Quiet

IsQuiet == row.age > Quiet

\* SchedUpdateBatchCwmpStatus.
SchedUpdateBatchCwmpStatus ==
    /\ row.id # 0
    /\ IsQuiet
    /\ row.status # "offline"
    /\ row' = [row EXCEPT !.status = "offline"]
    /\ UNCHANGED <<inserted, informs, table, cpe, handler, filler, edits, doomed, suspect>>

\* Mutant: ages grow without limit.
Older_Unbounded(age) == age + 1

Older(age) == IF age > Quiet THEN age ELSE age + 1

Tick ==
    /\ row' = IF row.id = 0 THEN row ELSE [row EXCEPT !.age = Older(@)]
    /\ cpe' = [e \in Entry |-> [cpe[e] EXCEPT !.age = Older(@)]]
    /\ UNCHANGED <<inserted, informs, table, handler, filler, edits, doomed, suspect>>

\* The process dies: table and goroutines are gone, the row stays.
Crash ==
    /\ entry' = 0
    /\ handler' = [h \in Handler |-> Idle]
    /\ filler' = [f \in Filler |-> NoFill]
    /\ edits' = {}
    /\ doomed' = [d \in Deleter |-> 0]
    /\ UNCHANGED <<database, informs, made, cpe, suspect>>

HandlerStep(h) ==
    \/ CheckRegister(h)
    \/ CreateCpe(h)
    \/ FailCreate(h)
    \/ MarkRegister(h)
    \/ UpdateStatus(h)
    \/ NotifyDataUpdate(h)
    \/ OnInformUpdateOnline(h)
    \/ TakeInform(h)
    \/ OnInformUpdate(h)
    \/ Stamp(h)

OperatorStep ==
    \/ \E t \in Tags \cup {NoTags} : AddCpe(t)
    \/ \E o \in Editor, t \in Tags \cup {NoTags} : UpdateCpe(o, t)
    \/ \E o \in Editor : ClearCwmpCpeCache(o)
    \/ \E d \in Deleter : ClearCwmpCpe(d) \/ DeleteCpe(d)

Next ==
    \/ \E h \in Handler, change \in BOOLEAN : Receive(h, change)
    \/ \E h \in Handler : HandlerStep(h)
    \/ OnParamsUpdate
    \/ \E f \in Filler : ReadTags(f) \/ StoreTags(f)
    \/ OperatorStep
    \/ SchedUpdateBatchCwmpStatus
    \/ Tick
    \/ Crash

Spec == Init /\ [][Next]_vars

\* Goroutines run, time passes and the job runs.
FairSpec ==
    /\ Spec
    /\ \A h \in Handler : WF_vars(HandlerStep(h))
    /\ WF_vars(Tick)
    /\ WF_vars(SchedUpdateBatchCwmpStatus)

-----------------------------------------------------------------------------
(* Properties.                                                             *)

\* Cached tags that are not those of the row have a cause: an editor has yet to
\* clear the cache, or the cache was filled from a row that changed before the
\* tags were stored, or the row was deleted under an entry that was made again
\* while the deletion was going on.
StaleTagsHaveCause ==
    (entry # 0 /\ cpe[entry].tags \notin {NoTags, row.tags})
        => edits # {} \/ entry \in suspect

\* Informs handled at the same time may be stored in either order.  But what a
\* goroutine stores is its own Inform, or a later one, or an earlier one that was
\* still being handled when the goroutine began: never one whose handling was over.
DataIsNotOld ==
    [][\A h \in Handler :
          (OnInformUpdate(h) /\ row.id # 0) =>
              row'.data \in handler[h].beside \/ row'.data >= handler[h].msg]_vars

\* A device that has gone silent is shown offline in the end, and stays so.
SilentGoesOffline ==
    (informs = MaxInform) ~> [](row.id = 0 \/ row.status \in {"", "offline"})

\* The Informs that have gone through CheckRegister without a deletion that overlaps, and
\* without an error of the database.
PastRegister(h) == handler[h].calm /\ handler[h].pc \notin {"idle", "register", "insert"}

\* reactui/src/pages/Settings.tsx:122: with the setting enabled the ACS will
\* "Automatically register new CPE devices" - so such an Inform finds or leaves a row.
ConnectedIsRegistered == \A h \in Handler : PastRegister(h) => row.id # 0

\* When such an Inform goes on without a row all the same, registration is off or its
\* entry says that the row exists: that was so once, and nothing but dropping the entry
\* takes it back.  No other Inform, however far it has come, makes it believe so before
\* there has been a row.
UnregisteredHasCause ==
    \A h \in Handler :
        (PastRegister(h) /\ row.id = 0)
            => ~AutoRegister \/ (cpe[handler[h].at].isRegister /\ inserted # 0)
=============================================================================
