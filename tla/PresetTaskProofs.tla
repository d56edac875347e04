--------------------------- MODULE PresetTaskProofs ---------------------------
(***************************************************************************)
(* Theorems about PresetTask, for every set of devices, sessions, batches  *)
(* and preset contents and for every bound.                                *)
(***************************************************************************)
EXTENDS PresetTask, SequenceTheorems, FiniteSetTheorems, WellFoundedInduction, TLAPS

-----------------------------------------------------------------------------
(* How the three ways of writing the table change it.                      *)

LEMMA TableType ==
    ASSUME TypeOK
    PROVE  /\ Len(rows) \in Nat
           /\ DOMAIN rows = 1..Len(rows)
           /\ DOMAIN rows \subseteq RowId
           /\ \A i \in DOMAIN rows : rows[i] \in Row
<1>1. rows \in Seq(Row) /\ Len(rows) \in 0..MaxRow /\ MaxRow \in Nat
  BY ConstantsAssumption DEF TypeOK
<1>2. DOMAIN rows = 1..Len(rows) /\ rows \in [1..Len(rows) -> Row]
  BY <1>1, LenProperties
<1> QED
  BY <1>1, <1>2 DEF RowId

LEMMA InsertTable ==
    ASSUME TypeOK,
           NEW d \in Device, NEW p \in PresetId \cup {NoPreset},
           NEW b \in Batch \cup {NoBatch}, NEW k \in Kind, NEW f \in OnFail,
           NEW offset \in Nat,
           Insert(d, p, b, k, f, offset)
    PROVE  /\ rows' \in Seq(Row)
           /\ Len(rows') = Len(rows) + 1
           /\ Len(rows') \in 0..MaxRow
           /\ DOMAIN rows' = 1..(Len(rows) + 1)
           /\ \A i \in DOMAIN rows : rows'[i] = rows[i]
           /\ rows'[Len(rows) + 1].sn = d
           /\ rows'[Len(rows) + 1].status = "pending"
<1> DEFINE r == [sn |-> d, preset |-> p, batch |-> b, kind |-> k, onfail |-> f,
                 status |-> "pending", at |-> clock + offset]
<1>1. r \in Row
  BY ConstantsAssumption DEF Row, Status, TypeOK
<1>2. rows \in Seq(Row) /\ Len(rows) \in Nat /\ Len(rows) < MaxRow /\ MaxRow \in Nat
  BY TableType, ConstantsAssumption DEF TypeOK, Insert
<1>3. rows' = Append(rows, r)
  BY DEF Insert
<1>4. rows' \in Seq(Row) /\ Len(rows') = Len(rows) + 1
  BY <1>1, <1>2, <1>3
<1>5. DOMAIN rows' = 1..(Len(rows) + 1)
  BY <1>4, LenProperties
<1>6. \A i \in DOMAIN rows : rows'[i] = rows[i]
  BY <1>1, <1>2, <1>3, TableType
<1>7. rows'[Len(rows) + 1] = r
  BY <1>1, <1>2, <1>3
<1>8. r.sn = d /\ r.status = "pending"
  OBVIOUS
<1> QED
  BY <1>2, <1>4, <1>5, <1>6, <1>7, <1>8

LEMMA SetStatusTable ==
    ASSUME TypeOK, NEW i \in DOMAIN rows, NEW st \in Status, SetStatus(i, st)
    PROVE  /\ rows' \in Seq(Row)
           /\ Len(rows') = Len(rows)
           /\ DOMAIN rows' = DOMAIN rows
           /\ \A j \in DOMAIN rows :
                 rows'[j] = IF j = i /\ rows[i].status # "deleted"
                            THEN [rows[i] EXCEPT !.status = st]
                            ELSE rows[j]
<1>1. rows \in Seq(Row) /\ DOMAIN rows = 1..Len(rows) /\ rows[i] \in Row
  BY TableType DEF TypeOK
<1> DEFINE new == IF rows[i].status = "deleted" THEN "deleted" ELSE st
           e == [rows[i] EXCEPT !.status = new]
<1>2. rows' = [rows EXCEPT ![i] = e]
  BY <1>1 DEF SetStatus
<1>3. e \in Row
  BY <1>1 DEF Row, Status
<1>4. /\ rows' \in Seq(Row)
      /\ Len(rows') = Len(rows)
      /\ \A j \in 1..Len(rows) : rows'[j] = IF j = i THEN e ELSE rows[j]
  BY <1>1, <1>2, <1>3, ExceptSeq
<1>5. DOMAIN rows' = DOMAIN rows
  BY <1>1, <1>4, LenProperties
<1>6. rows[i].status = "deleted" => e = rows[i]
  BY <1>1 DEF Row
<1> QED
  BY <1>1, <1>4, <1>5, <1>6

LEMMA CancelTable ==
    ASSUME TypeOK, NEW b, CancelPending(b)
    PROVE  /\ rows' \in Seq(Row)
           /\ Len(rows') = Len(rows)
           /\ DOMAIN rows' = DOMAIN rows
           /\ \A j \in DOMAIN rows :
                 rows'[j] = IF rows[j].status = "pending" /\ rows[j].batch = b
                            THEN [rows[j] EXCEPT !.status = "cancel"]
                            ELSE rows[j]
<1>1. rows \in Seq(Row) /\ Len(rows) \in Nat /\ DOMAIN rows = 1..Len(rows)
      /\ \A i \in DOMAIN rows : rows[i] \in Row
  BY TableType DEF TypeOK
<1>2. \A j \in DOMAIN rows : rows'[j] = IF rows[j].status = "pending" /\ rows[j].batch = b
                            THEN [rows[j] EXCEPT !.status = "cancel"]
                            ELSE rows[j]
  BY DEF CancelPending, Cancelled
<1>3. ASSUME NEW j \in DOMAIN rows
      PROVE  rows'[j] \in Row
  <2>1. rows[j] \in Row
    BY <1>1
  <2>2. [rows[j] EXCEPT !.status = "cancel"] \in Row
    BY <2>1 DEF Row, Status
  <2> QED
    BY <1>2, <2>1, <2>2
<1>4. rows' \in [1..Len(rows) -> Row]
  BY <1>1, <1>3 DEF CancelPending
<1>5. rows' \in Seq(Row)
  BY <1>1, <1>4, SeqDef
<1>6. Len(rows') = Len(rows)
  BY <1>1, <1>4, <1>5, LenProperties
<1> QED
  BY <1>1, <1>2, <1>4, <1>5, <1>6

-----------------------------------------------------------------------------
(* Types.                                                                  *)

\* What TypeOK says of everything but the table.
LEMMA JobTypes ==
    ASSUME TypeOK, NEW b \in Batch
    PROVE  /\ job[b] \in Job
           /\ job[b].todo # <<>> => /\ Current(b) \in Content
                                    /\ Tail(job[b].todo) \in Seq(Content)
<1>1. job[b] \in Job
  BY DEF TypeOK
<1>2. job[b].todo \in Seq(Content)
  BY <1>1 DEF Job
<1> QED
  BY <1>1, <1>2, HeadTailProperties DEF Current

LEMMA InitType == Init => TypeOK
<1> SUFFICES ASSUME Init PROVE TypeOK
  OBVIOUS
<1>1. rows \in Seq(Row) /\ Len(rows) = 0 /\ DOMAIN rows = {}
  BY DEF Init
<1>2. (CHOOSE d \in Device : TRUE) \in Device
  BY ConstantsAssumption
<1>3. job \in [Batch -> Job]
  BY <1>2 DEF Init, Job
<1> QED
  BY <1>1, <1>3, ConstantsAssumption DEF Init, TypeOK

LEMMA JobStepType ==
    ASSUME TypeOK, JobStep
    PROVE  TypeOK'
<1> USE ConstantsAssumption
<1>1. ASSUME NEW b \in Batch, NEW d \in Device, StartJob(b, d)
      PROVE  TypeOK'
  <2>1. PICK c \in Contents :
          job' = [job EXCEPT ![b] = Doing(d, c)]
    BY <1>1 DEF StartJob
  <2>2. Doing(d, c) \in Job
    BY DEF Job, Doing
  <2>3. job' \in [Batch -> Job]
    BY <2>1, <2>2 DEF TypeOK
  <2> QED
    BY <1>1, <2>3 DEF TypeOK, StartJob, db, cpe
<1>2. ASSUME NEW b \in Batch, NEW d \in Device, NEW p \in PresetId, Execute(b, d, p)
      PROVE  TypeOK'
  <2>1. PICK c \in Contents :
          job' = [job EXCEPT ![b] = Doing(d, c)]
    BY <1>2 DEF Execute
  <2>2. Doing(d, c) \in Job
    BY DEF Job, Doing
  <2>3. job' \in [Batch -> Job]
    BY <2>1, <2>2 DEF TypeOK
  <2> QED
    BY <1>2, <2>3 DEF TypeOK, Execute, db, cpe
<1>3. ASSUME NEW b \in Batch, CreateStep(b)
      PROVE  TypeOK'
  <2>1. job[b] \in Job /\ Current(b) \in Content
    BY <1>3, JobTypes DEF CreateStep
  <2>2. [job[b] EXCEPT !.next = @ + 1] \in Job
    BY <2>1 DEF Job
  <2>3. job' \in [Batch -> Job]
    BY <1>3, <2>2 DEF CreateStep, TypeOK
  <2>4. CASE rows' = rows
    BY <1>3, <2>3, <2>4 DEF CreateStep, TypeOK, cpe
  <2>5. CASE rows' # rows
    <3> DEFINE step == Current(b).steps[job[b].next]
    <3>1. step \in Step
      <4>1. Current(b).steps \in Seq(Step) /\ job[b].next \in Nat \ {0}
        BY <2>1 DEF Content, Job
      <4>2. job[b].next \in 1..Len(Current(b).steps)
        BY <1>3, <4>1 DEF CreateStep
      <4> QED
        BY <4>1, <4>2, ElementOfSeq
    <3>2. Insert(job[b].sn, Current(b).id, b, step.kind, step.onfail, 0)
      BY <1>3, <2>5 DEF CreateStep
    <3>3. /\ job[b].sn \in Device /\ Current(b).id \in PresetId
          /\ step.kind \in Kind /\ step.onfail \in OnFail
      BY <2>1, <3>1 DEF Job, Content, Step, Kind
    <3>4. /\ rows' \in Seq(Row)
          /\ Len(rows') \in 0..MaxRow
          /\ DOMAIN rows' = 1..(Len(rows) + 1)
      BY <3>2, <3>3, InsertTable
    <3>5. DOMAIN rows \subseteq DOMAIN rows'
      BY <3>4, TableType
    <3> QED
      BY <1>3, <2>3, <3>4, <3>5 DEF CreateStep, TypeOK, cpe
  <2> QED
    BY <2>4, <2>5
<1>4. ASSUME NEW b \in Batch, BadContent(b)
      PROVE  TypeOK'
  <2>1. job[b] \in Job
    BY JobTypes
  <2>2. [job[b] EXCEPT !.todo = <<>>] \in Job
    BY <2>1, EmptySeq DEF Job
  <2>3. job' \in [Batch -> Job]
    BY <1>4, <2>2 DEF BadContent, TypeOK
  <2> QED
    BY <1>4, <2>3 DEF BadContent, TypeOK, db, cpe
<1>5. ASSUME NEW b \in Batch, SpawnSet(b)
      PROVE  TypeOK'
  <2>1. job[b] \in Job /\ Current(b) \in Content /\ Tail(job[b].todo) \in Seq(Content)
    BY <1>5, JobTypes DEF SpawnSet
  <2>2. Doing(job[b].sn, Tail(job[b].todo)) \in Job
    BY <2>1 DEF Job, Doing
  <2>3. job' \in [Batch -> Job]
    BY <1>5, <2>2 DEF SpawnSet, TypeOK
  <2>4. [sn |-> job[b].sn, batch |-> b, preset |-> Current(b).id] \in Async
    BY <2>1 DEF Job, Content, Async
  <2>5. async' \subseteq Async
    BY <1>5, <2>4 DEF SpawnSet, TypeOK
  <2> QED
    BY <1>5, <2>3, <2>5 DEF SpawnSet, TypeOK, db, cpe
<1>6. ASSUME NEW a \in async, CreateSet(a)
      PROVE  TypeOK'
  <2>1. a \in Async
    BY DEF TypeOK
  <2>2. CASE rows' = rows
    BY <1>6, <2>2 DEF CreateSet, TypeOK, cpe
  <2>3. CASE rows' # rows
    <3>1. Insert(a.sn, a.preset, a.batch, "SetParameterValues", "ignore", 0)
      BY <1>6, <2>3 DEF CreateSet
    <3>2. /\ a.sn \in Device /\ a.preset \in PresetId /\ a.batch \in Batch
          /\ "SetParameterValues" \in Kind /\ "ignore" \in OnFail
      BY <2>1 DEF Async, Kind, OnFail
    <3>3. /\ rows' \in Seq(Row)
          /\ Len(rows') \in 0..MaxRow
          /\ DOMAIN rows' = 1..(Len(rows) + 1)
      BY <3>1, <3>2, InsertTable
    <3>4. DOMAIN rows \subseteq DOMAIN rows'
      BY <3>3, TableType
    <3> QED
      BY <1>6, <3>3, <3>4 DEF CreateSet, TypeOK, cpe
  <2> QED
    BY <2>2, <2>3
<1> QED
  BY <1>1, <1>2, <1>3, <1>4, <1>5, <1>6 DEF JobStep

LEMMA OperatorStepType ==
    ASSUME TypeOK, OperatorStep
    PROVE  TypeOK'
<1> USE ConstantsAssumption
<1>1. ASSUME NEW d \in Device, NEW order \in 0..MaxOrder, CreateWifi(d, order)
      PROVE  TypeOK'
  <2>1. "Wifi" \in Kind /\ "ignore" \in OnFail /\ order \in Nat
    BY DEF Kind, OnFail
  <2>2. Insert(d, NoPreset, NoBatch, "Wifi", "ignore", order)
    BY <1>1 DEF CreateWifi
  <2>3. /\ rows' \in Seq(Row)
        /\ Len(rows') \in 0..MaxRow
        /\ DOMAIN rows' = 1..(Len(rows) + 1)
    BY <2>1, <2>2, InsertTable
  <2>4. DOMAIN rows \subseteq DOMAIN rows'
    BY <2>3, TableType
  <2> QED
    BY <1>1, <2>3, <2>4 DEF CreateWifi, TypeOK, server, cpe
<1>2. ASSUME NEW d \in Device, CreateReboot(d)
      PROVE  TypeOK'
  <2>1. "Reboot" \in Kind /\ "ignore" \in OnFail
    BY DEF Kind, OnFail
  <2>2. Insert(d, NoPreset, NoBatch, "Reboot", "ignore", 0)
    BY <1>2 DEF CreateReboot
  <2>3. /\ rows' \in Seq(Row)
        /\ Len(rows') \in 0..MaxRow
        /\ DOMAIN rows' = 1..(Len(rows) + 1)
    BY <2>1, <2>2, InsertTable
  <2>4. DOMAIN rows \subseteq DOMAIN rows'
    BY <2>3, TableType
  <2> QED
    BY <1>2, <2>3, <2>4 DEF CreateReboot, TypeOK, server, cpe
<1>3. ASSUME NEW i \in DOMAIN rows, DeleteRow(i)
      PROVE  TypeOK'
  <2>1. "deleted" \in Status
    BY DEF Status
  <2>2. rows' \in Seq(Row) /\ Len(rows') = Len(rows) /\ DOMAIN rows' = DOMAIN rows
    BY <1>3, <2>1, SetStatusTable DEF DeleteRow
  <2> QED
    BY <1>3, <2>2 DEF DeleteRow, TypeOK, server, cpe
<1> QED
  BY <1>1, <1>2, <1>3 DEF OperatorStep

LEMMA SessionStepType ==
    ASSUME TypeOK, SessionStep
    PROVE  TypeOK'
<1> USE ConstantsAssumption
<1>1. ASSUME NEW s \in Session, Select(s)
      PROVE  TypeOK'
  <2>1. PICK i \in DOMAIN rows : pick' = [pick EXCEPT ![s] = i]
    BY <1>1 DEF Select
  <2>2. i \in RowId
    BY TableType
  <2> QED
    BY <1>1, <2>1, <2>2 DEF Select, TypeOK, db, cpe
<1>2. ASSUME NEW s \in Session, Mark(s)
      PROVE  TypeOK'
  <2>1. pick[s] \in DOMAIN rows /\ pick[s] \in RowId /\ "running" \in Status
    BY <1>2 DEF Mark, TypeOK, Status
  <2>2. rows' \in Seq(Row) /\ Len(rows') = Len(rows) /\ DOMAIN rows' = DOMAIN rows
    BY <1>2, <2>1, SetStatusTable DEF Mark, MarkRunning
  <2>3. sent' \in [RowId -> Nat]
    BY <1>2, <2>1 DEF Mark, TypeOK
  <2>4. held' \subseteq DOMAIN rows
    BY <1>2, <2>1 DEF Mark, TypeOK
  <2> QED
    BY <1>2, <2>2, <2>3, <2>4 DEF Mark, TypeOK
<1> QED
  BY <1>1, <1>2 DEF SessionStep

LEMMA CpeStepType ==
    ASSUME TypeOK, CpeStep
    PROVE  TypeOK'
<1> USE ConstantsAssumption
<1>1. ASSUME NEW i \in held, NEW ok \in BOOLEAN, AnswerSet(i, ok)
      PROVE  TypeOK'
  <2>1. i \in DOMAIN rows /\ (IF ok THEN "success" ELSE "failure") \in Status
    BY DEF TypeOK, Status
  <2>2. rows' \in Seq(Row) /\ Len(rows') = Len(rows) /\ DOMAIN rows' = DOMAIN rows
    <3>1. CASE rows[i].kind = "SetParameterValues"
      BY <1>1, <2>1, <3>1, SetStatusTable DEF AnswerSet
    <3>2. CASE rows[i].kind # "SetParameterValues"
      BY <1>1, <3>2 DEF AnswerSet, TypeOK
    <3> QED
      BY <3>1, <3>2
  <2> QED
    BY <1>1, <2>2 DEF AnswerSet, TypeOK, server
<1>2. ASSUME NEW i \in held, AnswerFault(i)
      PROVE  TypeOK'
  BY <1>2 DEF AnswerFault, TypeOK, db, server
<1>3. ASSUME NEW i \in held, NEW fault \in BOOLEAN, Report_(i, fault)
      PROVE  TypeOK'
  <2>1. i \in DOMAIN rows /\ i \in RowId
    BY TableType DEF TypeOK
  <2> QED
    BY <1>3, <2>1 DEF Report_, TypeOK, db, server, Report
<1>4. ASSUME NEW r \in reports, RecvReport(r)
      PROVE  TypeOK'
  <2>1. r \in Report /\ r.row \in DOMAIN rows
    BY DEF TypeOK
  <2>2. [row |-> r.row, fault |-> r.fault, pc |-> "status"] \in Update
    BY <2>1 DEF Report, Update
  <2> QED
    BY <1>4, <2>1, <2>2 DEF RecvReport, TypeOK, db
<1> QED
  BY <1>1, <1>2, <1>3, <1>4 DEF CpeStep

LEMMA UpdateStepType ==
    ASSUME TypeOK, UpdateStep
    PROVE  TypeOK'
<1> USE ConstantsAssumption
<1>1. ASSUME NEW u \in updates, UpdateStatus(u)
      PROVE  TypeOK'
  <2>1. u \in Update /\ u.row \in DOMAIN rows /\ Outcome(u.fault) \in Status
    BY DEF TypeOK, Outcome, Status
  <2>2. rows' \in Seq(Row) /\ Len(rows') = Len(rows) /\ DOMAIN rows' = DOMAIN rows
    BY <1>1, <2>1, SetStatusTable DEF UpdateStatus
  <2>3. [u EXCEPT !.pc = "cancel"] \in Update /\ [u EXCEPT !.pc = "cancel"].row = u.row
    BY <2>1 DEF Update
  <2>4. updates' \subseteq updates \cup {[u EXCEPT !.pc = "cancel"]}
    BY <1>1 DEF UpdateStatus
  <2>5. updates' \subseteq Update /\ \A v \in updates' : v.row \in DOMAIN rows
    BY <2>1, <2>3, <2>4 DEF TypeOK
  <2>6. faulted' \subseteq DOMAIN rows
    BY <1>1, <2>1 DEF UpdateStatus, TypeOK
  <2> QED
    BY <1>1, <2>2, <2>5, <2>6 DEF UpdateStatus, TypeOK, cpe
<1>2. ASSUME NEW u \in updates, UpdateBatch(u)
      PROVE  TypeOK'
  <2>1. rows' \in Seq(Row) /\ Len(rows') = Len(rows) /\ DOMAIN rows' = DOMAIN rows
    BY <1>2, CancelTable DEF UpdateBatch
  <2> QED
    BY <1>2, <2>1 DEF UpdateBatch, TypeOK, cpe
<1> QED
  BY <1>1, <1>2 DEF UpdateStep

LEMMA CrashType ==
    ASSUME TypeOK, Crash
    PROVE  TypeOK'
<1> USE ConstantsAssumption
<1>1. ASSUME NEW b \in Batch
      PROVE  [job[b] EXCEPT !.todo = <<>>] \in Job
  <2>1. job[b] \in Job
    BY JobTypes
  <2> QED
    BY <2>1, EmptySeq DEF Job
<1>2. job' \in [Batch -> Job]
  BY <1>1 DEF Crash
<1> QED
  BY <1>2 DEF Crash, TypeOK, db, cpe

LEMMA TypeCorrectStep == TypeOK /\ [Next]_vars => TypeOK'
<1> SUFFICES ASSUME TypeOK, [Next]_vars PROVE TypeOK'
  OBVIOUS
<1>1. CASE Tick
  BY <1>1, ConstantsAssumption DEF Tick, TypeOK, server, cpe
<1>2. CASE UNCHANGED vars
  BY <1>2 DEF vars, TypeOK
<1> QED
  BY <1>1, <1>2, JobStepType, OperatorStepType, SessionStepType, CpeStepType,
     UpdateStepType, CrashType DEF Next

\* Every state of PresetTask is well typed: in particular every row a session has
\* selected, the CPE holds or a TransferComplete names is a row of the table.
THEOREM TypeCorrect == Spec => []TypeOK
<1>1. Init => TypeOK
  BY InitType
<1> QED
  BY <1>1, TypeCorrectStep, PTL DEF Spec

-----------------------------------------------------------------------------
(* How a step may change the table.                                        *)

SameButStatus(i) ==
    /\ rows'[i].sn = rows[i].sn
    /\ rows'[i].batch = rows[i].batch
    /\ rows'[i].onfail = rows[i].onfail
    /\ rows'[i].at = rows[i].at

\* The only ways a row that exists gets another status.
StatusStep(i) ==
    \/ rows'[i].status = rows[i].status
    \/ rows'[i].status = "deleted"
    \/ /\ rows'[i].status = "running"
       /\ \E s \in Session : pick[s] = i
    \/ /\ rows'[i].status \in Settled
       /\ rows[i].status # "deleted"
       /\ i \in held \/ \E u \in updates : u.row = i
    \/ /\ rows[i].status = "pending"
       /\ rows'[i].status = "cancel"
       /\ \E u \in updates : u.pc = "cancel" /\ rows[u.row].batch = rows[i].batch

TableStep ==
    /\ DOMAIN rows \subseteq DOMAIN rows'
    /\ \A i \in DOMAIN rows' \ DOMAIN rows :
          i = Len(rows) + 1 /\ rows'[i].status = "pending"
    /\ \A i \in DOMAIN rows : SameButStatus(i) /\ StatusStep(i)

LEMMA SetStatusStep ==
    ASSUME TypeOK, NEW i \in DOMAIN rows, NEW st \in Status, SetStatus(i, st)
    PROVE  /\ DOMAIN rows' = DOMAIN rows
           /\ \A j \in DOMAIN rows : SameButStatus(j)
           /\ \A j \in DOMAIN rows : j # i => rows'[j].status = rows[j].status
           /\ rows'[i].status = IF rows[i].status = "deleted" THEN "deleted" ELSE st
<1>1. rows[i] \in Row
  BY TableType
<1>2. [rows[i] EXCEPT !.status = st].status = st
  BY <1>1 DEF Row
<1>3. DOMAIN rows' = DOMAIN rows
      /\ \A j \in DOMAIN rows :
            rows'[j] = IF j = i /\ rows[i].status # "deleted"
                       THEN [rows[i] EXCEPT !.status = st]
                       ELSE rows[j]
  BY SetStatusTable
<1> QED
  BY <1>1, <1>2, <1>3 DEF SameButStatus, Row

LEMMA InsertStep ==
    ASSUME TypeOK,
           NEW d \in Device, NEW p \in PresetId \cup {NoPreset},
           NEW b \in Batch \cup {NoBatch}, NEW k \in Kind, NEW f \in OnFail,
           NEW offset \in Nat,
           Insert(d, p, b, k, f, offset)
    PROVE  TableStep
<1>1. /\ DOMAIN rows' = 1..(Len(rows) + 1)
      /\ \A i \in DOMAIN rows : rows'[i] = rows[i]
      /\ rows'[Len(rows) + 1].status = "pending"
  BY InsertTable
<1>2. DOMAIN rows = 1..Len(rows) /\ Len(rows) \in Nat
  BY TableType
<1> QED
  BY <1>1, <1>2 DEF TableStep, SameButStatus, StatusStep

LEMMA Evolution ==
    ASSUME TypeOK, [Next]_vars
    PROVE  TableStep /\ clock' \in Nat /\ clock <= clock'
<1> USE ConstantsAssumption
<1>0. ASSUME rows' = rows PROVE TableStep
  BY <1>0 DEF TableStep, SameButStatus, StatusStep
<1>1. clock' \in Nat /\ clock <= clock'
  <2>1. clock \in Nat /\ (clock' = clock \/ clock' = clock + 1)
    BY DEF TypeOK, Next, JobStep, StartJob, Execute, CreateStep, BadContent, SpawnSet,
           CreateSet, OperatorStep, CreateWifi, CreateReboot, DeleteRow, SessionStep,
           Select, Mark, CpeStep, AnswerSet, AnswerFault, Report_, RecvReport, UpdateStep,
           UpdateStatus, UpdateBatch, Tick, Crash, db, vars
  <2> QED
    BY <2>1
<1> SUFFICES TableStep
  BY <1>1
<1>2. CASE JobStep
  <2>1. ASSUME NEW b \in Batch, CreateStep(b), rows' # rows
        PROVE  TableStep
    <3> DEFINE step == Current(b).steps[job[b].next]
    <3>1. job[b] \in Job /\ Current(b) \in Content
      BY <2>1, JobTypes DEF CreateStep
    <3>2. Current(b).steps \in Seq(Step) /\ job[b].next \in Nat \ {0}
      BY <3>1 DEF Content, Job
    <3>3. job[b].next \in 1..Len(Current(b).steps)
      BY <2>1, <3>2 DEF CreateStep
    <3>4. step \in Step
      BY <3>2, <3>3, ElementOfSeq
    <3>5. Insert(job[b].sn, Current(b).id, b, step.kind, step.onfail, 0)
      BY <2>1 DEF CreateStep
    <3>6. /\ job[b].sn \in Device /\ Current(b).id \in PresetId
          /\ step.kind \in Kind /\ step.onfail \in OnFail
      BY <3>1, <3>4 DEF Job, Content, Step, Kind
    <3> QED
      BY <3>5, <3>6, InsertStep
  <2>2. ASSUME NEW a \in async, CreateSet(a), rows' # rows
        PROVE  TableStep
    <3>1. Insert(a.sn, a.preset, a.batch, "SetParameterValues", "ignore", 0)
      BY <2>2 DEF CreateSet
    <3>2. a \in Async
      BY DEF TypeOK
    <3>3. /\ a.sn \in Device /\ a.preset \in PresetId /\ a.batch \in Batch
          /\ "SetParameterValues" \in Kind /\ "ignore" \in OnFail
      BY <3>2 DEF Async, Kind, OnFail
    <3> QED
      BY <3>1, <3>3, InsertStep
  <2> QED
    BY <1>0, <1>2, <2>1, <2>2 DEF JobStep, StartJob, Execute, BadContent, SpawnSet, db
<1>3. CASE OperatorStep
  <2>1. ASSUME NEW d \in Device, NEW order \in 0..MaxOrder, CreateWifi(d, order)
        PROVE  TableStep
    <3>1. "Wifi" \in Kind /\ "ignore" \in OnFail /\ order \in Nat
      BY DEF Kind, OnFail
    <3>2. Insert(d, NoPreset, NoBatch, "Wifi", "ignore", order)
      BY <2>1 DEF CreateWifi
    <3> QED
      BY <3>1, <3>2, InsertStep
  <2>2. ASSUME NEW d \in Device, CreateReboot(d)
        PROVE  TableStep
    <3>1. "Reboot" \in Kind /\ "ignore" \in OnFail
      BY DEF Kind, OnFail
    <3>2. Insert(d, NoPreset, NoBatch, "Reboot", "ignore", 0)
      BY <2>2 DEF CreateReboot
    <3> QED
      BY <3>1, <3>2, InsertStep
  <2>3. ASSUME NEW i \in DOMAIN rows, DeleteRow(i)
        PROVE  TableStep
    <3>1. "deleted" \in Status
      BY DEF Status
    <3>2. /\ DOMAIN rows' = DOMAIN rows
          /\ \A j \in DOMAIN rows : SameButStatus(j)
          /\ \A j \in DOMAIN rows : j # i => rows'[j].status = rows[j].status
          /\ rows'[i].status = "deleted"
      BY <2>3, <3>1, SetStatusStep DEF DeleteRow
    <3> QED
      BY <3>2 DEF TableStep, StatusStep
  <2> QED
    BY <1>3, <2>1, <2>2, <2>3 DEF OperatorStep
<1>4. CASE SessionStep
  <2>1. ASSUME NEW s \in Session, Mark(s)
        PROVE  TableStep
    <3>1. pick[s] \in DOMAIN rows /\ "running" \in Status
      BY <2>1 DEF Mark, TypeOK, Status
    <3>2. /\ DOMAIN rows' = DOMAIN rows
          /\ \A j \in DOMAIN rows : SameButStatus(j)
          /\ \A j \in DOMAIN rows : j # pick[s] => rows'[j].status = rows[j].status
          /\ rows'[pick[s]].status \in {"deleted", "running"}
      BY <2>1, <3>1, SetStatusStep DEF Mark, MarkRunning
    <3> QED
      BY <3>2 DEF TableStep, StatusStep
  <2> QED
    BY <1>0, <1>4, <2>1 DEF SessionStep, Select, db
<1>5. CASE CpeStep
  <2>1. ASSUME NEW i \in held, NEW ok \in BOOLEAN, AnswerSet(i, ok), rows' # rows
        PROVE  TableStep
    <3> DEFINE st == IF ok THEN "success" ELSE "failure"
    <3>1. i \in DOMAIN rows /\ st \in Status /\ st \in Settled /\ SetStatus(i, st)
      BY <2>1 DEF AnswerSet, TypeOK, Status, Settled
    <3> HIDE DEF st
    <3>2. /\ DOMAIN rows' = DOMAIN rows
          /\ \A j \in DOMAIN rows : SameButStatus(j)
          /\ \A j \in DOMAIN rows : j # i => rows'[j].status = rows[j].status
          /\ rows'[i].status = IF rows[i].status = "deleted" THEN "deleted" ELSE st
      BY <3>1, SetStatusStep
    <3> QED
      BY <3>1, <3>2 DEF TableStep, StatusStep
  <2> QED
    BY <1>0, <1>5, <2>1 DEF CpeStep, AnswerFault, Report_, RecvReport, db
<1>6. CASE UpdateStep
  <2>1. ASSUME NEW u \in updates, UpdateStatus(u)
        PROVE  TableStep
    <3>1. /\ u.row \in DOMAIN rows
          /\ Outcome(u.fault) \in Status
          /\ Outcome(u.fault) \in Settled
          /\ SetStatus(u.row, Outcome(u.fault))
      BY <2>1 DEF UpdateStatus, TypeOK, Status, Settled, Outcome
    <3>2. /\ DOMAIN rows' = DOMAIN rows
          /\ \A j \in DOMAIN rows : SameButStatus(j)
          /\ \A j \in DOMAIN rows : j # u.row => rows'[j].status = rows[j].status
          /\ rows'[u.row].status = IF rows[u.row].status = "deleted"
                                   THEN "deleted" ELSE Outcome(u.fault)
      BY <3>1, SetStatusStep
    <3> QED
      BY <3>1, <3>2 DEF TableStep, StatusStep
  <2>2. ASSUME NEW u \in updates, UpdateBatch(u)
        PROVE  TableStep
    <3>1. u.pc = "cancel" /\ CancelPending(rows[u.row].batch)
      BY <2>2 DEF UpdateBatch
    <3>2. /\ DOMAIN rows' = DOMAIN rows
          /\ \A j \in DOMAIN rows :
                rows'[j] = IF rows[j].status = "pending" /\ rows[j].batch = rows[u.row].batch
                           THEN [rows[j] EXCEPT !.status = "cancel"]
                           ELSE rows[j]
      BY <3>1, CancelTable
    <3>3. ASSUME NEW j \in DOMAIN rows
          PROVE  SameButStatus(j) /\ StatusStep(j)
      <4>1. rows[j] \in Row
        BY TableType
      <4> QED
        BY <3>1, <3>2, <4>1 DEF SameButStatus, StatusStep, Row
    <3> QED
      BY <3>2, <3>3 DEF TableStep
  <2> QED
    BY <1>6, <2>1, <2>2 DEF UpdateStep
<1>7. CASE Tick \/ Crash \/ UNCHANGED vars
  BY <1>0, <1>7 DEF Tick, Crash, db, vars
<1> QED
  BY <1>1, <1>2, <1>3, <1>4, <1>5, <1>6, <1>7 DEF Next

-----------------------------------------------------------------------------
(* Whatever the CPE holds or has reported on was marked before it was sent, *)
(* and no later step makes it pending again.                               *)

Sent ==
    held \cup {r.row : r \in reports} \cup {u.row : u \in updates} \cup faulted

Marked(i) == rows[i].status \in {"running", "success", "failure", "deleted"}

SentIsMarked == \A i \in Sent : i \in DOMAIN rows /\ Marked(i)

LEMMA MarkedIsStable ==
    ASSUME TypeOK, [Next]_vars, NEW i \in DOMAIN rows, Marked(i)
    PROVE  i \in DOMAIN rows' /\ Marked(i)'
<1>1. TableStep
  BY Evolution
<1> QED
  BY <1>1 DEF TableStep, StatusStep, Marked, Settled

LEMMA SentGrowsByMark ==
    ASSUME TypeOK, [Next]_vars, NEW i \in Sent', i \notin Sent
    PROVE  \E s \in Session : Mark(s) /\ pick[s] = i
<1> USE DEF Sent
<1>1. ASSUME NEW s \in Session, Mark(s), ~(pick[s] = i)
      PROVE  FALSE
  <2>1. held' \subseteq held \cup {pick[s]}
    BY <1>1 DEF Mark
  <2> QED
    BY <1>1, <2>1 DEF Mark
<1>2. ASSUME NEW j \in held, NEW fault \in BOOLEAN, Report_(j, fault)
      PROVE  FALSE
  <2>1. held' \subseteq held /\ updates' = updates /\ faulted' = faulted
    BY <1>2 DEF Report_, server
  <2>2. \A r \in reports' : r \in reports \/ r.row = j
    BY <1>2 DEF Report_
  <2> QED
    BY <2>1, <2>2
<1>3. ASSUME NEW r \in reports, RecvReport(r)
      PROVE  FALSE
  <2>1. held' = held /\ reports' \subseteq reports /\ faulted' = faulted
    BY <1>3 DEF RecvReport
  <2>2. \A u \in updates' : u \in updates \/ u.row = r.row
    BY <1>3 DEF RecvReport
  <2> QED
    BY <2>1, <2>2
<1>4. ASSUME NEW u \in updates, UpdateStatus(u)
      PROVE  FALSE
  <2>1. u \in Update
    BY DEF TypeOK
  <2>2. [u EXCEPT !.pc = "cancel"].row = u.row
    BY <2>1 DEF Update
  <2>3. held' = held /\ reports' = reports /\ faulted' \subseteq faulted \cup {u.row}
    BY <1>4 DEF UpdateStatus, cpe
  <2>4. \A v \in updates' : v \in updates \/ v.row = u.row
    BY <1>4, <2>2 DEF UpdateStatus
  <2> QED
    BY <2>3, <2>4
<1>5. ASSUME NEW u \in updates, UpdateBatch(u)
      PROVE  FALSE
  BY <1>5 DEF UpdateBatch, cpe
<1>6. ASSUME NEW s \in Session, Select(s)
      PROVE  FALSE
  BY <1>6 DEF Select, cpe
<1>7. CASE JobStep
  BY <1>7 DEF JobStep, StartJob, Execute, CreateStep, BadContent, SpawnSet, CreateSet, cpe
<1>8. CASE OperatorStep
  BY <1>8 DEF OperatorStep, CreateWifi, CreateReboot, DeleteRow, server, cpe
<1>9. ASSUME NEW j \in held, NEW ok \in BOOLEAN, AnswerSet(j, ok) \/ AnswerFault(j)
      PROVE  FALSE
  BY <1>9 DEF AnswerSet, AnswerFault, server
<1>10. CASE Tick \/ Crash \/ UNCHANGED vars
  BY <1>10 DEF Tick, Crash, server, cpe, vars
<1> QED
  BY <1>1, <1>2, <1>3, <1>4, <1>5, <1>6, <1>7, <1>8, <1>9, <1>10
     DEF Next, SessionStep, CpeStep, UpdateStep

LEMMA SentIsMarkedStep == TypeOK /\ SentIsMarked /\ [Next]_vars => SentIsMarked'
<1> SUFFICES ASSUME TypeOK, SentIsMarked, [Next]_vars, NEW i \in Sent'
             PROVE  i \in DOMAIN rows' /\ Marked(i)'
  BY DEF SentIsMarked
<1>1. CASE i \in Sent
  BY <1>1, MarkedIsStable DEF SentIsMarked
<1>2. CASE i \notin Sent
  <2>1. PICK s \in Session : Mark(s) /\ pick[s] = i
    BY <1>2, SentGrowsByMark
  <2>2. i \in DOMAIN rows /\ "running" \in Status /\ SetStatus(i, "running")
    BY <2>1 DEF TypeOK, Mark, MarkRunning, Status
  <2>3. DOMAIN rows' = DOMAIN rows /\ rows'[i].status \in {"running", "deleted"}
    BY <2>2, SetStatusStep
  <2> QED
    BY <2>2, <2>3 DEF Marked
<1> QED
  BY <1>1, <1>2

LEMMA SentIsMarkedInit == Init => SentIsMarked
BY DEF Init, SentIsMarked, Sent

LEMMA SentIsMarkedInvariant == Spec => []SentIsMarked
<1> QED
  BY SentIsMarkedInit, SentIsMarkedStep, TypeCorrect, PTL DEF Spec

-----------------------------------------------------------------------------
(* Order.                                                                  *)

LEMMA StartInOrderStep ==
    TypeOK /\ SentIsMarked /\ StartInOrder /\ [Next]_vars => StartInOrder'
<1> SUFFICES ASSUME TypeOK, SentIsMarked, StartInOrder, [Next]_vars,
                    NEW i \in DOMAIN rows', NEW j \in DOMAIN rows',
                    i < j, rows'[i].sn = rows'[j].sn, rows'[i].at <= rows'[j].at,
                    rows'[i].status = "pending", Fresh(i)'
             PROVE  ~Begun(j)'
  BY DEF StartInOrder
<1>1. TableStep /\ clock' \in Nat /\ clock <= clock' /\ TypeOK'
  BY Evolution, TypeCorrectStep
<1>2. DOMAIN rows = 1..Len(rows) /\ Len(rows) \in Nat
      /\ \A k \in DOMAIN rows : rows[k] \in Row
  BY TableType
<1>3. i \in DOMAIN rows
  BY <1>1, <1>2 DEF TableStep
<1>4. rows[i].status = "pending" /\ rows[i].sn = rows'[i].sn /\ rows[i].at = rows'[i].at
  BY <1>1, <1>3 DEF TableStep, SameButStatus, StatusStep, Settled
<1>5. Fresh(i)
  <2>1. rows[i].at \in Nat /\ Window \in Nat /\ clock \in Nat
    BY <1>2, <1>3, ConstantsAssumption DEF TypeOK, Row
  <2> QED
    BY <1>1, <1>4, <2>1 DEF Fresh
<1>6. ASSUME NEW s \in Session, pick'[s] = j, pick[s] # j
      PROVE  Select(s) /\ j \in DOMAIN rows /\ IsLatest(j, Serves[s])
  <2>1. pick' # pick /\ j # 0
    BY <1>1, <1>2, <1>6 DEF TypeOK, TableStep
  <2>2. PICK t \in Session : Select(t) \/ Mark(t)
    BY <1>1, <1>2, <1>6, <2>1
       DEF TypeOK, Next, JobStep, StartJob, Execute, CreateStep, BadContent, SpawnSet,
           CreateSet, OperatorStep, CreateWifi, CreateReboot, DeleteRow, SessionStep,
           CpeStep, AnswerSet, AnswerFault, Report_, RecvReport, UpdateStep,
           UpdateStatus, UpdateBatch, Tick, Crash, server, vars
  <2>3. CASE Mark(t)
    BY <1>6, <2>1, <2>3 DEF Mark, TypeOK
  <2>4. CASE Select(t)
    <3>1. PICK k \in DOMAIN rows :
             IsLatest(k, Serves[t]) /\ pick' = [pick EXCEPT ![t] = k]
      BY <2>4 DEF Select
    <3>2. t = s /\ k = j
      BY <1>6, <3>1 DEF TypeOK
    <3> QED
      BY <2>4, <3>1, <3>2
  <2> QED
    BY <2>2, <2>3, <2>4
<1>7. CASE j \in DOMAIN rows
  <2>1. rows[j].sn = rows'[j].sn /\ rows[j].at = rows'[j].at
    BY <1>1, <1>7 DEF TableStep, SameButStatus
  <2>2. ~Begun(j)
    BY <1>3, <1>4, <1>5, <1>7, <2>1 DEF StartInOrder
  <2>3. rows'[j].status \notin {"running"} \cup Settled
    BY <1>1, <1>7, <2>2 DEF TableStep, StatusStep, Begun, Settled, SentIsMarked, Sent, Marked
  <2>4. ASSUME NEW s \in Session, pick'[s] = j
        PROVE  FALSE
    <3>1. Select(s) /\ IsLatest(j, Serves[s])
      BY <1>6, <2>2, <2>4 DEF Begun
    <3>2. i \in Dispatchable(Serves[s])
      BY <1>3, <1>4, <1>5, <2>1, <3>1 DEF IsLatest, Dispatchable
    <3>3. Before(j, i)
      BY <3>1, <3>2, <1>2, <1>3, <1>7 DEF IsLatest
    <3>4. i \in Nat /\ j \in Nat /\ rows[i].at \in Nat /\ rows[j].at \in Nat
      BY <1>2, <1>3, <1>7 DEF Row
    <3> QED
      BY <1>4, <2>1, <3>3, <3>4 DEF Before
  <2> QED
    BY <2>3, <2>4 DEF Begun
<1>8. CASE j \notin DOMAIN rows
  <2>1. rows'[j].status = "pending"
    BY <1>1, <1>8 DEF TableStep
  <2>2. ASSUME NEW s \in Session, pick'[s] = j
        PROVE  FALSE
    <3>1. pick[s] # j
      BY <1>2, <1>8, <2>2, <1>1 DEF TypeOK, TableStep
    <3> QED
      BY <1>6, <1>8, <2>2, <3>1
  <2> QED
    BY <2>1, <2>2 DEF Begun, Settled
<1> QED
  BY <1>7, <1>8

\* For any number of devices and of overlapping sessions: a device's tasks begin in
\* order of creation, no task overtakes an older one that is still waiting.
THEOREM TasksStartInOrder == Spec => []StartInOrder
<1>1. Init => StartInOrder
  BY DEF Init, StartInOrder
<1> QED
  BY <1>1, StartInOrderStep, TypeCorrect, SentIsMarkedInvariant, PTL DEF Spec

-----------------------------------------------------------------------------
(* Cancellation.                                                           *)

\* A goroutine about to cancel a batch works for a faulted task with onfail=cancel.
CancelInv ==
    /\ CancelHasCause
    /\ \A u \in updates : u.pc = "cancel" =>
          /\ u.row \in faulted
          /\ rows[u.row].onfail = "cancel"
          /\ rows[u.row].batch # NoBatch

LEMMA CancelInvStep ==
    TypeOK /\ SentIsMarked /\ CancelInv /\ [Next]_vars => CancelInv'
<1> SUFFICES ASSUME TypeOK, SentIsMarked, CancelInv, [Next]_vars
             PROVE  CancelInv'
  OBVIOUS
<1>1. TableStep
  BY Evolution
<1>2. faulted \subseteq faulted' /\ faulted \subseteq DOMAIN rows
  BY DEF TypeOK, Next, JobStep, StartJob, Execute, CreateStep, BadContent, SpawnSet,
         CreateSet, OperatorStep, CreateWifi, CreateReboot, DeleteRow, SessionStep,
         Select, Mark, CpeStep, AnswerSet, AnswerFault, Report_, RecvReport, UpdateStep,
         UpdateStatus, UpdateBatch, Tick, Crash, vars
<1>3. ASSUME NEW i \in DOMAIN rows', rows'[i].status = "cancel"
      PROVE  \E j \in faulted' : /\ j # i
                                 /\ rows'[j].batch = rows'[i].batch
                                 /\ rows'[j].onfail = "cancel"
  <2>1. i \in DOMAIN rows
    BY <1>1, <1>3 DEF TableStep
  <2>2. rows'[i].batch = rows[i].batch
    BY <1>1, <2>1 DEF TableStep, SameButStatus
  <2>3. \E j \in faulted : /\ j # i
                           /\ rows[j].batch = rows[i].batch
                           /\ rows[j].onfail = "cancel"
    <3>1. CASE rows[i].status = "cancel"
      BY <2>1, <3>1 DEF CancelInv, CancelHasCause
    <3>2. CASE rows[i].status # "cancel"
      <4>1. /\ rows[i].status = "pending"
            /\ \E u \in updates : u.pc = "cancel" /\ rows[u.row].batch = rows[i].batch
        BY <1>1, <1>3, <2>1, <3>2 DEF TableStep, StatusStep, Settled
      <4>2. PICK u \in updates : u.pc = "cancel" /\ rows[u.row].batch = rows[i].batch
        BY <4>1
      <4>3. u.row \in faulted /\ rows[u.row].onfail = "cancel"
        BY <4>2 DEF CancelInv
      <4>4. Marked(u.row)
        BY <4>3 DEF SentIsMarked, Sent
      <4>5. u.row # i
        BY <4>1, <4>4 DEF Marked
      <4> QED
        BY <4>2, <4>3, <4>5
    <3> QED
      BY <3>1, <3>2
  <2> QED
    BY <1>1, <1>2, <2>2, <2>3 DEF TableStep, SameButStatus
<1>4. ASSUME NEW u \in updates', u.pc = "cancel"
      PROVE  /\ u.row \in faulted'
             /\ rows'[u.row].onfail = "cancel"
             /\ rows'[u.row].batch # NoBatch
  <2>1. CASE u \in updates
    <3>1. /\ u.row \in faulted /\ u.row \in DOMAIN rows
          /\ rows[u.row].onfail = "cancel" /\ rows[u.row].batch # NoBatch
      BY <1>2, <1>4, <2>1 DEF CancelInv
    <3> QED
      BY <1>1, <1>2, <3>1 DEF TableStep, SameButStatus
  <2>2. CASE u \notin updates
    <3>1. PICK v \in updates : UpdateStatus(v)
      BY <1>4, <2>2
         DEF Next, JobStep, StartJob, Execute, CreateStep, BadContent, SpawnSet,
             CreateSet, OperatorStep, CreateWifi, CreateReboot, DeleteRow, SessionStep,
             Select, Mark, CpeStep, AnswerSet, AnswerFault, Report_, RecvReport,
             UpdateStep, UpdateBatch, Tick, Crash, server, vars
    <3>2. v \in Update /\ v.row \in DOMAIN rows
      BY DEF TypeOK
    <3>3. /\ u = [v EXCEPT !.pc = "cancel"]
          /\ v.fault
          /\ rows[v.row].onfail = "cancel" /\ rows[v.row].batch # NoBatch
      BY <2>2, <3>1 DEF UpdateStatus
    <3>4. u.row = v.row /\ v.row \in faulted'
      BY <3>1, <3>2, <3>3 DEF Update, UpdateStatus
    <3> QED
      BY <1>1, <3>2, <3>3, <3>4 DEF TableStep, SameButStatus
  <2> QED
    BY <2>1, <2>2
<1> QED
  BY <1>3, <1>4 DEF CancelInv, CancelHasCause

LEMMA CancelInvariant == Spec => []CancelInv
<1>1. Init => CancelInv
  BY DEF Init, CancelInv, CancelHasCause
<1> QED
  BY <1>1, CancelInvStep, TypeCorrect, SentIsMarkedInvariant, PTL DEF Spec

\* No task is ever cancelled without cause: behind every cancelled task there is
\* another task of its own batch, marked onfail=cancel, that failed.
THEOREM CancelledWithCause == Spec => []CancelHasCause
<1>1. CancelInv => CancelHasCause
  BY DEF CancelInv
<1> QED
  BY <1>1, CancelInvariant, PTL

-----------------------------------------------------------------------------
(* How often a task is sent.                                               *)

Sessions(d) == {s \in Session : Serves[s] = d}
Pickers(i) == {s \in Session : pick[s] = i}

\* A session holds only tasks of its own device; a pending task was never sent; the
\* sessions that have selected a task may still send it once each.
SentInv ==
    /\ \A s \in Session : pick[s] # 0 => rows[pick[s]].sn = Serves[s]
    /\ \A i \in DOMAIN rows :
          /\ rows[i].status = "pending" => sent[i] = 0
          /\ sent[i] + Cardinality(Pickers(i)) <= Cardinality(Sessions(rows[i].sn))
    /\ \A i \in RowId \ DOMAIN rows : sent[i] = 0

LEMMA PickersAndSessions ==
    ASSUME TypeOK, NEW i
    PROVE  /\ \A d : IsFiniteSet(Sessions(d)) /\ Cardinality(Sessions(d)) \in Nat
           /\ IsFiniteSet(Pickers(i)) /\ Cardinality(Pickers(i)) \in Nat
<1>1. IsFiniteSet(Session)
  BY ConstantsAssumption
<1>2. \A d : IsFiniteSet(Sessions(d))
  BY <1>1, FS_Subset DEF Sessions
<1>3. IsFiniteSet(Pickers(i))
  BY <1>1, FS_Subset DEF Pickers
<1> QED
  BY <1>2, <1>3, FS_CardinalityType

\* The part of SentInv about one row, for a step that sends nothing and selects nothing.
LEMMA SentInvQuiet ==
    ASSUME TypeOK, SentInv, [Next]_vars, sent' = sent,
           \A s \in Session : pick'[s] \in {0, pick[s]}
    PROVE  SentInv'
<1>1. TableStep /\ DOMAIN rows \subseteq RowId /\ TypeOK'
  BY Evolution, TableType, TypeCorrectStep
<1>2. ASSUME NEW s \in Session, pick'[s] # 0
      PROVE  rows'[pick'[s]].sn = Serves[s]
  <2>1. pick'[s] = pick[s] /\ pick[s] \in DOMAIN rows
    BY <1>2 DEF TypeOK
  <2> QED
    BY <1>1, <1>2, <2>1 DEF SentInv, TableStep, SameButStatus
<1>3. ASSUME NEW i \in DOMAIN rows'
      PROVE  /\ rows'[i].status = "pending" => sent[i] = 0
             /\ sent[i] + Cardinality(Pickers(i)') <= Cardinality(Sessions(rows'[i].sn))
  <2>1. Pickers(i)' \subseteq Pickers(i)
    <3>1. i # 0
      BY <1>1, <1>3, TableType DEF TableStep
    <3> QED
      BY <3>1 DEF Pickers
  <2>2. /\ IsFiniteSet(Pickers(i)) /\ Cardinality(Pickers(i)) \in Nat
        /\ \A d : IsFiniteSet(Sessions(d)) /\ Cardinality(Sessions(d)) \in Nat
    BY PickersAndSessions
  <2>3. Cardinality(Pickers(i)') \in Nat /\ Cardinality(Pickers(i)') <= Cardinality(Pickers(i))
    BY <2>1, <2>2, FS_Subset, FS_CardinalityType
  <2>4. CASE i \in DOMAIN rows
    <3>1. rows'[i].sn = rows[i].sn /\ (rows'[i].status = "pending" => rows[i].status = "pending")
      BY <1>1, <2>4 DEF TableStep, SameButStatus, StatusStep, Settled
    <3>2. sent[i] \in Nat
      BY <1>1, <2>4 DEF TypeOK
    <3> QED
      BY <2>2, <2>3, <2>4, <3>1, <3>2 DEF SentInv
  <2>5. CASE i \notin DOMAIN rows
    <3>1. i \in RowId /\ sent[i] = 0
      BY <1>1, <1>3, <2>5, TableType, ConstantsAssumption DEF SentInv, TypeOK, RowId
    <3>2. Pickers(i) = {}
      BY <1>1, <2>5, <3>1 DEF Pickers, TypeOK, RowId
    <3>3. Cardinality(Pickers(i)') = 0
      BY <2>1, <3>2, FS_EmptySet
    <3> QED
      BY <2>2, <3>1, <3>3
  <2> QED
    BY <2>4, <2>5
<1>4. \A i \in RowId \ DOMAIN rows' : sent[i] = 0
  BY <1>1 DEF SentInv, TableStep
<1> QED
  BY <1>2, <1>3, <1>4 DEF SentInv

LEMMA SentInvSelect ==
    ASSUME TypeOK, SentInv, NEW s \in Session, Select(s)
    PROVE  SentInv'
<1>1. PICK k \in DOMAIN rows : IsLatest(k, Serves[s]) /\ pick' = [pick EXCEPT ![s] = k]
  BY DEF Select
<1>2. rows' = rows /\ sent' = sent
  BY DEF Select, db
<1>3. rows[k].sn = Serves[s] /\ rows[k].status = "pending"
  BY <1>1 DEF IsLatest, Dispatchable
<1>4. pick'[s] = k /\ \A t \in Session : t # s => pick'[t] = pick[t]
  BY <1>1 DEF TypeOK
<1>5. \A t \in Session : pick'[t] # 0 => rows[pick'[t]].sn = Serves[t]
  BY <1>3, <1>4 DEF SentInv
<1>6. ASSUME NEW i \in DOMAIN rows
      PROVE  sent[i] + Cardinality(Pickers(i)') <= Cardinality(Sessions(rows[i].sn))
  <2>1. CASE i = k
    <3>1. Pickers(i)' \subseteq Sessions(rows[i].sn)
      <4>1. k # 0
        BY TableType
      <4> QED
        BY <1>5, <2>1, <4>1 DEF Pickers, Sessions
    <3>2. sent[i] = 0
      BY <1>3, <2>1 DEF SentInv
    <3>3. IsFiniteSet(Sessions(rows[i].sn)) /\ Cardinality(Sessions(rows[i].sn)) \in Nat
      BY PickersAndSessions
    <3>4. /\ Cardinality(Pickers(i)') \in Nat
          /\ Cardinality(Pickers(i)') <= Cardinality(Sessions(rows[i].sn))
      BY <3>1, <3>3, FS_Subset, FS_CardinalityType
    <3> QED
      BY <3>2, <3>3, <3>4
  <2>2. CASE i # k
    <3>1. Pickers(i)' \subseteq Pickers(i)
      BY <1>4, <2>2 DEF Pickers
    <3>2. IsFiniteSet(Pickers(i)) /\ Cardinality(Pickers(i)) \in Nat
          /\ Cardinality(Sessions(rows[i].sn)) \in Nat
      BY PickersAndSessions
    <3>3. Cardinality(Pickers(i)') \in Nat /\ Cardinality(Pickers(i)') <= Cardinality(Pickers(i))
      BY <3>1, <3>2, FS_Subset, FS_CardinalityType
    <3>4. sent[i] \in Nat
      BY TableType DEF TypeOK
    <3> QED
      BY <3>2, <3>3, <3>4 DEF SentInv
  <2> QED
    BY <2>1, <2>2
<1> QED
  BY <1>2, <1>5, <1>6 DEF SentInv

LEMMA SentInvMark ==
    ASSUME TypeOK, SentInv, [Next]_vars, NEW s \in Session, Mark(s)
    PROVE  SentInv'
<1> DEFINE k == pick[s]
<1>1. k \in DOMAIN rows /\ k \in RowId /\ k # 0
  BY TableType DEF Mark, TypeOK
<1>2. /\ sent' = [sent EXCEPT ![k] = @ + 1]
      /\ pick' = [pick EXCEPT ![s] = 0]
  BY DEF Mark
<1>3. /\ sent'[k] = sent[k] + 1
      /\ \A i \in RowId : i # k => sent'[i] = sent[i]
      /\ \A i \in RowId : sent[i] \in Nat
  BY <1>1, <1>2 DEF TypeOK
<1>4. pick'[s] = 0 /\ \A t \in Session : t # s => pick'[t] = pick[t]
  BY <1>2 DEF TypeOK
<1>5. TableStep /\ DOMAIN rows \subseteq RowId
  BY Evolution, TableType
<1>6. DOMAIN rows' = DOMAIN rows /\ rows'[k].status # "pending"
  <2>1. "running" \in Status /\ SetStatus(k, "running")
    BY DEF Mark, MarkRunning, Status
  <2> QED
    BY <1>1, <2>1, SetStatusStep
<1>7. \A t \in Session : pick'[t] # 0 => rows'[pick'[t]].sn = Serves[t]
  <2> SUFFICES ASSUME NEW t \in Session, pick'[t] # 0
               PROVE  rows'[pick'[t]].sn = Serves[t]
    OBVIOUS
  <2>1. pick'[t] = pick[t] /\ pick[t] \in DOMAIN rows
    BY <1>4 DEF TypeOK
  <2> QED
    BY <1>5, <2>1 DEF SentInv, TableStep, SameButStatus
<1>8. ASSUME NEW i \in DOMAIN rows
      PROVE  /\ rows'[i].status = "pending" => sent'[i] = 0
             /\ sent'[i] + Cardinality(Pickers(i)') <= Cardinality(Sessions(rows'[i].sn))
  <2>1. /\ rows'[i].sn = rows[i].sn
        /\ rows'[i].status = "pending" => rows[i].status = "pending"
    BY <1>5 DEF TableStep, SameButStatus, StatusStep, Settled
  <2>2. IsFiniteSet(Pickers(i)) /\ Cardinality(Pickers(i)) \in Nat
        /\ Cardinality(Sessions(rows[i].sn)) \in Nat
    BY PickersAndSessions
  <2>3. CASE i = k
    <3>1. s \in Pickers(i) /\ Pickers(i)' = Pickers(i) \ {s}
      BY <1>1, <1>4, <2>3 DEF Pickers
    <3>2. Cardinality(Pickers(i)') = Cardinality(Pickers(i)) - 1
      BY <2>2, <3>1, FS_RemoveElement
    <3> QED
      BY <1>1, <1>3, <1>6, <2>1, <2>2, <2>3, <3>2 DEF SentInv
  <2>4. CASE i # k
    <3>1. Pickers(i)' = Pickers(i)
      <4>1. i # 0
        BY TableType
      <4> QED
        BY <1>4, <2>4, <4>1 DEF Pickers
    <3>2. sent'[i] = sent[i]
      BY <1>3, <1>5, <2>4
    <3> QED
      BY <2>1, <3>1, <3>2 DEF SentInv
  <2> QED
    BY <2>3, <2>4
<1>9. \A i \in RowId \ DOMAIN rows' : sent'[i] = 0
  BY <1>1, <1>3, <1>6 DEF SentInv
<1> QED
  BY <1>6, <1>7, <1>8, <1>9 DEF SentInv

LEMMA SentInvStep == TypeOK /\ SentInv /\ [Next]_vars => SentInv'
<1> SUFFICES ASSUME TypeOK, SentInv, [Next]_vars
             PROVE  SentInv'
  OBVIOUS
<1>1. ASSUME NEW s \in Session, Select(s) \/ Mark(s)
      PROVE  SentInv'
  BY <1>1, SentInvSelect, SentInvMark
<1>2. CASE ~SessionStep
  <2>1. sent' = sent
    BY <1>2 DEF Next, JobStep, StartJob, Execute, CreateStep, BadContent, SpawnSet,
           CreateSet, OperatorStep, CreateWifi, CreateReboot, DeleteRow,
           CpeStep, AnswerSet, AnswerFault, Report_, RecvReport, UpdateStep,
           UpdateStatus, UpdateBatch, Tick, Crash, vars
  <2>2. pick' = pick \/ pick' = [t \in Session |-> 0]
    BY <1>2 DEF Next, JobStep, StartJob, Execute, CreateStep, BadContent, SpawnSet,
           CreateSet, OperatorStep, CreateWifi, CreateReboot, DeleteRow,
           CpeStep, AnswerSet, AnswerFault, Report_, RecvReport, UpdateStep,
           UpdateStatus, UpdateBatch, Tick, Crash, server, vars
  <2> QED
    BY <2>1, <2>2, SentInvQuiet
<1> QED
  BY <1>1, <1>2 DEF SessionStep

\* However the sessions of a device overlap and whatever else happens in between, a
\* task reaches the device at most once per session of that device.
THEOREM SentAtMostOncePerSession == Spec => []SentOncePerSession
<1>1. Init => SentInv
  <2> SUFFICES ASSUME Init PROVE SentInv
    OBVIOUS
  <2>1. DOMAIN rows = {}
    BY DEF Init
  <2>2. (\A s \in Session : pick[s] = 0) /\ (\A i \in RowId : sent[i] = 0)
    BY DEF Init
  <2> QED
    BY <2>1, <2>2 DEF SentInv
<1>2. TypeOK /\ SentInv => SentOncePerSession
  <2> SUFFICES ASSUME TypeOK, SentInv, NEW i \in DOMAIN rows
               PROVE  sent[i] <= Cardinality(Sessions(rows[i].sn))
    BY DEF SentOncePerSession, Sessions
  <2>1. sent[i] \in Nat /\ Cardinality(Pickers(i)) \in Nat
        /\ Cardinality(Sessions(rows[i].sn)) \in Nat
    BY TableType, PickersAndSessions DEF TypeOK
  <2> QED
    BY <2>1 DEF SentInv
<1> QED
  BY <1>1, <1>2, SentInvStep, TypeCorrect, PTL DEF Spec

-----------------------------------------------------------------------------
(* The table as a board of tasks.                                          *)

Card(i) == [group |-> rows[i].batch, critical |-> rows[i].onfail = "cancel",
            status |-> rows[i].status]
Board == [i \in DOMAIN rows |-> Card(i)]

LEMMA BoardSetStatus ==
    ASSUME TypeOK, NEW i \in DOMAIN rows, NEW st \in Status, SetStatus(i, st)
    PROVE  B!SetStatus(i, st)
<1>1. /\ DOMAIN rows' = DOMAIN rows
      /\ \A j \in DOMAIN rows : SameButStatus(j)
      /\ \A j \in DOMAIN rows : j # i => rows'[j].status = rows[j].status
      /\ rows'[i].status = IF rows[i].status = "deleted" THEN "deleted" ELSE st
  BY SetStatusStep
<1>2. Board' = [j \in DOMAIN rows |-> Card(j)']
  BY <1>1 DEF Board
<1>3. ASSUME NEW j \in DOMAIN rows, j # i
      PROVE  Card(j)' = Card(j)
  BY <1>1, <1>3 DEF Card, SameButStatus
<1>4. Card(i)' = [Card(i) EXCEPT !.status = IF @ = "deleted" THEN @ ELSE st]
  BY <1>1 DEF Card, SameButStatus
<1>5. Board' = [Board EXCEPT ![i].status = IF @ = "deleted" THEN @ ELSE st]
  BY <1>2, <1>3, <1>4 DEF Board
<1> QED
  BY <1>5 DEF Board, Card, B!SetStatus

LEMMA BoardAdd ==
    ASSUME TypeOK,
           NEW d \in Device, NEW p \in PresetId \cup {NoPreset},
           NEW b \in Batch \cup {NoBatch}, NEW k \in Kind, NEW f \in OnFail,
           NEW offset \in Nat,
           Insert(d, p, b, k, f, offset), pick' = pick, faulted' = faulted
    PROVE  B!Next
<1> DEFINE new == [group |-> b, critical |-> f = "cancel", status |-> "pending"]
<1>1. /\ DOMAIN rows' = 1..(Len(rows) + 1)
      /\ \A i \in DOMAIN rows : rows'[i] = rows[i]
      /\ DOMAIN rows = 1..Len(rows) /\ Len(rows) \in Nat
  BY InsertTable, TableType
<1>2. /\ rows'[Len(rows) + 1].batch = b
      /\ rows'[Len(rows) + 1].onfail = f
      /\ rows'[Len(rows) + 1].status = "pending"
  <2>1. rows' = Append(rows, [sn |-> d, preset |-> p, batch |-> b, kind |-> k,
                              onfail |-> f, status |-> "pending", at |-> clock + offset])
    BY DEF Insert
  <2> QED
    BY <1>1, <2>1 DEF TypeOK
<1>3. Board \in Seq({Card(i) : i \in DOMAIN rows}) /\ Len(Board) = Len(rows)
  BY <1>1 DEF Board
<1>4. Append(Board, new) = [i \in 1..(Len(rows) + 1) |-> IF i = Len(rows) + 1 THEN new ELSE Board[i]]
  BY <1>1, <1>3
<1>5. Board' = [i \in 1..(Len(rows) + 1) |-> Card(i)']
  BY <1>1 DEF Board
<1>6. ASSUME NEW i \in 1..(Len(rows) + 1)
      PROVE  Card(i)' = IF i = Len(rows) + 1 THEN new ELSE Board[i]
  <2>1. CASE i = Len(rows) + 1
    BY <1>2, <2>1 DEF Card
  <2>2. CASE i # Len(rows) + 1
    <3>1. i \in DOMAIN rows
      BY <1>1, <2>2
    <3> QED
      BY <1>1, <2>2, <3>1 DEF Card, Board
  <2> QED
    BY <2>1, <2>2
<1>7. Board' = Append(Board, new)
  BY <1>4, <1>5, <1>6
<1>8. B!Add(b, f = "cancel")
  BY <1>7 DEF Board, Card, B!Add
<1> QED
  BY <1>8 DEF B!Next

LEMMA BoardStep ==
    ASSUME TypeOK, SentIsMarked, CancelInv, [Next]_vars
    PROVE  B!Next \/ UNCHANGED <<Board, pick, faulted>>
<1> USE ConstantsAssumption
<1>0. ASSUME rows' = rows, pick' = pick, faulted' = faulted
      PROVE  UNCHANGED <<Board, pick, faulted>>
  BY <1>0 DEF Board, Card
<1>1. CASE JobStep
  <2>1. ASSUME NEW b \in Batch, CreateStep(b), rows' # rows
        PROVE  B!Next
    <3> DEFINE step == Current(b).steps[job[b].next]
    <3>1. job[b] \in Job /\ Current(b) \in Content
      BY <2>1, JobTypes DEF CreateStep
    <3>2. Current(b).steps \in Seq(Step) /\ job[b].next \in Nat \ {0}
      BY <3>1 DEF Content, Job
    <3>3. job[b].next \in 1..Len(Current(b).steps)
      BY <2>1, <3>2 DEF CreateStep
    <3>4. step \in Step
      BY <3>2, <3>3, ElementOfSeq
    <3>5. Insert(job[b].sn, Current(b).id, b, step.kind, step.onfail, 0)
      BY <2>1 DEF CreateStep
    <3>6. /\ job[b].sn \in Device /\ Current(b).id \in PresetId
          /\ step.kind \in Kind /\ step.onfail \in OnFail
      BY <3>1, <3>4 DEF Job, Content, Step, Kind
    <3>7. pick' = pick /\ faulted' = faulted
      BY <2>1 DEF CreateStep
    <3> QED
      BY <3>5, <3>6, <3>7, BoardAdd
  <2>2. ASSUME NEW a \in async, CreateSet(a), rows' # rows
        PROVE  B!Next
    <3>1. Insert(a.sn, a.preset, a.batch, "SetParameterValues", "ignore", 0)
      BY <2>2 DEF CreateSet
    <3>2. a \in Async
      BY DEF TypeOK
    <3>3. /\ a.sn \in Device /\ a.preset \in PresetId /\ a.batch \in Batch
          /\ "SetParameterValues" \in Kind /\ "ignore" \in OnFail
      BY <3>2 DEF Async, Kind, OnFail
    <3>4. pick' = pick /\ faulted' = faulted
      BY <2>2 DEF CreateSet
    <3> QED
      BY <3>1, <3>3, <3>4, BoardAdd
  <2> QED
    BY <1>0, <1>1, <2>1, <2>2
       DEF JobStep, StartJob, Execute, CreateStep, BadContent, SpawnSet, CreateSet, db
<1>2. CASE OperatorStep
  <2>1. ASSUME NEW d \in Device, NEW order \in 0..MaxOrder, CreateWifi(d, order)
        PROVE  B!Next
    <3>1. "Wifi" \in Kind /\ "ignore" \in OnFail /\ order \in Nat
      BY DEF Kind, OnFail
    <3>2. Insert(d, NoPreset, NoBatch, "Wifi", "ignore", order) /\ pick' = pick /\ faulted' = faulted
      BY <2>1 DEF CreateWifi, server
    <3> QED
      BY <3>1, <3>2, BoardAdd
  <2>2. ASSUME NEW d \in Device, CreateReboot(d)
        PROVE  B!Next
    <3>1. "Reboot" \in Kind /\ "ignore" \in OnFail
      BY DEF Kind, OnFail
    <3>2. Insert(d, NoPreset, NoBatch, "Reboot", "ignore", 0) /\ pick' = pick /\ faulted' = faulted
      BY <2>2 DEF CreateReboot, server
    <3> QED
      BY <3>1, <3>2, BoardAdd
  <2>3. ASSUME NEW i \in DOMAIN rows, DeleteRow(i)
        PROVE  B!Next
    <3>1. B!SetStatus(i, "deleted")
      BY <2>3, BoardSetStatus DEF DeleteRow, Status
    <3>2. B!Delete(i)
      BY <2>3, <3>1 DEF DeleteRow, server, B!Delete
    <3> QED
      BY <3>2 DEF B!Next
  <2> QED
    BY <1>2, <2>1, <2>2, <2>3 DEF OperatorStep
<1>3. CASE SessionStep
  <2>1. ASSUME NEW s \in Session, Select(s)
        PROVE  B!Next
    <3>1. PICK i \in DOMAIN rows : IsLatest(i, Serves[s]) /\ pick' = [pick EXCEPT ![s] = i]
      BY <2>1 DEF Select
    <3>2. rows' = rows /\ faulted' = faulted /\ pick[s] = 0
      BY <2>1 DEF Select, db
    <3>3. rows[i].status = "pending"
      BY <3>1 DEF IsLatest, Dispatchable
    <3>4. B!Claim(s, i)
      BY <3>1, <3>2, <3>3 DEF B!Claim
    <3> QED
      BY <3>1, <3>4 DEF B!Next
  <2>2. ASSUME NEW s \in Session, Mark(s)
        PROVE  B!Next
    <3>1. pick[s] # 0 /\ pick[s] \in DOMAIN rows /\ SetStatus(pick[s], "running")
      BY <2>2 DEF Mark, MarkRunning, TypeOK
    <3>2. B!SetStatus(pick[s], "running")
      BY <3>1, BoardSetStatus DEF Status
    <3>3. B!Start(s)
      BY <2>2, <3>1, <3>2 DEF Mark, B!Start
    <3> QED
      BY <3>3 DEF B!Next
  <2> QED
    BY <1>3, <2>1, <2>2 DEF SessionStep
<1>4. ASSUME NEW i \in DOMAIN rows, Marked(i), NEW fault \in BOOLEAN,
             SetStatus(i, IF fault THEN "failure" ELSE "success"),
             pick' = pick, faulted' \in {faulted, IF fault THEN faulted \cup {i} ELSE faulted}
      PROVE  B!Next
  <2>1. B!Started(i)
    BY <1>4 DEF B!Started, Marked
  <2>2. CASE fault
    <3>1. B!SetStatus(i, "failure")
      BY <1>4, <2>2, BoardSetStatus DEF Status
    <3>2. B!Fail(i)
      BY <1>4, <2>1, <2>2, <3>1 DEF B!Fail
    <3> QED
      BY <3>2 DEF B!Next
  <2>3. CASE ~fault
    <3>1. B!SetStatus(i, "success")
      BY <1>4, <2>3, BoardSetStatus DEF Status
    <3>2. B!Succeed(i)
      BY <1>4, <2>1, <2>3, <3>1 DEF B!Succeed
    <3> QED
      BY <3>2 DEF B!Next
  <2> QED
    BY <2>2, <2>3
<1>5. CASE CpeStep
  <2>1. ASSUME NEW i \in held, NEW ok \in BOOLEAN, AnswerSet(i, ok), rows' # rows
        PROVE  B!Next
    <3>1. SetStatus(i, IF ok THEN "success" ELSE "failure") /\ pick' = pick /\ faulted' = faulted
      BY <2>1 DEF AnswerSet, server
    <3>2. i \in DOMAIN rows /\ Marked(i)
      BY DEF SentIsMarked, Sent
    <3>3. SetStatus(i, IF ~ok THEN "failure" ELSE "success")
      BY <3>1
    <3> QED
      BY <1>4, <3>1, <3>2, <3>3
  <2> QED
    BY <1>0, <1>5, <2>1 DEF CpeStep, AnswerSet, AnswerFault, Report_, RecvReport, db, server
<1>6. CASE UpdateStep
  <2>1. ASSUME NEW u \in updates, UpdateStatus(u)
        PROVE  B!Next
    <3>1. u \in Update /\ u.row \in DOMAIN rows /\ Marked(u.row)
      BY DEF TypeOK, SentIsMarked, Sent
    <3>2. SetStatus(u.row, IF u.fault THEN "failure" ELSE "success") /\ pick' = pick
      BY <2>1 DEF UpdateStatus, Outcome
    <3>3. faulted' = IF u.fault THEN faulted \cup {u.row} ELSE faulted
      BY <2>1 DEF UpdateStatus
    <3> QED
      BY <1>4, <3>1, <3>2, <3>3 DEF Update
  <2>2. ASSUME NEW u \in updates, UpdateBatch(u)
        PROVE  B!Next
    <3> DEFINE b == rows[u.row].batch
    <3>1. /\ u.row \in faulted /\ rows[u.row].onfail = "cancel" /\ b # NoBatch
          /\ u.row \in DOMAIN rows
      BY <2>2 DEF UpdateBatch, CancelInv, TypeOK
    <3>2. /\ DOMAIN rows' = DOMAIN rows
          /\ \A j \in DOMAIN rows :
                rows'[j] = IF rows[j].status = "pending" /\ rows[j].batch = b
                           THEN [rows[j] EXCEPT !.status = "cancel"]
                           ELSE rows[j]
      BY <2>2, CancelTable DEF UpdateBatch
    <3>3. pick' = pick /\ faulted' = faulted
      BY <2>2 DEF UpdateBatch
    <3>4. Board' = [j \in DOMAIN rows |-> Card(j)']
      BY <3>2 DEF Board
    <3>5. ASSUME NEW j \in DOMAIN rows
          PROVE  Card(j)' = IF Card(j).group = b /\ Card(j).status = "pending"
                            THEN [Card(j) EXCEPT !.status = "cancel"] ELSE Card(j)
      <4>1. rows[j] \in Row
        BY TableType
      <4> QED
        BY <3>2, <4>1 DEF Card, Row
    <3>6. Board' = [j \in DOMAIN Board |->
                        IF Board[j].group = Board[u.row].group /\ Board[j].status = "pending"
                        THEN [Board[j] EXCEPT !.status = "cancel"] ELSE Board[j]]
      BY <3>1, <3>4, <3>5 DEF Board, Card
    <3>7. B!Cancel(u.row)
      BY <3>1, <3>3, <3>6 DEF Board, Card, B!Cancel
    <3> QED
      BY <3>1, <3>7 DEF B!Next
  <2> QED
    BY <1>6, <2>1, <2>2 DEF UpdateStep
<1>7. CASE Crash
  <2>1. B!Forget
    BY <1>7 DEF Crash, db, B!Forget
  <2> QED
    BY <2>1 DEF B!Next
<1>8. CASE Tick \/ UNCHANGED vars
  BY <1>0, <1>8 DEF Tick, server, vars
<1> QED
  BY <1>1, <1>2, <1>3, <1>5, <1>6, <1>7, <1>8 DEF Next

\* The table, its sessions and its late updates implement the abstract board of tasks:
\* what a reader of the table sees changes only as TaskBoard says.
THEOREM ImplementsTaskBoard == Spec => IsTaskBoard
<1>1. Init => B!Init
  BY DEF Init, B!Init
<1>2. TypeOK /\ SentIsMarked /\ CancelInv /\ [Next]_vars => [B!Next]_<<Board, pick, faulted>>
  BY BoardStep
<1> QED
  BY <1>1, <1>2, TypeCorrect, SentIsMarkedInvariant, CancelInvariant, PTL
     DEF Spec, IsTaskBoard, B!Spec, Board, Card

-----------------------------------------------------------------------------
(* Results are final.                                                      *)

\* Whether the CPE says that task i has failed, in the messages and updates under way.
Told(i) == {m.fault : m \in {n \in reports \cup updates : n.row = i}}

\* A task is selected, in the hands of the CPE, or reported on - never two of them, and
\* with a result only in the last case.  Whatever is reported is the result, when it has one.
OneHolder(i) ==
    /\ \A s \in Session : pick[s] = i =>
          /\ Serves[s] = rows[i].sn
          /\ rows[i].status \notin {"running"} \cup Settled
          /\ i \notin held
          /\ Told(i) = {}
    /\ i \in held =>
          /\ rows[i].status \notin {"pending"} \cup Settled
          /\ Told(i) = {}
    /\ \A f \in Told(i) :
          /\ f \in BOOLEAN
          /\ rows[i].status # "pending"
          /\ rows[i].status \in Settled => rows[i].status = Outcome(f)
    /\ \A f, g \in Told(i) : f = g

ResultInv == \A i \in DOMAIN rows : OneHolder(i)

\* A task keeps its status, or is cancelled or deleted by somebody else.
Undisturbed(i) ==
    \/ rows'[i].status = rows[i].status
    \/ rows'[i].status = "deleted"
    \/ rows[i].status = "pending" /\ rows'[i].status = "cancel"

Final(i) == rows[i].status \in Settled => rows'[i].status \in {rows[i].status, "deleted"}

\* What a step may do that selects nothing, sends nothing and settles nothing.
Quiet ==
    /\ \A s \in Session : pick'[s] \in {0, pick[s]}
    /\ held' \subseteq held
    /\ \A i : Told(i)' \subseteq Told(i)
    /\ \A i \in DOMAIN rows : Undisturbed(i)

\* A row that was not there a step ago is held by nobody.
LEMMA NewRow ==
    ASSUME TypeOK, TableStep,
           NEW i \in DOMAIN rows', i \notin DOMAIN rows,
           \A s \in Session : pick'[s] \in {0, pick[s]},
           held' \subseteq held, Told(i)' \subseteq Told(i)
    PROVE  OneHolder(i)'
<1>1. i = Len(rows) + 1 /\ Len(rows) \in Nat
  BY TableType DEF TableStep
<1>2. \A s \in Session : pick'[s] # i
  BY <1>1 DEF TypeOK
<1>3. i \notin held'
  BY DEF TypeOK
<1>4. Told(i)' = {}
  BY DEF TypeOK, Told
<1> QED
  BY <1>2, <1>3, <1>4 DEF OneHolder

LEMMA QuietStep ==
    ASSUME TypeOK, TableStep, ResultInv, Quiet
    PROVE  ResultInv' /\ \A i \in DOMAIN rows : Final(i)
<1>1. ASSUME NEW i \in DOMAIN rows
      PROVE  OneHolder(i)' /\ Final(i)
  <2>1. OneHolder(i) /\ i # 0
    BY TableType DEF ResultInv
  <2>2. rows'[i].sn = rows[i].sn
    BY DEF TableStep, SameButStatus
  <2>3. Undisturbed(i) /\ Told(i)' \subseteq Told(i) /\ held' \subseteq held
    BY DEF Quiet
  <2>4. \A s \in Session : pick'[s] = i => pick[s] = i
    BY <2>1 DEF Quiet
  <2> QED
    BY <2>1, <2>2, <2>3, <2>4 DEF OneHolder, Undisturbed, Final, Settled, Outcome
<1>2. ASSUME NEW i \in DOMAIN rows', i \notin DOMAIN rows
      PROVE  OneHolder(i)'
  BY <1>2, NewRow DEF Quiet
<1> QED
  BY <1>1, <1>2 DEF ResultInv

\* Rows are added behind those there are.
LEMMA AppendKeeps ==
    ASSUME TypeOK, NEW r, rows' = Append(rows, r)
    PROVE  \A i \in DOMAIN rows : rows'[i] = rows[i]
<1>1. rows \in Seq(Row \cup {r})
  <2>1. rows \in [1..Len(rows) -> Row \cup {r}] /\ Len(rows) \in Nat
    BY TableType DEF TypeOK
  <2> QED
    BY <2>1, SeqDef
<1>2. \A i \in 1..Len(rows) : rows'[i] = rows[i]
  BY <1>1, AppendProperties
<1> QED
  BY <1>2, TableType

LEMMA JobStepIsQuiet == ASSUME TypeOK, JobStep PROVE Quiet
<1>1. UNCHANGED <<pick, held, reports>> /\ updates' = updates
  BY DEF JobStep, StartJob, Execute, CreateStep, BadContent, SpawnSet, CreateSet, cpe
<1>2. rows' = rows \/ \E r : rows' = Append(rows, r)
  <2>1. ASSUME NEW b \in Batch, NEW d \in Device, StartJob(b, d) PROVE rows' = rows
    BY <2>1 DEF StartJob, db
  <2>2. ASSUME NEW b \in Batch, NEW d \in Device, NEW p \in PresetId, Execute(b, d, p)
        PROVE  rows' = rows
    BY <2>2 DEF Execute, db
  <2>3. ASSUME NEW b \in Batch, CreateStep(b)
        PROVE  rows' = rows \/ \E r : rows' = Append(rows, r)
    BY <2>3 DEF CreateStep, Insert
  <2>4. ASSUME NEW b \in Batch, BadContent(b) \/ SpawnSet(b) PROVE rows' = rows
    BY <2>4 DEF BadContent, SpawnSet, db
  <2>5. ASSUME NEW a \in async, CreateSet(a)
        PROVE  rows' = rows \/ \E r : rows' = Append(rows, r)
    BY <2>5 DEF CreateSet, Insert
  <2> QED
    BY <2>1, <2>2, <2>3, <2>4, <2>5 DEF JobStep
<1>3. \A i \in DOMAIN rows : rows'[i] = rows[i]
  BY <1>2, AppendKeeps
<1> QED
  BY <1>1, <1>3 DEF Quiet, Undisturbed, Told

LEMMA OperatorStepIsQuiet == ASSUME TypeOK, OperatorStep PROVE Quiet
<1>1. UNCHANGED <<pick, held, reports>> /\ updates' = updates
  BY DEF OperatorStep, CreateWifi, CreateReboot, DeleteRow, server, cpe
<1>2. \A i \in DOMAIN rows : Undisturbed(i)
  <2>1. CASE \E r : rows' = Append(rows, r)
    BY <2>1, AppendKeeps DEF Undisturbed
  <2>2. CASE \E i \in DOMAIN rows : DeleteRow(i)
    <3>1. PICK i \in DOMAIN rows : SetStatus(i, "deleted")
      BY <2>2 DEF DeleteRow
    <3> QED
      BY <3>1, SetStatusStep DEF Undisturbed, Status
  <2> QED
    BY <2>1, <2>2 DEF OperatorStep, CreateWifi, CreateReboot, Insert
<1> QED
  BY <1>1, <1>2 DEF Quiet, Told

\* Of two sessions only one serves a device, so the one that selects a task is alone with it.
OneSessionEach == \A s, t \in Session : Serves[s] = Serves[t] => s = t

LEMMA SelectResult ==
    ASSUME TypeOK, TableStep, ResultInv, NEW s \in Session, Select(s)
    PROVE  ResultInv' /\ \A i \in DOMAIN rows : Final(i)
<1>1. PICK k \in DOMAIN rows : IsLatest(k, Serves[s]) /\ pick' = [pick EXCEPT ![s] = k]
  BY DEF Select
<1>2. UNCHANGED <<rows, held, reports, updates>>
  BY DEF Select, db, cpe
<1>3. rows[k].status = "pending" /\ rows[k].sn = Serves[s]
  BY <1>1 DEF IsLatest, Dispatchable
<1>4. k \notin held /\ Told(k) = {}
  BY <1>3 DEF ResultInv, OneHolder
<1>5. \A t \in Session : pick'[t] = IF t = s THEN k ELSE pick[t]
  BY <1>1 DEF TypeOK
<1>6. \A i : Told(i)' = Told(i)
  BY <1>2 DEF Told
<1>7. ASSUME NEW i \in DOMAIN rows PROVE OneHolder(i)'
  <2>1. OneHolder(i)
    BY DEF ResultInv
  <2> QED
    BY <2>1, <1>2, <1>3, <1>4, <1>5, <1>6 DEF OneHolder, Settled
<1> QED
  BY <1>2, <1>7 DEF ResultInv, Final

LEMMA MarkResult ==
    ASSUME OneSessionEach, TypeOK, ResultInv, NEW s \in Session, Mark(s)
    PROVE  ResultInv' /\ \A i \in DOMAIN rows : Final(i)
<1> DEFINE k == pick[s]
<1>1. /\ k # 0 /\ k \in DOMAIN rows
      /\ SetStatus(k, "running")
      /\ pick' = [pick EXCEPT ![s] = 0]
      /\ held' \in {held, held \cup {k}}
      /\ UNCHANGED <<reports, updates>>
  BY DEF Mark, MarkRunning, TypeOK
<1>2. /\ DOMAIN rows' = DOMAIN rows
      /\ \A j \in DOMAIN rows : rows'[j].sn = rows[j].sn
      /\ \A j \in DOMAIN rows : j # k => rows'[j].status = rows[j].status
      /\ rows'[k].status \in {"running", "deleted"}
  BY <1>1, SetStatusStep DEF Status, SameButStatus
<1>3. \A t \in Session : pick'[t] = IF t = s THEN 0 ELSE pick[t]
  BY <1>1 DEF TypeOK
<1>4. \A i : Told(i)' = Told(i)
  BY <1>1 DEF Told
<1>5. OneHolder(k)
  BY <1>1 DEF ResultInv
<1>6. \A t \in Session : pick[t] = k => t = s
  BY <1>1, <1>5 DEF OneHolder, OneSessionEach
<1>7. ASSUME NEW i \in DOMAIN rows PROVE OneHolder(i)' /\ Final(i)
  <2>1. CASE i = k
    BY <2>1, <1>1, <1>2, <1>3, <1>4, <1>5, <1>6 DEF OneHolder, Settled, Final
  <2>2. CASE i # k
    <3>1. OneHolder(i) /\ i # 0
      BY TableType DEF ResultInv
    <3>2. /\ rows'[i].sn = rows[i].sn /\ rows'[i].status = rows[i].status
          /\ i \in held' <=> i \in held
          /\ \A t \in Session : pick'[t] = i => pick[t] = i
      BY <2>2, <3>1, <1>1, <1>2, <1>3
    <3> QED
      BY <3>1, <3>2, <1>4 DEF OneHolder, Final
  <2> QED
    BY <2>1, <2>2
<1> QED
  BY <1>2, <1>7 DEF ResultInv

LEMMA AnswerResult ==
    ASSUME TypeOK, ResultInv, NEW k \in held, NEW ok \in BOOLEAN, AnswerSet(k, ok)
    PROVE  ResultInv' /\ \A i \in DOMAIN rows : Final(i)
<1>1. k \in DOMAIN rows /\ held' = held \ {k} /\ UNCHANGED <<pick, reports, updates>>
  BY DEF TypeOK, AnswerSet, server
<1>2. /\ DOMAIN rows' = DOMAIN rows
      /\ \A j \in DOMAIN rows : rows'[j].sn = rows[j].sn
      /\ \A j \in DOMAIN rows : j # k => rows'[j].status = rows[j].status
  BY <1>1, SetStatusStep DEF AnswerSet, Status, SameButStatus
<1>3. \A i : Told(i)' = Told(i)
  BY <1>1 DEF Told
<1>4. OneHolder(k)
  BY <1>1 DEF ResultInv
<1>5. Told(k) = {} /\ rows[k].status \notin Settled /\ \A s \in Session : pick[s] # k
  BY <1>4 DEF OneHolder
<1>6. ASSUME NEW i \in DOMAIN rows PROVE OneHolder(i)' /\ Final(i)
  <2>1. OneHolder(i)
    BY DEF ResultInv
  <2>2. CASE i = k
    BY <2>2, <1>1, <1>3, <1>5 DEF OneHolder, Final
  <2>3. CASE i # k
    BY <2>1, <2>3, <1>1, <1>2, <1>3 DEF OneHolder, Final
  <2> QED
    BY <2>2, <2>3
<1> QED
  BY <1>2, <1>6 DEF ResultInv

LEMMA ReportResult ==
    ASSUME TypeOK, ResultInv, NEW k \in held, NEW fault \in BOOLEAN, Report_(k, fault)
    PROVE  ResultInv' /\ \A i \in DOMAIN rows : Final(i)
<1> DEFINE m == [row |-> k, fault |-> fault]
<1>1. /\ k \in DOMAIN rows /\ held' = held \ {k} /\ UNCHANGED <<rows, pick, updates>>
      /\ reports' = reports \cup {m}
  BY DEF TypeOK, Report_, server, db
<1>2. OneHolder(k)
  BY <1>1 DEF ResultInv
<1>3. Told(k) = {} /\ rows[k].status \notin {"pending"} \cup Settled
  BY <1>2 DEF OneHolder
<1>4. \A s \in Session : pick[s] # k
  BY <1>2 DEF OneHolder
<1>5. Told(k)' \subseteq {fault}
  <2>1. \A n \in reports' \cup updates' : n = m \/ n \in reports \cup updates
    BY <1>1
  <2>2. \A n \in reports \cup updates : n.row # k
    BY <1>3 DEF Told
  <2> QED
    BY <2>1, <2>2 DEF Told
<1>6. \A i : i # k => Told(i)' = Told(i)
  BY <1>1 DEF Told
<1>7. ASSUME NEW i \in DOMAIN rows PROVE OneHolder(i)'
  <2>1. OneHolder(i)
    BY DEF ResultInv
  <2>2. CASE i = k
    BY <2>2, <1>1, <1>3, <1>4, <1>5 DEF OneHolder
  <2>3. CASE i # k
    BY <2>1, <2>3, <1>1, <1>6 DEF OneHolder
  <2> QED
    BY <2>2, <2>3
<1> QED
  BY <1>1, <1>7 DEF ResultInv, Final

LEMMA UpdateResult ==
    ASSUME TypeOK, ResultInv, NEW u \in updates, UpdateStatus(u)
    PROVE  ResultInv' /\ \A i \in DOMAIN rows : Final(i)
<1> DEFINE k == u.row
<1>1. /\ u \in Update /\ k \in DOMAIN rows
      /\ SetStatus(k, Outcome(u.fault))
      /\ UNCHANGED <<pick, held, reports>>
      /\ updates' \subseteq updates \cup {[u EXCEPT !.pc = "cancel"]}
  BY DEF TypeOK, UpdateStatus, cpe
<1>2. Outcome(u.fault) \in Settled /\ Outcome(u.fault) \in Status
  BY DEF Outcome, Settled, Status
<1>3. /\ DOMAIN rows' = DOMAIN rows
      /\ \A j \in DOMAIN rows : rows'[j].sn = rows[j].sn
      /\ \A j \in DOMAIN rows : j # k => rows'[j].status = rows[j].status
      /\ rows'[k].status \in {"deleted", Outcome(u.fault)}
  BY <1>1, <1>2, SetStatusStep DEF SameButStatus
<1>4. u.fault \in Told(k)
  BY DEF Told
<1>5. \A i : Told(i)' \subseteq Told(i)
  <2>1. [u EXCEPT !.pc = "cancel"].row = k /\ [u EXCEPT !.pc = "cancel"].fault = u.fault
    BY <1>1 DEF Update
  <2> QED
    BY <1>1, <2>1 DEF Told
<1>6. ASSUME NEW i \in DOMAIN rows PROVE OneHolder(i)' /\ Final(i)
  <2>1. OneHolder(i)
    BY DEF ResultInv
  <2>2. CASE i = k
    <3>1. Told(i)' \subseteq {u.fault} /\ u.fault \in BOOLEAN
      BY <2>1, <2>2, <1>4, <1>5 DEF OneHolder
    <3>2. i \notin held /\ \A s \in Session : pick[s] # i
      BY <2>1, <2>2, <1>4 DEF OneHolder
    <3>3. rows[i].status \in Settled => rows[i].status = Outcome(u.fault)
      BY <2>1, <2>2, <1>4 DEF OneHolder
    <3> QED
      BY <2>2, <3>1, <3>2, <3>3, <1>1, <1>2, <1>3 DEF OneHolder, Final, Settled
  <2>3. CASE i # k
    BY <2>1, <2>3, <1>1, <1>3, <1>5 DEF OneHolder, Final
  <2> QED
    BY <2>2, <2>3
<1> QED
  BY <1>3, <1>6 DEF ResultInv

LEMMA ResultStep ==
    ASSUME OneSessionEach, TypeOK, ResultInv, [Next]_vars
    PROVE  ResultInv' /\ \A i \in DOMAIN rows : Final(i)
<1> DEFINE Goal == ResultInv' /\ \A i \in DOMAIN rows : Final(i)
<1>0. TableStep
  BY Evolution
<1>1. CASE JobStep
  BY <1>0, <1>1, JobStepIsQuiet, QuietStep
<1>2. CASE OperatorStep
  BY <1>0, <1>2, OperatorStepIsQuiet, QuietStep
<1>3. CASE SessionStep
  BY <1>0, <1>3, SelectResult, MarkResult DEF SessionStep
<1>4. CASE CpeStep
  <2>1. ASSUME NEW i \in held, AnswerFault(i) PROVE Quiet
    BY <2>1 DEF AnswerFault, Quiet, Undisturbed, Told, db, server
  <2>2. ASSUME NEW r \in reports, RecvReport(r) PROVE Quiet
    BY <2>2 DEF RecvReport, Quiet, Undisturbed, Told, db
  <2> QED
    BY <1>0, <1>4, <2>1, <2>2, QuietStep, AnswerResult, ReportResult DEF CpeStep
<1>5. CASE UpdateStep
  <2>1. ASSUME NEW u \in updates, UpdateBatch(u) PROVE Quiet
    <3>1. CancelPending(rows[u.row].batch) /\ UNCHANGED <<pick, held, reports>>
          /\ updates' \subseteq updates
      BY <2>1 DEF UpdateBatch, cpe
    <3>2. \A i \in DOMAIN rows : Undisturbed(i)
      BY <3>1, CancelTable, TableType DEF Undisturbed, Row
    <3> QED
      BY <3>1, <3>2 DEF Quiet, Told
  <2> QED
    BY <1>0, <1>5, <2>1, QuietStep, UpdateResult DEF UpdateStep
<1>6. CASE Tick
  <2>1. Quiet
    BY <1>6 DEF Tick, server, cpe, Quiet, Undisturbed, Told
  <2> QED
    BY <1>0, <2>1, QuietStep
<1>7. CASE Crash
  <2>1. Quiet
    BY <1>7 DEF Crash, db, cpe, Quiet, Undisturbed, Told
  <2> QED
    BY <1>0, <2>1, QuietStep
<1>8. CASE UNCHANGED vars
  <2>1. Quiet
    BY <1>8 DEF vars, Quiet, Undisturbed, Told
  <2> QED
    BY <1>0, <2>1, QuietStep
<1> QED
  BY <1>1, <1>2, <1>3, <1>4, <1>5, <1>6, <1>7, <1>8 DEF Next

\* With one session per device a result is never overwritten: not by the late UPDATE of
\* a session, not by a cancellation and not by a report that is sent again.
THEOREM ResultsAreFinal == OneSessionEach => (Spec => ResultIsFinal)
<1> SUFFICES ASSUME OneSessionEach PROVE Spec => ResultIsFinal
  OBVIOUS
<1> DEFINE A == \A i \in DOMAIN rows : Final(i)
<1>1. Init => ResultInv
  BY DEF Init, ResultInv
<1>2. TypeOK /\ ResultInv /\ [Next]_vars => ResultInv' /\ A
  BY ResultStep
<1>3. A => [\A i \in DOMAIN rows : rows[i].status \in Settled =>
               rows'[i].status \in {rows[i].status, "deleted"}]_vars
  BY DEF Final
<1> QED
  BY <1>1, <1>2, <1>3, TypeCorrect, PTL DEF Spec, ResultIsFinal
-----------------------------------------------------------------------------
(* The choice of Select.                                                   *)

LEMMA Least ==
    ASSUME NEW S \in SUBSET Nat, S # {}
    PROVE  \E x \in S : \A y \in S : x <= y
<1>1. IsWellFoundedOn(OpToRel(<, Nat), Nat)
  BY NatLessThanWellFounded, Zenon
<1>2. PICK x \in S : \A y \in S : <<y, x>> \notin OpToRel(<, Nat)
  BY <1>1, WFMin, Zenon
<1>3. \A y \in S : ~ (y < x)
  BY <1>2, Zenon DEF OpToRel
<1> QED
  BY <1>3

\* If a device has tasks that may be dispatched, there is one that comes first, and one only.
OneIsLatest ==
    \A d \in Device : Dispatchable(d) # {} =>
        \E i \in DOMAIN rows : \A j \in DOMAIN rows : IsLatest(j, d) <=> j = i

LEMMA Chosen == TypeOK => OneIsLatest
<1> SUFFICES ASSUME TypeOK, NEW d \in Device, Dispatchable(d) # {}
             PROVE  \E i \in DOMAIN rows : \A j \in DOMAIN rows : IsLatest(j, d) <=> j = i
  BY DEF OneIsLatest
<1> DEFINE S == Dispatchable(d)
           Ages == {rows[i].at : i \in S}
<1>1. S \subseteq DOMAIN rows /\ DOMAIN rows \subseteq Nat
  BY TableType DEF Dispatchable
<1>2. \A i \in S : rows[i].at \in Nat
  BY <1>1, TableType, ConstantsAssumption DEF Row
<1>3. PICK a \in Ages : \A y \in Ages : a <= y
  <2>1. Ages \in SUBSET Nat /\ Ages # {}
    BY <1>2
  <2> HIDE DEF Ages
  <2> QED
    BY <2>1, Least
<1> DEFINE Oldest == {i \in S : rows[i].at = a}
<1>4. PICK i \in Oldest : \A j \in Oldest : i <= j
  <2>1. Oldest \in SUBSET Nat /\ Oldest # {}
    BY <1>1, <1>3
  <2> HIDE DEF Oldest
  <2> QED
    BY <2>1, Least
<1>5. i \in S /\ \A j \in S : j = i \/ Before(i, j)
  <2>1. i \in S /\ rows[i].at = a
    BY <1>4
  <2>2. ASSUME NEW j \in S, j # i PROVE Before(i, j)
    <3>1. a <= rows[j].at /\ a \in Nat /\ rows[j].at \in Nat /\ i \in Nat /\ j \in Nat
      BY <1>1, <1>2, <1>3, <2>1
    <3>2. rows[j].at = a => i <= j
      BY <1>4
    <3> QED
      BY <2>1, <2>2, <3>1, <3>2 DEF Before
  <2> QED
    BY <2>1, <2>2
<1>6. ASSUME NEW j \in DOMAIN rows, IsLatest(j, d) PROVE j = i
  <2>1. j \in S /\ (i = j \/ Before(j, i)) /\ (j = i \/ Before(i, j))
    BY <1>5, <1>6 DEF IsLatest
  <2>2. rows[i].at \in Nat /\ rows[j].at \in Nat /\ i \in Nat /\ j \in Nat
    BY <1>1, <1>2, <1>5, <2>1
  <2> QED
    BY <2>1, <2>2 DEF Before
<1> QED
  BY <1>1, <1>5, <1>6 DEF IsLatest

\* GetLatestCwmpPresetTask always knows what to dispatch: as long as a device has tasks
\* that are pending and not too old, exactly one of them can be selected.
THEOREM SelectIsDetermined == Spec => []OneIsLatest
<1>1. TypeOK => OneIsLatest
  BY Chosen
<1> QED
  BY <1>1, TypeCorrect, PTL

-----------------------------------------------------------------------------
(* The end of a batch.                                                     *)

\* What is inserted belongs to the batch it was inserted for.
LEMMA InsertedFor ==
    ASSUME TypeOK,
           NEW d \in Device, NEW p \in PresetId \cup {NoPreset},
           NEW b \in Batch \cup {NoBatch}, NEW k \in Kind, NEW f \in OnFail,
           NEW offset \in Nat,
           Insert(d, p, b, k, f, offset)
    PROVE  rows'[Len(rows) + 1].batch = b
<1> DEFINE r == [sn |-> d, preset |-> p, batch |-> b, kind |-> k, onfail |-> f,
                 status |-> "pending", at |-> clock + offset]
<1>1. rows \in Seq(Row) /\ rows' = Append(rows, r) /\ r.batch = b
  BY DEF TypeOK, Insert
<1>2. Append(rows, r)[Len(rows) + 1] = r
  <2> HIDE DEF r
  <2> QED
    BY <1>1
<1> QED
  BY <1>1, <1>2

\* Rows are inserted for a batch as long as its job or a goroutine of it is under way.
LEMMA NotInserted ==
    ASSUME TypeOK, [Next]_vars, NEW b \in Batch, Ended(b), NEW i \in DOMAIN rows' \ DOMAIN rows
    PROVE  rows'[i].batch # b
<1> USE ConstantsAssumption
<1>1. TableStep
  BY Evolution
<1>2. i = Len(rows) + 1 /\ rows' # rows
  BY <1>1 DEF TableStep
<1>3. ASSUME NEW c \in Batch, CreateStep(c) PROVE rows'[i].batch # b
  <2> DEFINE step == Current(c).steps[job[c].next]
  <2>1. job[c] \in Job /\ Current(c) \in Content
    BY <1>3, JobTypes DEF CreateStep
  <2>2. Current(c).steps \in Seq(Step) /\ job[c].next \in Nat \ {0}
    BY <2>1 DEF Content, Job
  <2>3. job[c].next \in 1..Len(Current(c).steps)
    BY <1>3, <2>2 DEF CreateStep
  <2>4. step \in Step
    BY <2>2, <2>3, ElementOfSeq
  <2>5. Insert(job[c].sn, Current(c).id, c, step.kind, step.onfail, 0) /\ c # b
    BY <1>2, <1>3 DEF CreateStep, Ended
  <2>6. /\ job[c].sn \in Device /\ Current(c).id \in PresetId
        /\ step.kind \in Kind /\ step.onfail \in OnFail
    BY <2>1, <2>4 DEF Job, Content, Step, Kind
  <2> QED
    BY <1>2, <2>5, <2>6, InsertedFor
<1>4. ASSUME NEW a \in async, CreateSet(a) PROVE rows'[i].batch # b
  <2>1. Insert(a.sn, a.preset, a.batch, "SetParameterValues", "ignore", 0) /\ a.batch # b
    BY <1>2, <1>4 DEF CreateSet, Ended
  <2>2. a \in Async
    BY DEF TypeOK
  <2>3. /\ a.sn \in Device /\ a.preset \in PresetId /\ a.batch \in Batch
        /\ "SetParameterValues" \in Kind /\ "ignore" \in OnFail
    BY <2>2 DEF Async, Kind, OnFail
  <2> QED
    BY <1>2, <2>1, <2>3, InsertedFor
<1>5. ASSUME NEW d \in Device, NEW order \in 0..MaxOrder, CreateWifi(d, order)
      PROVE  rows'[i].batch # b
  <2>1. "Wifi" \in Kind /\ "ignore" \in OnFail /\ order \in Nat
    BY DEF Kind, OnFail
  <2>2. Insert(d, NoPreset, NoBatch, "Wifi", "ignore", order)
    BY <1>5 DEF CreateWifi
  <2> QED
    BY <1>2, <2>1, <2>2, InsertedFor
<1>6. ASSUME NEW d \in Device, CreateReboot(d) PROVE rows'[i].batch # b
  <2>1. "Reboot" \in Kind /\ "ignore" \in OnFail
    BY DEF Kind, OnFail
  <2>2. Insert(d, NoPreset, NoBatch, "Reboot", "ignore", 0)
    BY <1>6 DEF CreateReboot
  <2> QED
    BY <1>2, <2>1, <2>2, InsertedFor
<1>7. ASSUME NEW j \in DOMAIN rows, NEW st \in Status, SetStatus(j, st) PROVE FALSE
  BY <1>7, SetStatusStep
<1>8. ASSUME NEW u \in updates, UpdateBatch(u) PROVE FALSE
  BY <1>8, CancelTable DEF UpdateBatch
<1>9. ~SessionStep
  <2>1. ASSUME NEW s \in Session, Mark(s) PROVE FALSE
    <3>1. pick[s] \in DOMAIN rows /\ "running" \in Status
      BY <2>1 DEF Mark, TypeOK, Status
    <3> QED
      BY <1>7, <2>1, <3>1 DEF Mark, MarkRunning
  <2> QED
    BY <1>2, <2>1 DEF SessionStep, Select, db
<1>10. ~CpeStep
  <2>1. ASSUME NEW j \in held, NEW ok \in BOOLEAN, AnswerSet(j, ok) PROVE FALSE
    <3> DEFINE st == IF ok THEN "success" ELSE "failure"
    <3>1. j \in DOMAIN rows /\ st \in Status /\ SetStatus(j, st)
      BY <1>2, <2>1 DEF AnswerSet, TypeOK, Status
    <3> QED
      BY <1>7, <3>1
  <2> QED
    BY <1>2, <2>1 DEF CpeStep, AnswerFault, Report_, RecvReport, db
<1>11. ~UpdateStep
  <2>1. ASSUME NEW u \in updates, UpdateStatus(u) PROVE FALSE
    <3>1. u.row \in DOMAIN rows /\ Outcome(u.fault) \in Status /\ SetStatus(u.row, Outcome(u.fault))
      BY <2>1 DEF UpdateStatus, TypeOK, Status, Outcome
    <3> QED
      BY <1>7, <3>1
  <2> QED
    BY <1>8, <2>1 DEF UpdateStep
<1>12. ASSUME NEW j \in DOMAIN rows, DeleteRow(j) PROVE FALSE
  <2>1. "deleted" \in Status
    BY DEF Status
  <2> QED
    BY <1>7, <1>12, <2>1 DEF DeleteRow
<1>13. CASE JobStep
  BY <1>2, <1>3, <1>4, <1>13 DEF JobStep, StartJob, Execute, BadContent, SpawnSet, db
<1>14. CASE OperatorStep
  BY <1>5, <1>6, <1>12, <1>14 DEF OperatorStep
<1>15. ~(Tick \/ Crash \/ UNCHANGED vars)
  BY <1>2 DEF Tick, Crash, db, vars
<1> QED
  BY <1>9, <1>10, <1>11, <1>13, <1>14, <1>15 DEF Next

\* The job and the goroutines of a batch that has ended do not come back.
LEMMA NotRestarted ==
    ASSUME TypeOK, [Next]_vars, NEW b \in Batch, Ended(b)
    PROVE  /\ job'[b].started /\ job'[b].todo = <<>>
           /\ \A a \in async' : a.batch # b
<1>1. job[b].started /\ job[b].todo = <<>> /\ \A a \in async : a.batch # b
  BY DEF Ended
<1>2. job \in [Batch -> Job]
  BY DEF TypeOK
<1>3. ASSUME NEW c \in Batch, c # b, job'[b] = job[b],
             \A a \in async' : a \in async \/ a.batch = c
      PROVE  /\ job'[b].started /\ job'[b].todo = <<>>
             /\ \A a \in async' : a.batch # b
  BY <1>1, <1>3
<1>4. ASSUME NEW c \in Batch, NEW d \in Device, StartJob(c, d)
      PROVE  c # b /\ job'[b] = job[b] /\ async' = async
  BY <1>1, <1>2, <1>4 DEF StartJob
<1>5. ASSUME NEW c \in Batch, NEW d \in Device, NEW p \in PresetId, Execute(c, d, p)
      PROVE  c # b /\ job'[b] = job[b] /\ async' = async
  BY <1>1, <1>2, <1>5 DEF Execute
<1>6. ASSUME NEW c \in Batch, CreateStep(c) \/ BadContent(c)
      PROVE  c # b /\ job'[b] = job[b] /\ async' = async
  BY <1>1, <1>2, <1>6 DEF CreateStep, BadContent
<1>7. ASSUME NEW c \in Batch, SpawnSet(c)
      PROVE  c # b /\ job'[b] = job[b] /\ \A a \in async' : a \in async \/ a.batch = c
  BY <1>1, <1>2, <1>7 DEF SpawnSet
<1>8. CASE JobStep
  <2>1. ASSUME NEW a \in async, CreateSet(a) PROVE job' = job /\ async' \subseteq async
    BY <2>1 DEF CreateSet
  <2> QED
    BY <1>1, <1>3, <1>4, <1>5, <1>6, <1>7, <1>8, <2>1 DEF JobStep
<1>9. CASE Crash
  <2>1. job'[b] = [job[b] EXCEPT !.todo = <<>>] /\ async' = {}
    BY <1>9 DEF Crash
  <2> QED
    BY <1>1, <1>2, <2>1 DEF Job
<1>10. CASE OperatorStep \/ SessionStep \/ CpeStep \/ UpdateStep \/ Tick \/ UNCHANGED vars
  <2>1. job' = job /\ async' = async
    BY <1>10 DEF OperatorStep, CreateWifi, CreateReboot, DeleteRow, SessionStep, Select, Mark,
           CpeStep, AnswerSet, AnswerFault, Report_, RecvReport, UpdateStep, UpdateStatus,
           UpdateBatch, Tick, server, vars
  <2> QED
    BY <1>1, <2>1
<1> QED
  BY <1>8, <1>9, <1>10 DEF Next

\* A session that has a row in hand had it before, or has selected it while it was pending.
LEMMA PickMoves ==
    ASSUME TypeOK, [Next]_vars, NEW s \in Session, pick'[s] # 0, pick'[s] # pick[s]
    PROVE  pick'[s] \in DOMAIN rows /\ rows[pick'[s]].status = "pending"
<1>1. pick \in [Session -> {0} \cup RowId]
  BY DEF TypeOK
<1>2. PICK t \in Session : Select(t) \/ Mark(t)
  BY <1>1
     DEF Next, JobStep, StartJob, Execute, CreateStep, BadContent, SpawnSet, CreateSet,
         OperatorStep, CreateWifi, CreateReboot, DeleteRow, SessionStep, CpeStep, AnswerSet,
         AnswerFault, Report_, RecvReport, UpdateStep, UpdateStatus, UpdateBatch, Tick, Crash,
         server, vars
<1>3. CASE Mark(t)
  BY <1>1, <1>3 DEF Mark
<1>4. CASE Select(t)
  <2>1. PICK k \in DOMAIN rows : IsLatest(k, Serves[t]) /\ pick' = [pick EXCEPT ![t] = k]
    BY <1>4 DEF Select
  <2>2. pick'[s] = k
    BY <1>1, <2>1
  <2> QED
    BY <2>1, <2>2 DEF IsLatest, Dispatchable
<1> QED
  BY <1>2, <1>3, <1>4

LEMMA EndedStep ==
    ASSUME TypeOK, [Next]_vars, NEW b \in Batch, Ended(b)
    PROVE  /\ Ended(b)'
           /\ \A i \in DOMAIN rows : rows[i].batch = b => sent'[i] = sent[i]
<1>1. TableStep
  BY Evolution
<1>2. \A i \in DOMAIN rows : i \in DOMAIN rows' /\ rows'[i].batch = rows[i].batch
  BY <1>1 DEF TableStep, SameButStatus
<1>3. \A i \in DOMAIN rows' : rows'[i].batch = b => rows'[i].status # "pending"
  <2> SUFFICES ASSUME NEW i \in DOMAIN rows', rows'[i].batch = b
               PROVE  rows'[i].status # "pending"
    OBVIOUS
  <2>1. i \in DOMAIN rows
    BY NotInserted
  <2>2. rows[i].status # "pending"
    BY <1>2, <2>1 DEF Ended
  <2> QED
    BY <1>1, <2>1, <2>2 DEF TableStep, StatusStep, Settled
<1>4. \A s \in Session : pick'[s] # 0 => rows'[pick'[s]].batch # b
  <2> SUFFICES ASSUME NEW s \in Session, pick'[s] # 0 PROVE rows'[pick'[s]].batch # b
    OBVIOUS
  <2>1. CASE pick'[s] = pick[s]
    <3>1. pick[s] \in DOMAIN rows /\ rows[pick[s]].batch # b
      BY <2>1 DEF TypeOK, Ended
    <3> QED
      BY <1>2, <2>1, <3>1
  <2>2. CASE pick'[s] # pick[s]
    <3>1. pick'[s] \in DOMAIN rows /\ rows[pick'[s]].status = "pending"
      BY <2>2, PickMoves
    <3>2. rows[pick'[s]].batch # b
      BY <3>1 DEF Ended
    <3> QED
      BY <1>2, <3>1, <3>2
  <2> QED
    BY <2>1, <2>2
<1>5. \A i \in DOMAIN rows : rows[i].batch = b => sent'[i] = sent[i]
  <2> SUFFICES ASSUME NEW i \in DOMAIN rows, rows[i].batch = b PROVE sent'[i] = sent[i]
    OBVIOUS
  <2>1. ASSUME NEW s \in Session, Mark(s) PROVE sent'[i] = sent[i]
    <3>1. pick[s] # i /\ sent' = [sent EXCEPT ![pick[s]] = @ + 1]
      BY <2>1 DEF Mark, Ended
    <3>2. sent \in [RowId -> Nat] /\ i \in RowId
      BY TableType DEF TypeOK
    <3> QED
      BY <3>1, <3>2
  <2>2. CASE \A s \in Session : ~Mark(s)
    BY <2>2
       DEF Next, JobStep, StartJob, Execute, CreateStep, BadContent, SpawnSet, CreateSet,
           OperatorStep, CreateWifi, CreateReboot, DeleteRow, SessionStep, Select, CpeStep,
           AnswerSet, AnswerFault, Report_, RecvReport, UpdateStep, UpdateStatus, UpdateBatch,
           Tick, Crash, vars
  <2> QED
    BY <2>1, <2>2
<1> QED
  BY <1>3, <1>4, <1>5, NotRestarted DEF Ended

\* A batch with nothing to insert, selected or pending never comes to life again, however
\* many sessions, reports, updates and restarts there are.
THEOREM EndedBatchesAreSilent == Spec => EndedBatchIsSilent
<1> DEFINE A == \A b \in Batch : Ended(b) =>
                    /\ Ended(b)'
                    /\ \A i \in DOMAIN rows : rows[i].batch = b => sent'[i] = sent[i]
<1>1. TypeOK /\ [Next]_vars => A
  BY EndedStep
<1>2. A => [\A b \in Batch : Ended(b) =>
               /\ Ended(b)'
               /\ \A i \in DOMAIN rows : rows[i].batch = b => sent'[i] = sent[i]]_vars
  OBVIOUS
<1> QED
  BY <1>1, <1>2, TypeCorrect, PTL DEF Spec, EndedBatchIsSilent
=============================================================================
