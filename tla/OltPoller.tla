------------------------------- MODULE OltPoller -------------------------------
(***************************************************************************)
(* The SNMP poller: rounds of polls, one goroutine for every OLT, which     *)
(* write the rows of olt_onu_data one ONU at a time, against operators who  *)
(* add, change and delete OLTs and a network that does not wait for a walk  *)
(* to end.                                                                  *)
(*                                                                         *)
(* A poll works on the row of the OLT that pollAll has read: its address    *)
(* stays what it was then.  A walk is a series of requests; what the serial *)
(* numbers and the states say was true at two different times.  Rows have   *)
(* no unique index, and no row is deleted but with its OLT.                 *)
(*                                                                         *)
(* The network is external: which device an ONU is attached to and how      *)
(* often that or its state has changed.  The number of a change stands for  *)
(* the columns a walk reads.  One bound, MaxChange, counts changes of the   *)
(* network, requests of operators, failures and restarts together.          *)
(***************************************************************************)
EXTENDS Integers, Sequences, FiniteSets

CONSTANTS
    Olt,         \* ids of rows of olt_device
    Device,      \* what answers at an address
    Onu,         \* serial numbers
    Round,       \* rounds of polls that may overlap: a walk takes longer than 5 minutes
    NoDevice,    \* an ONU that is attached to nothing, an OLT not added yet
    Start,       \* [Olt -> its address at the start, or NoDevice]
    Home,        \* [Onu -> the device it is attached to at the start]
    MaxPoll,     \* bound: polls under way
    MaxChange    \* bound

ASSUME ConstantsAssumption ==
    /\ NoDevice \notin Device
    /\ IsFiniteSet(Olt) /\ IsFiniteSet(Round) /\ IsFiniteSet(Onu)
    /\ Start \in [Olt -> Device \cup {NoDevice}]
    /\ Home \in [Onu -> Device \cup {NoDevice}]
    /\ {MaxPoll, MaxChange} \subseteq Nat

VARIABLES
    olts,       \* [Olt -> the row]
    rows,       \* the rows of olt_onu_data in the order of their last UPDATE
    lastId,     \* the autoincrement of olt_onu_data
    poll,       \* [Round -> [Olt -> the goroutine]]
    deleting,   \* delete requests between their two statements
    where,      \* network: [Onu -> the device it is attached to]
    epoch,      \* network: [Onu -> the number of its changes]
    up,         \* network: [Device -> it answers]
    changes,    \* changes so far
    raced,      \* observer: OLTs polled at some time of their deletion, or whose ONUs were
                \* not deleted with them
    beside      \* observer: polls that ran beside another one of the same OLT

table == <<olts, rows, lastId>>
network == <<where, epoch, up>>
vars == <<olts, rows, lastId, poll, deleting, where, epoch, up, changes, raced, beside>>

-----------------------------------------------------------------------------
Empty == -1
Value == {Empty} \cup 0..MaxChange
Found == [onu: Onu, val: Value]
Row == [id: Nat \ {0}, olt: Olt, onu: Onu, val: Value]

OltRow == [state: {"absent", "present", "deleted"}, address: Device \cup {NoDevice},
           status: {"pending", "online", "offline"}]
Absent == [state |-> "absent", address |-> NoDevice, status |-> "pending"]
New(d) == [state |-> "present", address |-> d, status |-> "pending"]

\* todo: the ONUs found and not yet written; row: the id of the row of the first, or 0.
Poll == [pc: {"idle", "test", "online", "offline", "serials", "states", "find", "write"},
         address: Device \cup {NoDevice}, todo: Seq(Found), row: Nat]
Idle == [pc |-> "idle", address |-> NoDevice, todo |-> <<>>, row |-> 0]

Present(o) == olts[o].state = "present"
UnderWay == {x \in Round \X Olt : poll[x[1]][x[2]].pc # "idle"}
PollsOf(o) == {r \in Round : poll[r][o].pc # "idle"}

TypeOK ==
    /\ olts \in [Olt -> OltRow]
    /\ rows \in Seq(Row)
    /\ \A i \in DOMAIN rows : rows[i].id <= lastId
    /\ \A i, j \in DOMAIN rows : rows[i].id = rows[j].id => i = j
    /\ lastId \in Nat
    /\ poll \in [Round -> [Olt -> Poll]]
    /\ deleting \subseteq Olt
    /\ where \in [Onu -> Device \cup {NoDevice}]
    /\ epoch \in [Onu -> 0..MaxChange]
    /\ up \in [Device -> BOOLEAN]
    /\ changes \in 0..MaxChange
    /\ raced \subseteq Olt
    /\ beside \subseteq Round \X Olt

Init ==
    /\ olts = [o \in Olt |-> IF Start[o] = NoDevice THEN Absent ELSE New(Start[o])]
    /\ rows = <<>>
    /\ lastId = 0
    /\ poll = [r \in Round |-> [o \in Olt |-> Idle]]
    /\ deleting = {}
    /\ where = Home
    /\ epoch = [u \in Onu |-> 0]
    /\ up = [d \in Device |-> TRUE]
    /\ changes = 0
    /\ raced = {}
    /\ beside = {}

Change ==
    /\ changes < MaxChange
    /\ changes' = changes + 1

-----------------------------------------------------------------------------
(* The poller.                                                             *)

\* pollAll: SELECT, then a goroutine for every OLT.
PollAll(r) ==
    /\ \A o \in Olt : poll[r][o] = Idle
    /\ Cardinality(UnderWay) + Cardinality({o \in Olt : Present(o)}) <= MaxPoll
    /\ poll' = [poll EXCEPT ![r] = [o \in Olt |->
            IF Present(o) THEN [Idle EXCEPT !.pc = "test", !.address = olts[o].address]
                          ELSE Idle]]
    /\ beside' = beside \cup
            UNION {({r} \cup PollsOf(o)) \X {o} : o \in {q \in Olt : Present(q) /\ PollsOf(q) # {}}}
    /\ raced' = raced \cup deleting
    /\ UNCHANGED <<table, deleting, network, changes>>

Goto(r, o, pc) ==
    /\ poll' = [poll EXCEPT ![r][o].pc = pc]
    /\ UNCHANGED beside

Finish(r, o) ==
    /\ poll' = [poll EXCEPT ![r][o] = Idle]
    /\ beside' = beside \ {<<r, o>>}

\* What a request finds out: the device is there or not, and requests can be lost.
Answers(d) == up[d] /\ UNCHANGED changes
Silent(d) == (~up[d] /\ UNCHANGED changes) \/ Change

\* TestConnection.
Test(r, o) ==
    /\ poll[r][o].pc = "test"
    /\ \/ Answers(poll[r][o].address) /\ Goto(r, o, "online")
       \/ Silent(poll[r][o].address) /\ Goto(r, o, "offline")
    /\ UNCHANGED <<table, deleting, network, raced>>

\* Mutant: an OLT that does not answer keeps its status.
Status_OnlineOnly(o, result) == IF result = "online" THEN result ELSE olts[o].status

Status(o, result) == result

\* UPDATE olt_device.  Without the row it is no error, and the poll goes on.
RecordStatus(r, o) ==
    LET result == poll[r][o].pc
    IN  /\ result \in {"online", "offline"}
        /\ olts' = IF Present(o) THEN [olts EXCEPT ![o].status = Status(o, result)] ELSE olts
        /\ IF result = "online" THEN Goto(r, o, "serials") ELSE Finish(r, o)
        /\ UNCHANGED <<rows, lastId, deleting, network, changes, raced>>

Attached(d) == {u \in Onu : where[u] = d}

\* The walk over the serial numbers.  They go through a map, so the order is any.
WalkSerials(r, o) ==
    /\ poll[r][o].pc = "serials"
    /\ LET d == poll[r][o].address
       IN  \/ /\ Answers(d)
              /\ Attached(d) # {}
              /\ \E order \in [1..Cardinality(Attached(d)) -> Attached(d)] :
                    /\ \A m, n \in DOMAIN order : order[m] = order[n] => m = n
                    /\ poll' = [poll EXCEPT ![r][o].pc = "states",
                                    ![r][o].todo = [n \in DOMAIN order |->
                                        [onu |-> order[n], val |-> Empty]]]
              /\ UNCHANGED beside
           \/ Answers(d) /\ Attached(d) = {} /\ Finish(r, o)
           \/ Silent(d) /\ Finish(r, o)
    /\ UNCHANGED <<table, deleting, network, raced>>

Seen(d, u) == IF where[u] = d THEN epoch[u] ELSE Empty

\* The six walks over the other columns, one step here: one value stands for all of them.
\* Their errors are dropped; what has not been found is written as empty.  They go by the
\* port and the number of an ONU, which is taken not to pass to another ONU within a poll.
WalkStates(r, o) ==
    /\ poll[r][o].pc = "states"
    /\ LET d == poll[r][o].address
           todo == poll[r][o].todo
       IN  \/ /\ Answers(d)
              /\ poll' = [poll EXCEPT ![r][o].pc = "find",
                              ![r][o].todo = [n \in DOMAIN todo |->
                                  [todo[n] EXCEPT !.val = Seen(d, todo[n].onu)]]]
              /\ UNCHANGED beside
           \/ Silent(d) /\ Goto(r, o, "find")
    /\ UNCHANGED <<table, deleting, network, raced>>

\* Mutant: an ONU has one row, whatever OLT it is found at.
Matches_BySerial(o, u) == {i \in DOMAIN rows : rows[i].onu = u}

\* Mutant: a row without a state does not count.
Matches_Known(o, u) ==
    {i \in DOMAIN rows : rows[i].olt = o /\ rows[i].onu = u /\ rows[i].val # Empty}

Matches(o, u) == {i \in DOMAIN rows : rows[i].olt = o /\ rows[i].onu = u}

\* FirstOrCreate: SELECT the row with the lowest id, ...
Find(r, o) ==
    /\ poll[r][o].pc = "find"
    /\ LET matches == Matches(o, Head(poll[r][o].todo).onu)
       IN  IF matches = {}
           THEN poll' = [poll EXCEPT ![r][o].pc = "write", ![r][o].row = 0]
           ELSE \E i \in matches :
                    /\ \A j \in matches : rows[i].id <= rows[j].id
                    /\ poll' = [poll EXCEPT ![r][o].pc = "write", ![r][o].row = rows[i].id]
    /\ UNCHANGED <<table, deleting, network, changes, raced, beside>>

\* On to the next ONU.
NextOnu(r, o) ==
    IF Len(poll[r][o].todo) = 1
    THEN Finish(r, o)
    ELSE /\ poll' = [poll EXCEPT ![r][o].pc = "find", ![r][o].row = 0, ![r][o].todo = Tail(@)]
         /\ UNCHANGED beside

\* ... INSERT if there was none, ...
Insert(r, o) ==
    /\ poll[r][o].pc = "write"
    /\ poll[r][o].row = 0
    /\ LET found == Head(poll[r][o].todo)
       IN  rows' = Append(rows, [id |-> lastId + 1, olt |-> o, onu |-> found.onu, val |-> found.val])
    /\ lastId' = lastId + 1
    /\ NextOnu(r, o)
    /\ UNCHANGED <<olts, deleting, network, changes, raced>>

Without(i) == [j \in 1..Len(rows) - 1 |-> IF j < i THEN rows[j] ELSE rows[j + 1]]

\* Mutant: the columns are updated without updated_at.
Touched_InPlace(i, row) == [rows EXCEPT ![i] = row]

\* Mutant: the row is written once more.
Touched_Again(i, row) == Append(rows, row)

Touched(i, row) == Append(Without(i), row)

\* ... UPDATE otherwise; a row deleted meanwhile stays deleted.
Update(r, o) ==
    /\ poll[r][o].pc = "write"
    /\ poll[r][o].row # 0
    /\ LET found == {i \in DOMAIN rows : rows[i].id = poll[r][o].row}
       IN  IF found = {}
           THEN UNCHANGED rows
           ELSE \E i \in found :
                    rows' = Touched(i, [rows[i] EXCEPT !.val = Head(poll[r][o].todo).val])
    /\ NextOnu(r, o)
    /\ UNCHANGED <<olts, lastId, deleting, network, changes, raced>>

PollStep(r, o) ==
    \/ Test(r, o)
    \/ RecordStatus(r, o)
    \/ WalkSerials(r, o)
    \/ WalkStates(r, o)
    \/ Find(r, o)
    \/ Insert(r, o)
    \/ Update(r, o)

-----------------------------------------------------------------------------
(* Operators.                                                              *)

\* /admin/olt/add: the id is new.
Add(o, d) ==
    /\ olts[o] = Absent
    /\ Change
    /\ olts' = [olts EXCEPT ![o] = New(d)]
    /\ UNCHANGED <<rows, lastId, poll, deleting, network, raced, beside>>

\* /admin/olt/update.
UpdateOlt(o, d) ==
    /\ Present(o)
    /\ Change
    /\ olts' = [olts EXCEPT ![o].address = d]
    /\ UNCHANGED <<rows, lastId, poll, deleting, network, raced, beside>>

\* Mutant: the rows to delete are looked for by the wrong column.
OfOlt_None(o) == {}

OfOlt(o) == {i \in DOMAIN rows : rows[i].olt = o}

\* /admin/olt/delete: DELETE the rows of the ONUs, ...
DeleteOnus(o) ==
    /\ Present(o)
    /\ o \notin deleting
    /\ Change
    /\ \E kept \in [1..Cardinality(DOMAIN rows \ OfOlt(o)) -> DOMAIN rows \ OfOlt(o)] :
          /\ \A m, n \in DOMAIN kept : m < n => kept[m] < kept[n]
          /\ rows' = [n \in DOMAIN kept |-> rows[kept[n]]]
    /\ deleting' = deleting \cup {o}
    /\ raced' = IF PollsOf(o) # {} THEN raced \cup {o} ELSE raced \ {o}
    /\ UNCHANGED <<olts, lastId, poll, network, beside>>

\* ... whose error is dropped, ...
FailDeleteOnus(o) ==
    /\ Present(o)
    /\ o \notin deleting
    /\ Change
    /\ deleting' = deleting \cup {o}
    /\ raced' = raced \cup {o}
    /\ UNCHANGED <<table, poll, network, beside>>

\* ... then the row of the OLT.
DeleteOlt(o) ==
    /\ o \in deleting
    /\ olts' = [olts EXCEPT ![o] = [Absent EXCEPT !.state = "deleted"]]
    /\ deleting' = deleting \ {o}
    /\ UNCHANGED <<rows, lastId, poll, network, changes, raced, beside>>

\* ... whose error is dropped as well.
FailDeleteOlt(o) ==
    /\ o \in deleting
    /\ Change
    /\ deleting' = deleting \ {o}
    /\ UNCHANGED <<table, poll, network, raced, beside>>

-----------------------------------------------------------------------------
(* The network, and restarts.                                              *)

Move(u, d) ==
    /\ Change
    /\ where[u] # d
    /\ where' = [where EXCEPT ![u] = d]
    /\ epoch' = [epoch EXCEPT ![u] = @ + 1]
    /\ UNCHANGED <<table, poll, deleting, up, raced, beside>>

ChangeState(u) ==
    /\ Change
    /\ epoch' = [epoch EXCEPT ![u] = @ + 1]
    /\ UNCHANGED <<table, poll, deleting, where, up, raced, beside>>

Power(d) ==
    /\ Change
    /\ up' = [up EXCEPT ![d] = ~@]
    /\ UNCHANGED <<table, poll, deleting, where, epoch, raced, beside>>

Crash ==
    /\ Change
    /\ poll' = [r \in Round |-> [o \in Olt |-> Idle]]
    /\ beside' = {}
    /\ deleting' = {}
    /\ UNCHANGED <<table, network, raced>>

-----------------------------------------------------------------------------
Poller ==
    \/ \E r \in Round : PollAll(r)
    \/ \E r \in Round, o \in Olt : PollStep(r, o)

Operator ==
    \E o \in Olt :
        \/ \E d \in Device : Add(o, d) \/ UpdateOlt(o, d)
        \/ DeleteOnus(o) \/ FailDeleteOnus(o)
        \/ DeleteOlt(o) \/ FailDeleteOlt(o)

Network ==
    \/ \E u \in Onu, d \in Device \cup {NoDevice} : Move(u, d)
    \/ \E u \in Onu : ChangeState(u)
    \/ \E d \in Device : Power(d)

Next == Poller \/ Operator \/ Network \/ Crash

Spec == Init /\ [][Next]_vars

\* The ticker ticks and goroutines run; SNMP requests end by their timeout.
Fairness ==
    /\ WF_vars(\E r \in Round : PollAll(r))
    /\ \A r \in Round, o \in Olt : WF_vars(PollStep(r, o))
    /\ \A o \in Olt : WF_vars(DeleteOlt(o))

FairSpec == Spec /\ Fairness

-----------------------------------------------------------------------------
(* Properties.                                                             *)

\* A deleted OLT has left rows behind only if it was polled while it was deleted, from
\* its first DELETE on, or if that DELETE failed.
OrphansHaveCause ==
    \A i \in DOMAIN rows : olts[rows[i].olt].state = "deleted" => rows[i].olt \in raced

Ran(o) == \E r \in Round : <<r, o>> \in beside

\* The rows have no unique index, and SELECT and INSERT are two statements.  An OLT gets
\* a second row for an ONU only from a poll that ran beside another one of it.
OneRowPerOnu ==
    [][\A i \in DOMAIN rows' :
          (rows'[i].id > lastId /\ \E j \in DOMAIN rows : /\ rows[j].olt = rows'[i].olt
                                                          /\ rows[j].onu = rows'[i].onu)
              => Ran(rows'[i].olt)]_vars

\* A row goes back to what an older walk has seen only if the poll that writes it ran
\* beside another one of the same OLT.  (A walk that failed makes it empty.)
RowsGoForward ==
    [][\A i \in DOMAIN rows, j \in DOMAIN rows' :
          (rows[i].id = rows'[j].id /\ rows'[j].val # Empty /\ rows'[j].val < rows[i].val)
              => Ran(rows[i].olt)]_vars

\* However polls, walks that fail, deletions and restarts interleave, the table keeps its
\* promises: a row changes only to what a poll of its OLT found of its ONU, and the rows of
\* an OLT go together.
T == INSTANCE OnuTable WITH
        truth <- epoch,
        found <- [r \in Round |-> [o \in Olt |->
                    {poll[r][o].todo[n] : n \in DOMAIN poll[r][o].todo}]],
        row <- {rows[i] : i \in DOMAIN rows}

IsOnuTable == T!Spec

\* What /admin/olt/onu/:sn finds: the row updated last.
IsShown(i, u) == rows[i].onu = u /\ \A j \in DOMAIN rows : j > i => rows[j].onu # u

\* An ONU that is attached to a device some OLT stands for.
Reachable(u) == \E o \in Olt : Present(o) /\ olts[o].address = where[u] /\ up[where[u]]

\* When nothing changes any more, an ONU is shown at its OLT and in its state, however
\* many rows it has at other OLTs, at deleted ones or twice.
SettledIsShown ==
    <>[](\A u \in Onu : Reachable(u) =>
            \E i \in DOMAIN rows :
                /\ IsShown(i, u)
                /\ olts[rows[i].olt].address = where[u]
                /\ rows[i].val = epoch[u])

\* When nothing changes any more, the status of an OLT is right, whatever polls of an
\* older address or an earlier time were under way.
StatusSettles ==
    <>[](\A o \in Olt : Present(o) => olts[o].status = IF up[olts[o].address] THEN "online" ELSE "offline")
=============================================================================
