--------------------------- MODULE CwmpOrderProofs ---------------------------
(***************************************************************************)
(* The last command wins in CwmpSession, but for the excuses named there:   *)
(* for every set of commands and parts, every capacity of the lanes, every  *)
(* timeout and window and any number of faults.                            *)
(***************************************************************************)
EXTENDS CwmpSessionProofs

-----------------------------------------------------------------------------
(* What a step may do to a command.                                        *)

Ended(c) == op[c].pc \in {"done", "failed"}

\* What is over stays over, and what was noted stays noted.
LEMMA Monotone ==
    ASSUME TypeOK, AtPart, [Next]_vars
    PROVE  /\ cut \subseteq cut' /\ stranded \subseteq stranded'
           /\ dropped \subseteq dropped' /\ ahead \subseteq ahead'
           /\ \A c \in Command : /\ Ended(c) => op'[c].pc = op[c].pc
                                 /\ op[c].pc # "idle" => op'[c].pc # "idle"
<1>1. cut \subseteq cut' /\ stranded \subseteq stranded'
  BY DEF Next, CommandStep, Begin, SendPart, GiveUpPart, InsertPart, FailPart, AcsStep,
         InsertDownload, Fetch, AskTask, AskLane, AskNext, NoContent, CpeStep, Inform,
         TransferComplete, EmptyPost, Respond, LoseReply, LoseResponse, Tick, Crash, Cut,
         observers, vars
<1>2. dropped \subseteq dropped' /\ ahead \subseteq ahead'
  BY DEF Next, CommandStep, Begin, SendPart, GiveUpPart, InsertPart, FailPart, AcsStep,
         InsertDownload, Fetch, AskTask, AskLane, AskNext, NoContent, CpeStep, Inform,
         TransferComplete, EmptyPost, Respond, LoseReply, LoseResponse, Tick, Crash,
         observers, vars
<1>3. ASSUME NEW c \in Command
      PROVE  /\ Ended(c) => op'[c].pc = op[c].pc
             /\ op[c].pc # "idle" => op'[c].pc # "idle"
  <2>1. op \in [Command -> Handler] /\ op[c] \in Handler
    BY DEF TypeOK
  <2>2. CASE op' = op
    BY <2>2
  <2>3. ASSUME NEW x \in Command, CommandStep(x), op' # op
        PROVE  \E h : h.pc # "idle" /\ op' = [op EXCEPT ![x] = h] /\ ~Ended(x)
    <3>1. op[x] \in Handler
      BY <2>1
    <3>2. CASE Begin(x)
      BY <3>1, <3>2 DEF Begin, Handler, Ended
    <3>3. CASE SendPart(x) \/ GiveUpPart(x)
      BY <3>3 DEF SendPart, GiveUpPart, ToInsert, Ended
    <3>4. CASE InsertPart(x)
      BY <3>1, <3>4 DEF InsertPart, Handler, Ended
    <3>5. CASE FailPart(x)
      BY <3>1, <3>5 DEF FailPart, Handler, Ended
    <3> QED
      BY <2>3, <3>2, <3>3, <3>4, <3>5 DEF CommandStep
  <2>4. CASE \E x \in Command : CommandStep(x)
    BY <2>1, <2>2, <2>3, <2>4 DEF Ended
  <2>5. CASE Tick
    BY <2>1, <2>5 DEF Tick, Handler
  <2>6. CASE Crash
    BY <2>1, <2>6 DEF Crash, Handler, Ended
  <2>7. CASE AcsStep \/ CpeStep \/ UNCHANGED vars
    <3>1. op' = op
      BY <2>7 DEF AcsStep, InsertDownload, Fetch, AskTask, AskLane, AskNext, NoContent,
                  CpeStep, Inform, TransferComplete, EmptyPost, Respond, LoseReply,
                  LoseResponse, server, vars
    <3> QED
      BY <2>2, <3>1
  <2> QED
    BY <2>4, <2>5, <2>6, <2>7 DEF Next
<1> QED
  BY <1>1, <1>2, <1>3

LEMMA EndedIsInserted == ASSUME NEW m, Ended(m.cmd) PROVE ~ToRow(m)
BY DEF Ended, ToRow

\* A part stays to be inserted until its row is there or its command has failed.
LEMMA ToRowMoves ==
    ASSUME TypeOK, AtPart, [Next]_vars, NEW m \in Setting
    PROVE  /\ ToRow(m)' => ToRow(m)
           /\ ToRow(m) /\ ~ToRow(m)' => InRows(m)' \/ op'[m.cmd].pc = "failed"
<1> DEFINE Goal == /\ ToRow(m)' => ToRow(m)
                   /\ ToRow(m) /\ ~ToRow(m)' => InRows(m)' \/ op'[m.cmd].pc = "failed"
<1>0. op \in [Command -> Handler] /\ m.cmd \in Command /\ op[m.cmd] \in Handler
  BY Requests DEF TypeOK
<1>1. ASSUME NEW c \in Command, Begin(c) PROVE Goal
  <2>1. op' = [op EXCEPT ![c] = [op[c] EXCEPT !.pc = "send"]] /\ op[c] \in Handler
        /\ op[c].pc = "idle" /\ op[c].n = 1
    BY <1>0, <1>1 DEF Begin, AtPart
  <2>2. op'[m.cmd] = op[m.cmd] \/ (m.cmd = c /\ op'[c].pc = "send" /\ op'[c].n = 1)
    BY <1>0, <2>1 DEF Handler
  <2>3. \A n \in DOMAIN Parts[m.cmd] : 1 <= n
    BY <1>0, PartTypes
  <2> QED
    BY <2>1, <2>2, <2>3 DEF ToRow
<1>2. ASSUME NEW c \in Command, SendPart(c) \/ GiveUpPart(c) PROVE Goal
  <2>1. op[c].pc = "send" /\ ToInsert(c)
    BY <1>2 DEF SendPart, GiveUpPart
  <2>2. op' = [op EXCEPT ![c] = [pc |-> "insert", n |-> op[c].n, waited |-> 0]]
    BY <2>1, ToInsertMoves
  <2>3. op'[m.cmd] = op[m.cmd] \/ (m.cmd = c /\ op'[c].pc = "insert" /\ op'[c].n = op[c].n)
    BY <1>0, <2>2
  <2> QED
    BY <2>1, <2>3 DEF ToRow
<1>3. ASSUME NEW c \in Command, InsertPart(c) PROVE Goal
  <2>1. ToRow(m)' => ToRow(m)
    BY <1>3, AfterInsertCount
  <2>2. CASE m = Set(c, Current(c))
    <3>1. InRows(m)'
      <4> DEFINE r == [what |-> Set(c, Current(c)), age |-> -Offset(c)]
      <4>1. r \in Row
        <5>1. Set(c, Current(c)) \in Request /\ -Offset(c) \in Int
          BY <1>3, AtCurrent, Requests DEF InsertPart, Offset
        <5> QED
          BY <5>1 DEF Row
      <4>2. rows' = Append(rows, r) /\ r.what = m
        BY <1>3, <2>2 DEF InsertPart
      <4> HIDE DEF r
      <4> QED
        BY <4>1, <4>2, RowAppended
    <3> QED
      BY <2>1, <3>1
  <2>3. CASE m # Set(c, Current(c))
    <3>1. /\ op[c].pc = "insert"
          /\ op' = [op EXCEPT ![c] = IF op[c].n = Len(Parts[c])
                                     THEN [op[c] EXCEPT !.pc = "done"]
                                     ELSE [pc |-> "send", n |-> op[c].n + 1, waited |-> 0]]
      BY <1>3 DEF InsertPart
    <3>2. /\ op[c].n \in Nat /\ op[c].n \in DOMAIN Parts[c] /\ DOMAIN Parts[c] = 1..Len(Parts[c])
          /\ Len(Parts[c]) \in Nat
          /\ m.cmd = c => m.part # Parts[c][op[c].n]
      BY <2>3, <3>1, AtCurrent, PartTypes
    <3>3. CASE m.cmd # c
      <4>1. op'[m.cmd] = op[m.cmd]
        BY <1>0, <3>1, <3>3
      <4> QED
        BY <4>1 DEF ToRow
    <3>4. CASE m.cmd = c
      <4> SUFFICES ASSUME ToRow(m) PROVE ToRow(m)'
        BY <2>1
      <4>1. PICK n \in DOMAIN Parts[c] : Parts[c][n] = m.part /\ op[c].n <= n
        BY <3>1, <3>4 DEF ToRow
      <4>2. op[c].n + 1 <= n /\ op[c].n # Len(Parts[c])
        BY <3>2, <3>4, <4>1
      <4>3. op'[c].pc = "send" /\ op'[c].n = op[c].n + 1
        BY <1>0, <3>1, <4>2
      <4> QED
        BY <3>4, <4>1, <4>2, <4>3 DEF ToRow
    <3> QED
      BY <3>3, <3>4
  <2> QED
    BY <2>2, <2>3
<1>4. ASSUME NEW c \in Command, FailPart(c) PROVE Goal
  <2>1. op'[m.cmd].pc = "failed" \/ op'[m.cmd] = op[m.cmd]
    BY <1>0, <1>4 DEF FailPart, Handler
  <2> QED
    BY <2>1 DEF ToRow
<1>5. CASE Tick
  <2>1. op'[m.cmd].pc = op[m.cmd].pc /\ op'[m.cmd].n = op[m.cmd].n
    BY <1>0, <1>5 DEF Tick, Handler
  <2> QED
    BY <2>1 DEF ToRow
<1>6. CASE Crash
  <2>1. op'[m.cmd].pc = "failed" \/ op'[m.cmd] = op[m.cmd]
    BY <1>0, <1>6 DEF Crash, Handler
  <2> QED
    BY <2>1 DEF ToRow
<1>7. CASE AcsStep \/ CpeStep \/ UNCHANGED vars
  <2>1. op' = op
    BY <1>7 DEF AcsStep, InsertDownload, Fetch, AskTask, AskLane, AskNext, NoContent,
                CpeStep, Inform, TransferComplete, EmptyPost, Respond, LoseReply,
                LoseResponse, server, vars
  <2> QED
    BY <2>1, OpUnchanged
<1> QED
  BY <1>1, <1>2, <1>3, <1>4, <1>5, <1>6, <1>7 DEF Next, CommandStep

\* What was over when a command began.
LEMMA BeforeMoves ==
    ASSUME TypeOK, AtPart, [Next]_vars,
           NEW d \in Command, NEW c \in before'[d], c \notin before[d]
    PROVE  Begin(d) /\ c \in Over /\ c # d /\ c \in Command
<1>1. CASE \E x \in Command : Begin(x)
  <2>1. PICK x \in Command : Begin(x)
    BY <1>1
  <2>2. before' = [before EXCEPT ![x] = Over] /\ op[x].pc = "idle"
    BY <2>1 DEF Begin
  <2>3. x = d /\ c \in Over
    BY <2>2 DEF TypeOK
  <2> QED
    BY <2>1, <2>2, <2>3 DEF Over
<1>2. CASE ~\E x \in Command : Begin(x)
  <2>1. before' = before
    BY <1>2 DEF Next, CommandStep, SendPart, GiveUpPart, InsertPart, FailPart, AcsStep,
           InsertDownload, Fetch, AskTask, AskLane, AskNext, NoContent, CpeStep, Inform,
           TransferComplete, EmptyPost, Respond, LoseReply, LoseResponse, Tick, Crash,
           observers, vars
  <2> QED
    BY <2>1
<1> QED
  BY <1>1, <1>2

\* A command that has begun has yet to insert all its parts.
LEMMA BegunToRow ==
    ASSUME TypeOK, AtPart, NEW d \in Command, Begin(d), NEW p \in Sets(d)
    PROVE  /\ Set(d, p) \in Setting /\ ToRow(Set(d, p)) /\ ToRow(Set(d, p))'
           /\ op'[d].pc # "idle" /\ rows' = rows
<1>1. /\ op' = [op EXCEPT ![d] = [op[d] EXCEPT !.pc = "send"]] /\ op[d] \in Handler
      /\ op \in [Command -> Handler]
      /\ op[d].pc = "idle" /\ op[d].n = 1 /\ rows' = rows
  BY DEF Begin, AtPart, TypeOK
<1>2. op'[d].pc = "send" /\ op'[d].n = 1
  BY <1>1 DEF Handler
<1>3. PICK n \in DOMAIN Parts[d] : Parts[d][n] = p
  BY DEF Sets
<1>4. 1 <= n /\ p \in Part
  BY <1>3, PartTypes
<1> QED
  BY <1>1, <1>2, <1>3, <1>4, Requests DEF ToRow, Set

-----------------------------------------------------------------------------
(* What a step may do to a request.                                        *)

\* The second that passes takes no rows but the old ones.
LEMMA TickKeeps ==
    ASSUME TypeOK, Tick
    PROVE  \E kept \in [DOMAIN rows' -> DOMAIN rows] :
              /\ \A n \in DOMAIN rows' : kept[n] \in Lasting
              /\ \A m, n \in DOMAIN rows' : m < n => kept[m] < kept[n]
              /\ \A n \in DOMAIN rows' : /\ rows'[n].what = rows[kept[n]].what
                                         /\ rows'[n].age = rows[kept[n]].age + 1
              /\ \A i \in Lasting : \E n \in DOMAIN rows' : kept[n] = i
<1>1. Len(rows) \in Nat /\ DOMAIN rows = 1..Len(rows)
      /\ \A i \in DOMAIN rows : rows[i] \in Row
  BY RowsType
<1>2. Lasting \subseteq DOMAIN rows
  BY DEF Lasting
<1>3. IsFiniteSet(Lasting) /\ Cardinality(Lasting) \in Nat
  <2>1. IsFiniteSet(1..Len(rows))
    BY <1>1, FS_Interval
  <2> QED
    BY <1>1, <1>2, <2>1, FS_Subset, FS_CardinalityType
<1> DEFINE K == 1..Cardinality(Lasting)
<1>4. PICK kept \in [K -> Lasting] :
          /\ \A m, n \in DOMAIN kept : m < n => kept[m] < kept[n]
          /\ rows' = [n \in DOMAIN kept |-> [rows[kept[n]] EXCEPT !.age = @ + 1]]
  BY DEF Tick
<1>5. DOMAIN kept = K /\ \A n \in K : kept[n] \in DOMAIN rows
  BY <1>2, <1>4
<1>6. DOMAIN rows' = K
  BY <1>4, <1>5
<1>7. \A n \in K : rows'[n].what = rows[kept[n]].what /\ rows'[n].age = rows[kept[n]].age + 1
  BY <1>1, <1>4, <1>5 DEF Row
<1>8. \A m, n \in K : m # n => kept[m] # kept[n]
  <2> SUFFICES ASSUME NEW m \in K, NEW n \in K, m # n PROVE kept[m] # kept[n]
    OBVIOUS
  <2>1. m < n \/ n < m
    BY <1>3
  <2>2. kept[m] \in Nat /\ kept[n] \in Nat
    BY <1>1, <1>5
  <2> QED
    BY <1>4, <1>5, <2>1, <2>2
<1>9. kept \in Surjection(K, Lasting)
  <2>1. kept \in Injection(K, Lasting)
    BY <1>8 DEF Injection, IsInjective
  <2>2. Cardinality(K) = Cardinality(Lasting)
    BY <1>3, FS_Interval
  <2> QED
    BY <1>3, <2>1, <2>2, FS_Injection
<1>10. \A i \in Lasting : \E n \in K : kept[n] = i
  BY <1>9 DEF Surjection
<1>11. kept \in [DOMAIN rows' -> DOMAIN rows]
  BY <1>5, <1>6
<1>12. \A m, n \in DOMAIN rows' : m < n => kept[m] < kept[n]
  BY <1>4, <1>5, <1>6
<1>13. \A n \in DOMAIN rows' : /\ rows'[n].what = rows[kept[n]].what
                               /\ rows'[n].age = rows[kept[n]].age + 1
  BY <1>6, <1>7
<1>14. \A i \in Lasting : \E n \in DOMAIN rows' : kept[n] = i
  BY <1>6, <1>10
<1>15. \A n \in DOMAIN rows' : kept[n] \in Lasting
  BY <1>4, <1>6
<1> QED
  BY <1>11, <1>12, <1>13, <1>14, <1>15, Zenon

\* A restart loses the messages.
LEMMA EmptyLanes == ASSUME Crash, NEW m PROVE ~InLane(m)'
<1>1. lane'[TRUE] = <<>>
  <2>1. lane' = [hp \in BOOLEAN |-> <<>>]
    BY DEF Crash
  <2> QED
    BY <2>1, Zenon
<1>2. DOMAIN <<>> = {}
  OBVIOUS
<1>3. DOMAIN lane'[TRUE] = {}
  BY <1>1, <1>2, Zenon
<1> QED
  BY <1>3, Zenon DEF InLane, Has

LEMMA RowsOrRest ==
    ASSUME [Next]_vars
    PROVE  \/ rows' = rows
           \/ \E c \in Command : InsertPart(c)
           \/ InsertDownload \/ AskTask \/ Tick
BY DEF Next, CommandStep, Begin, SendPart, GiveUpPart, FailPart, AcsStep,
       Fetch, AskLane, AskNext, NoContent, CpeStep, Inform, TransferComplete,
       EmptyPost, Respond, LoseReply, LoseResponse, Crash, server, vars

LEMMA InsertedRow ==
    ASSUME TypeOK, AtPart, NEW c \in Command, InsertPart(c)
    PROVE  /\ rows' = Append(rows, [what |-> Set(c, Current(c)), age |-> -Offset(c)])
           /\ [what |-> Set(c, Current(c)), age |-> -Offset(c)] \in Row
           /\ Set(c, Current(c)) \in Setting
<1>1. op[c].n \in DOMAIN Parts[c] /\ DOMAIN Parts[c] \subseteq Nat
  BY PartTypes DEF InsertPart, AtPart
<1>2. Set(c, Current(c)) \in Setting /\ Set(c, Current(c)) \in Request /\ -Offset(c) \in Int
  BY <1>1, PartTypes, Requests DEF Current, Offset
<1> QED
  BY <1>2 DEF InsertPart, Row

LEMMA DownloadRow ==
    ASSUME InsertDownload
    PROVE  /\ rows' = Append(rows, [what |-> Download, age |-> 0])
           /\ [what |-> Download, age |-> 0] \in Row
           /\ \A m \in Setting : Download # m
BY Requests DEF InsertDownload, Row, Download

\* A row is there because its part was to be inserted.
LEMMA RowComes ==
    ASSUME TypeOK, AtPart, [Next]_vars, NEW m \in Setting, InRows(m)', ~InRows(m)
    PROVE  ToRow(m)
<1>1. CASE rows' = rows
  BY <1>1, RowsUnchanged
<1>2. ASSUME NEW c \in Command, InsertPart(c) PROVE ToRow(m)
  <2> DEFINE r == [what |-> Set(c, Current(c)), age |-> -Offset(c)]
  <2>1. rows' = Append(rows, r) /\ r \in Row /\ r.what = Set(c, Current(c))
    BY <1>2, InsertedRow
  <2>2. m = Set(c, Current(c))
    <3> HIDE DEF r
    <3> QED
      BY <2>1, RowAppended
  <2> QED
    BY <1>2, <2>2, AfterInsertCount
<1>3. CASE InsertDownload
  <2> DEFINE r == [what |-> Download, age |-> 0]
  <2>1. rows' = Append(rows, r) /\ r \in Row /\ r.what # m
    BY <1>3, DownloadRow
  <2> HIDE DEF r
  <2> QED
    BY <2>1, RowAppended
<1>4. CASE AskTask
  BY <1>4, RowTaken DEF AskTask
<1>5. CASE Tick
  BY <1>5, TickKeeps DEF InRows
<1> QED
  BY <1>1, <1>2, <1>3, <1>4, <1>5, RowsOrRest

\* What is not selected stays.
LEMMA OthersStay ==
    ASSUME TypeOK, NEW k \in DOMAIN rows, rows' = Without(k),
           NEW m, InRows(m), rows[k].what # m
    PROVE  InRows(m)'
<1>1. PICK j \in DOMAIN rows : rows[j].what = m
  BY DEF InRows
<1>2. /\ rows' \in Seq(Row) /\ Len(rows') = Len(rows) - 1
      /\ Len(rows) \in Nat /\ DOMAIN rows = 1..Len(rows)
      /\ \A n \in 1..Len(rows) - 1 : rows'[n] = IF n < k THEN rows[n] ELSE rows[n + 1]
  BY WithoutType, RowsType
<1>3. DOMAIN rows' = 1..Len(rows) - 1
  BY <1>2
<1>4. j < k \/ k < j
  BY <1>1, <1>2
<1>5. CASE j < k
  <2>1. j \in DOMAIN rows' /\ rows'[j] = rows[j]
    BY <1>2, <1>3, <1>5
  <2> QED
    BY <1>1, <2>1 DEF InRows
<1>6. CASE k < j
  <2>1. j - 1 \in DOMAIN rows' /\ rows'[j - 1] = rows[j]
    BY <1>2, <1>3, <1>6
  <2> QED
    BY <1>1, <2>1 DEF InRows
<1> QED
  BY <1>4, <1>5, <1>6

\* A row that is gone got too old, or its request is what the CPE was sent.
LEMMA RowLeaves ==
    ASSUME TypeOK, AtPart, [Next]_vars, NEW m \in Setting, InRows(m), ~InRows(m)'
    PROVE  TargetOf(m) \in dropped' \/ (AskTask /\ InHand(m)')
<1>1. CASE rows' = rows
  BY <1>1, RowsUnchanged
<1>2. ASSUME NEW c \in Command, InsertPart(c) PROVE FALSE
  <2> DEFINE r == [what |-> Set(c, Current(c)), age |-> -Offset(c)]
  <2>1. rows' = Append(rows, r) /\ r \in Row
    BY <1>2, InsertedRow
  <2> HIDE DEF r
  <2> QED
    BY <2>1, RowAppended
<1>3. CASE InsertDownload
  <2> DEFINE r == [what |-> Download, age |-> 0]
  <2>1. rows' = Append(rows, r) /\ r \in Row
    BY <1>3, DownloadRow
  <2> HIDE DEF r
  <2> QED
    BY <2>1, RowAppended
<1>4. CASE AskTask
  <2>1. PICK k \in DOMAIN rows : Deliver(rows[k].what) /\ rows' = Without(k)
    BY <1>4 DEF AskTask
  <2>2. CASE rows[k].what = m
    BY <1>4, <2>1, <2>2 DEF Deliver, Executing, State, InHand
  <2>3. CASE rows[k].what # m
    BY <2>1, <2>3, OthersStay
  <2> QED
    BY <2>2, <2>3
<1>5. CASE Tick
  <2>1. PICK j \in DOMAIN rows : rows[j].what = m
    BY DEF InRows
  <2>2. j \notin Lasting
    BY <1>5, <2>1, TickKeeps DEF InRows
  <2>3. m.kind = "Set"
    BY Requests
  <2> QED
    BY <1>5, <2>1, <2>2, <2>3 DEF Tick
<1> QED
  BY <1>1, <1>2, <1>3, <1>4, <1>5, RowsOrRest

\* A message is put in the lane while its row is still to be inserted.
LEMMA LaneComes ==
    ASSUME TypeOK, AtPart, [Next]_vars, NEW m \in Setting, InLane(m)', ~InLane(m)
    PROVE  ToRow(m)'
<1>0. lane \in [BOOLEAN -> Seq(Request)]
  BY Zenon DEF TypeOK
<1>1. CASE lane' = lane
  BY <1>1, LaneUnchanged
<1>2. ASSUME NEW c \in Command, SendPart(c) PROVE ToRow(m)'
  <2> DEFINE x == Set(c, Current(c))
  <2>1. x \in Request /\ lane[TRUE] \in Seq(Request)
    BY <1>2, AtCurrent, Requests, LaneTypes DEF SendPart
  <2>2. lane' = [lane EXCEPT ![TRUE] = Append(@, x)]
    BY <1>2, Zenon DEF SendPart
  <2>3. lane'[TRUE] = Append(lane[TRUE], x)
    BY <1>0, <2>2, Zenon
  <2>4. m = x
    <3> HIDE DEF x
    <3>1. Has(Append(lane[TRUE], x), m) <=> Has(lane[TRUE], m) \/ x = m
      BY <2>1, HasAppended, Zenon
    <3> QED
      BY <2>3, <3>1, Zenon DEF InLane, Has
  <2>5. /\ op'[c].pc = "insert" /\ op'[c].n = op[c].n
    <3>1. op[c].pc = "send" /\ ToInsert(c) /\ op \in [Command -> Handler]
      BY <1>2 DEF SendPart, TypeOK
    <3>2. op' = [op EXCEPT ![c] = [pc |-> "insert", n |-> op[c].n, waited |-> 0]]
      BY <3>1, ToInsertMoves
    <3> QED
      BY <3>1, <3>2
  <2>6. m.cmd = c /\ m.part = Parts[c][op[c].n] /\ op[c].n \in DOMAIN Parts[c] /\ op[c].n \in Nat
    BY <1>2, <2>4, AtCurrent DEF SendPart
  <2>7. op[c].n <= op[c].n
    BY <2>6
  <2> QED
    BY <2>5, <2>6, <2>7 DEF ToRow
<1>3. CASE Fetch
  <2>1. lane' = lane \/ lane' = [lane EXCEPT ![FALSE] = Append(lane[FALSE], Get)]
    BY <1>3, Zenon DEF Fetch
  <2>2. Append(lane[FALSE], Get) \in Seq(Request)
    BY Requests, LaneTypes, AppendTo
  <2> QED
    BY <1>0, <1>1, <2>1, <2>2, NormalLane
<1>4. CASE AskLane(TRUE)
  <2>1. lane[TRUE] \in Seq(Request) /\ lane[TRUE] # <<>>
        /\ lane' = [lane EXCEPT ![TRUE] = Tail(lane[TRUE])]
    BY <1>4, LaneTypes, Zenon DEF AskLane, Rest
  <2>2. lane'[TRUE] = Tail(lane[TRUE])
    BY <1>0, <2>1, Zenon
  <2>3. Has(Tail(lane[TRUE]), m) => Has(lane[TRUE], m)
    BY <2>1, HasTail, Zenon
  <2> QED
    BY <2>2, <2>3, Zenon DEF InLane, Has
<1>5. CASE AskLane(FALSE)
  <2>1. lane[FALSE] \in Seq(Request) /\ lane[FALSE] # <<>>
        /\ lane' = [lane EXCEPT ![FALSE] = Tail(lane[FALSE])]
    BY <1>5, LaneTypes, Zenon DEF AskLane, Rest
  <2>2. Tail(lane[FALSE]) \in Seq(Request)
    BY <2>1, TailOf, Zenon
  <2> QED
    BY <1>0, <2>1, <2>2, NormalLane
<1>6. CASE Crash
  BY <1>6, EmptyLanes
<1>7. \A hp \in BOOLEAN : AskLane(hp) => AskLane(TRUE) \/ AskLane(FALSE)
  BY Zenon
<1>8. \/ lane' = lane \/ (\E c \in Command : SendPart(c)) \/ Fetch
      \/ (\E hp \in BOOLEAN : AskLane(hp)) \/ Crash
  BY Zenon DEF Next, CommandStep, Begin, GiveUpPart, InsertPart, FailPart, AcsStep,
         InsertDownload, AskTask, AskNext, NoContent, CpeStep, Inform, TransferComplete,
         EmptyPost, Respond, LoseReply, LoseResponse, Tick, server, vars
<1> QED
  BY <1>1, <1>2, <1>3, <1>4, <1>5, <1>6, <1>7, <1>8, Zenon

\* The steps that move the session.
LEMMA SessionMoves ==
    ASSUME [Next]_vars, session' # session
    PROVE  \/ AskTask \/ AskLane(TRUE) \/ AskLane(FALSE) \/ AskNext \/ NoContent
           \/ (\E periodic \in BOOLEAN : Inform(periodic)) \/ TransferComplete \/ EmptyPost
           \/ Respond \/ LoseReply \/ LoseResponse \/ Crash
<1>1. (\E hp \in BOOLEAN : AskLane(hp)) => AskLane(TRUE) \/ AskLane(FALSE)
  BY Zenon
<1>2. ~Tick /\ ~InsertDownload /\ ~Fetch /\ ~\E c \in Command : CommandStep(c)
  BY Zenon DEF CommandStep, Begin, SendPart, GiveUpPart, InsertPart, FailPart,
         InsertDownload, Fetch, Tick
<1> QED
  BY <1>1, <1>2, Zenon DEF Next, AcsStep, CpeStep, vars

\* The steps that do so without a request.
LEMMA NothingSent ==
    ASSUME session' # session,
           \/ AskNext \/ NoContent \/ (\E periodic \in BOOLEAN : Inform(periodic))
           \/ TransferComplete \/ EmptyPost \/ Respond \/ LoseReply \/ LoseResponse \/ Crash
    PROVE  session'.pc # "executing"
<1>1. Closed.pc # "executing" /\ Informed.pc # "executing"
      /\ \A s : Asking(s).pc # "executing"
  BY DEF Closed, Informed, Asking, State
<1>2. \/ session' \in {Closed, Informed}
      \/ \E s : session' = Asking(s)
  BY Zenon DEF AskNext, NoContent, Inform, TransferComplete, EmptyPost, Respond, LoseReply,
         LoseResponse, Crash
<1> QED
  BY <1>1, <1>2, Zenon

\* What the CPE is sent was in the lane or in a row.
LEMMA HandComes ==
    ASSUME TypeOK, [Next]_vars, NEW m \in Setting, InHand(m)', ~InHand(m)
    PROVE  InLane(m) \/ InRows(m)
<1>1. CASE session' = session
  BY <1>1, SessionUnchanged
<1>2. CASE AskTask
  <2>1. PICK k \in DOMAIN rows : session' = Executing(rows[k].what)
    BY <1>2 DEF AskTask, Deliver
  <2>2. rows[k].what = m
    BY <2>1 DEF InHand, Executing, State
  <2> QED
    BY <2>2 DEF InRows
<1>3. CASE AskLane(TRUE)
  <2>1. Head(lane[TRUE]) = m /\ lane[TRUE] # <<>>
    BY <1>3 DEF AskLane, Deliver, InHand, Executing, State
  <2>2. lane[TRUE] \in Seq(Setting)
    BY DEF TypeOK
  <2>3. Has(lane[TRUE], Head(lane[TRUE]))
    BY <2>1, <2>2, HasTail, Zenon
  <2> QED
    BY <2>1, <2>3, Zenon DEF InLane
<1>4. CASE AskLane(FALSE)
  <2>1. Head(lane[FALSE]) = m /\ lane[FALSE] # <<>>
    BY <1>4 DEF AskLane, Deliver, InHand, Executing, State
  <2>2. lane[FALSE] \in Seq({Get})
    BY DEF TypeOK
  <2>3. m \in {Get}
    BY <2>1, <2>2, TailOf, Zenon
  <2> QED
    BY <2>3, Requests DEF Get
<1>5. CASE session' # session /\ ~AskTask /\ ~AskLane(TRUE) /\ ~AskLane(FALSE)
  <2>1. session'.pc # "executing"
    BY <1>5, SessionMoves, NothingSent, Zenon
  <2> QED
    BY <2>1 DEF InHand
<1> QED
  BY <1>1, <1>2, <1>3, <1>4, <1>5

\* A request ends with its response or with a failure.
LEMMA HandEnds ==
    ASSUME [Next]_vars, NEW m, InHand(m), ~InHand(m)'
    PROVE  Respond \/ LoseReply \/ LoseResponse
<1>1. session' # session
  BY SessionUnchanged
<1>2. session.pc = "executing" /\ Closed.pc # "executing" /\ Informed.pc # "executing"
      /\ \A s : Asking(s).pc # "executing"
  BY DEF InHand, Closed, Informed, Asking, State
<1>3. ~AskTask /\ ~AskLane(TRUE) /\ ~AskLane(FALSE) /\ ~AskNext
  BY <1>2 DEF AskTask, AskLane, AskNext
<1>4. /\ ~NoContent /\ ~TransferComplete /\ ~EmptyPost
      /\ ~(\E periodic \in BOOLEAN : Inform(periodic))
  BY <1>2 DEF NoContent, TransferComplete, EmptyPost, Inform
<1>5. ~Crash
  BY <1>1, <1>2 DEF Crash
<1> QED
  BY <1>1, <1>3, <1>4, <1>5, SessionMoves, Zenon

\* A request ends with the CPE having its values, or is noted as cut.
LEMMA HandLeaves ==
    ASSUME TypeOK, [Next]_vars, NEW m \in Setting, InHand(m), ~InHand(m)'
    PROVE  device'[m.part] = m.cmd \/ TargetOf(m) \in cut'
<1>2. Respond \/ LoseReply \/ LoseResponse
  BY HandEnds
<1>3. session.what = m /\ m.kind = "Set" /\ m.part \in Part
  BY Requests DEF InHand
<1>4. CASE Respond \/ LoseResponse
  <2>1. device' = [device EXCEPT ![m.part] = m.cmd]
    BY <1>3, <1>4 DEF Respond, LoseResponse, Do
  <2> QED
    BY <1>3, <2>1 DEF TypeOK
<1>5. CASE LoseReply
  BY <1>3, <1>5 DEF LoseReply, Cut
<1> QED
  BY <1>2, <1>4, <1>5

\* The values of the CPE are those of the last request it has executed.
LEMMA DeviceMoves ==
    ASSUME TypeOK, [Next]_vars, NEW p \in Part, device'[p] # device[p]
    PROVE  \E x \in Command : InHand(Set(x, p)) /\ device'[p] = x
<1>1. Respond \/ LoseResponse
  BY DEF Next, CommandStep, Begin, SendPart, GiveUpPart, InsertPart, FailPart,
         AcsStep, InsertDownload, Fetch, AskTask, AskLane, AskNext, NoContent, CpeStep,
         Inform, TransferComplete, EmptyPost, LoseReply, Tick, Crash, cpe, vars
<1> DEFINE r == session.what
<1>2. session.pc = "executing" /\ Do(r)
  BY <1>1 DEF Respond, LoseResponse
<1>3. r.kind = "Set" /\ device' = [device EXCEPT ![r.part] = r.cmd]
  BY <1>2 DEF Do
<1>4. r \in Request
  BY DEF TypeOK, Session
<1>5. r \in Setting /\ r.cmd \in Command /\ r = Set(r.cmd, r.part)
  BY <1>3, <1>4, Requests
<1>6. r.part = p /\ device'[p] = r.cmd
  BY <1>3 DEF TypeOK
<1> QED
  BY <1>2, <1>5, <1>6 DEF InHand

-----------------------------------------------------------------------------
(* A message is not left behind by its row.                                *)

\* The next thing the session asks, or the response to come, is the urgent lane.
Draining ==
    \/ session.pc = "executing" /\ session.what \in Setting
    \/ /\ session.pc = "asking"
       /\ session.left # <<>>
       /\ Head(session.left) = "urgent"

\* The row of the message was taken; nothing excuses what is sent late.
Behind(m) ==
    /\ InLane(m) /\ ~InRows(m) /\ ~ToRow(m)
    /\ op[m.cmd].pc # "failed"
    /\ TargetOf(m) \notin stranded \cup dropped

DrainInv == \A m \in Setting : Behind(m) => Draining

LEMMA DrainingStops ==
    ASSUME TypeOK, [Next]_vars, Draining, ~Draining',
           NEW m \in Setting, InLane(m), InLane(m)', ~InRows(m)
    PROVE  TargetOf(m) \in stranded'
<1>1. CASE session' = session
  BY <1>1 DEF Draining
<1>2. CASE AskNext
  <2>1. lane[TRUE] = <<>> \/ Head(session.left) # "urgent"
    BY <1>2 DEF AskNext, Empty
  <2>2. lane[TRUE] # <<>>
    <3>1. DOMAIN <<>> = {}
      OBVIOUS
    <3> QED
      BY <3>1, Zenon DEF InLane, Has
  <2> QED
    BY <1>2, <2>1, <2>2 DEF Draining, AskNext
<1>3. CASE AskLane(TRUE)
  <2>1. lane[TRUE] \in Seq(Setting) /\ lane[TRUE] # <<>>
        /\ session' = Executing(Head(lane[TRUE]))
    BY <1>3 DEF TypeOK, AskLane, Deliver
  <2>2. Head(lane[TRUE]) \in Setting
    BY <2>1, TailOf, Zenon
  <2> QED
    BY <2>1, <2>2 DEF Draining, Executing, State
<1>4. ASSUME session.pc = "executing", Cut(session.what) PROVE TargetOf(m) \in stranded'
  <2>1. session.what.kind = "Set"
    BY <1>4, Requests DEF Draining
  <2>2. stranded' = stranded \cup {TargetOf(x) : x \in Alone}
    BY <1>4, <2>1 DEF Cut
  <2>3. m \in Alone
    BY DEF Alone, InLane, Has, InRows
  <2> QED
    BY <2>2, <2>3
<1>5. CASE Respond
  <2>1. CASE known
    <3>1. session' = Asking(Chain)
      <4>1. session.what.kind = "Set"
        BY <1>5, Requests DEF Draining, Respond
      <4> QED
        BY <1>5, <2>1, <4>1 DEF Respond
    <3>2. Chain # <<>> /\ Head(Chain) = "urgent"
      BY DEF Chain
    <3> QED
      BY <3>1, <3>2 DEF Draining, Asking, State
  <2>2. CASE ~known
    BY <1>4, <1>5, <2>2 DEF Respond
  <2> QED
    BY <2>1, <2>2
<1>6. CASE LoseReply \/ LoseResponse
  BY <1>4, <1>6 DEF LoseReply, LoseResponse
<1>7. CASE Crash
  BY <1>7, EmptyLanes
<1>8. CASE AskTask \/ AskLane(FALSE)
  BY <1>8 DEF Draining, AskTask, AskLane
<1>9. CASE \/ NoContent \/ TransferComplete \/ EmptyPost
           \/ \E periodic \in BOOLEAN : Inform(periodic)
  BY <1>9 DEF Draining, NoContent, TransferComplete, EmptyPost, Inform, Closed, Informed,
              Asking, State
<1> QED
  BY <1>1, <1>2, <1>3, <1>5, <1>6, <1>7, <1>8, <1>9, SessionMoves

LEMMA AskingTask ==
    ASSUME TypeOK, AskTask
    PROVE  /\ ~Draining
           /\ UNCHANGED <<lane, op>>
           /\ \E k \in DOMAIN rows : /\ IsLatest(k)
                                     /\ session' = Executing(rows[k].what)
                                     /\ rows' = Without(k)
BY DEF AskTask, Draining, Deliver

LEMMA NextDrain ==
    ASSUME TypeOK, AtPart, DrainInv, [Next]_vars
    PROVE  DrainInv'
<1> SUFFICES ASSUME NEW m \in Setting, Behind(m)' PROVE Draining'
  BY DEF DrainInv
<1>1. /\ InLane(m)' /\ ~InRows(m)' /\ ~ToRow(m)' /\ op'[m.cmd].pc # "failed"
      /\ TargetOf(m) \notin stranded' \cup dropped'
  BY DEF Behind, TargetOf
<1>2. /\ op[m.cmd].pc # "failed"
      /\ TargetOf(m) \notin stranded \cup dropped
  BY <1>1, Monotone, Requests DEF Ended
<1>3. ~ToRow(m)
  BY <1>1, ToRowMoves
<1>4. InLane(m)
  BY <1>1, LaneComes
<1>5. CASE InRows(m)
  <2>1. InHand(m)'
    BY <1>1, <1>5, RowLeaves
  <2> QED
    BY <2>1 DEF InHand, Draining
<1>6. CASE ~InRows(m)
  <2>1. Draining
    BY <1>2, <1>3, <1>4, <1>6 DEF Behind, DrainInv
  <2> QED
    BY <1>1, <1>4, <1>6, <2>1, DrainingStops
<1> QED
  BY <1>5, <1>6

-----------------------------------------------------------------------------
(* The rows of two commands are in the order of the commands.              *)

BeforeOK ==
    \A d \in Command : \A c \in before[d] :
        c \in Command /\ c # d /\ Ended(c) /\ op[d].pc # "idle"

OrderInv ==
    \A d \in Command : \A c \in before[d] : \A p \in Sets(d) :
        <<c, d, p>> \notin ahead =>
            \A i, j \in DOMAIN rows :
                rows[i].what = Set(c, p) /\ rows[j].what = Set(d, p) => Earlier(i, j)

LEMMA NextBefore ==
    ASSUME TypeOK, AtPart, BeforeOK, [Next]_vars
    PROVE  BeforeOK'
<1> SUFFICES ASSUME NEW d \in Command, NEW c \in before'[d]
             PROVE  c \in Command /\ c # d /\ Ended(c)' /\ op'[d].pc # "idle"
  BY DEF BeforeOK
<1>1. c \in Command /\ c # d /\ Ended(c)
  BY BeforeMoves DEF BeforeOK, Over, Ended
<1>2. Ended(c)'
  BY <1>1, Monotone DEF Ended
<1>3. op'[d].pc # "idle"
  <2>1. CASE c \in before[d]
    BY <2>1, Monotone DEF BeforeOK
  <2>2. CASE c \notin before[d]
    <3>1. Begin(d)
      BY <2>2, BeforeMoves
    <3> QED
      BY <3>1 DEF Begin, TypeOK, Handler
  <2> QED
    BY <2>1, <2>2
<1> QED
  BY <1>1, <1>2, <1>3

\* Rows that are some of the rows before, in their order and all older by the same time.
LEMMA OrderKept ==
    ASSUME TypeOK, NEW a \in Int, NEW kept \in [DOMAIN rows' -> DOMAIN rows],
           DOMAIN rows' \subseteq Nat,
           \A m, n \in DOMAIN rows' : m < n => kept[m] < kept[n],
           \A n \in DOMAIN rows' : /\ rows'[n].what = rows[kept[n]].what
                                   /\ rows'[n].age = rows[kept[n]].age + a,
           NEW i \in DOMAIN rows', NEW j \in DOMAIN rows',
           Earlier(kept[i], kept[j])
    PROVE  Earlier(i, j)'
<1>1. /\ kept[i] \in DOMAIN rows /\ kept[j] \in DOMAIN rows
      /\ rows[kept[i]].age \in Int /\ rows[kept[j]].age \in Int
      /\ kept[i] \in Nat /\ kept[j] \in Nat /\ i \in Nat /\ j \in Nat
  BY RowsType
<1>2. rows'[i].age = rows[kept[i]].age + a /\ rows'[j].age = rows[kept[j]].age + a
  OBVIOUS
<1>3. kept[i] < kept[j] => i < j
  <2>1. j < i => kept[j] < kept[i]
    OBVIOUS
  <2>2. i < j \/ j < i \/ i = j
    BY <1>1
  <2> QED
    BY <1>1, <2>1, <2>2
<1> QED
  BY <1>1, <1>2, <1>3 DEF Earlier

LEMMA OrderAppended ==
    ASSUME TypeOK, NEW r \in Row, rows' = Append(rows, r)
    PROVE  /\ \A n \in DOMAIN rows' : n \in DOMAIN rows \/ rows'[n] = r
           /\ \A n \in DOMAIN rows : n \in DOMAIN rows' /\ rows'[n] = rows[n]
           /\ \A i, j \in DOMAIN rows : Earlier(i, j) => Earlier(i, j)'
           /\ \A i \in DOMAIN rows, j \in DOMAIN rows' :
                 j \notin DOMAIN rows /\ rows[i].age >= r.age => Earlier(i, j)'
<1>1. rows \in Seq(Row) /\ r.age \in Int
  BY DEF TypeOK, Row
<1>2. /\ Len(rows) \in Nat /\ DOMAIN rows = 1..Len(rows)
      /\ DOMAIN rows' = 1..Len(rows) + 1
      /\ \A i \in 1..Len(rows) : rows'[i] = rows[i]
      /\ rows'[Len(rows) + 1] = r
  BY <1>1
<1>3. \A n \in DOMAIN rows' : n \in DOMAIN rows \/ n = Len(rows) + 1
  BY <1>2
<1>4. \A n \in DOMAIN rows : n \in DOMAIN rows' /\ rows'[n] = rows[n]
  BY <1>2
<1>5. ASSUME NEW i \in DOMAIN rows, NEW j \in DOMAIN rows, Earlier(i, j) PROVE Earlier(i, j)'
  BY <1>4, <1>5 DEF Earlier
<1>6. ASSUME NEW i \in DOMAIN rows, NEW j \in DOMAIN rows', j \notin DOMAIN rows,
             rows[i].age >= r.age
      PROVE  Earlier(i, j)'
  <2>1. j = Len(rows) + 1 /\ i < j
    BY <1>2, <1>3, <1>6
  <2>2. rows'[j].age = r.age /\ rows'[i].age = rows[i].age /\ rows[i].age \in Int
    BY <1>2, <2>1, RowsType
  <2> QED
    BY <1>1, <1>6, <2>1, <2>2 DEF Earlier
<1> QED
  BY <1>2, <1>3, <1>4, <1>5, <1>6

\* A row that is dated before one of a command that was over is noted as such.
LEMMA InsertOrder ==
    ASSUME TypeOK, AtPart, BeforeOK, OrderInv, NEW x \in Command, InsertPart(x),
           NEW d \in Command, NEW c \in before[d], NEW p \in Sets(d),
           <<c, d, p>> \notin ahead',
           NEW i \in DOMAIN rows', NEW j \in DOMAIN rows',
           rows'[i].what = Set(c, p), rows'[j].what = Set(d, p)
    PROVE  Earlier(i, j)'
<1> DEFINE r == [what |-> Set(x, Current(x)), age |-> -Offset(x)]
<1>1. rows' = Append(rows, r) /\ r \in Row
  BY InsertedRow
<1>2. r.what = Set(x, Current(x)) /\ r.age = -Offset(x)
  OBVIOUS
<1>3. /\ ahead' = ahead \cup
            {<<rows[k].what.cmd, x, Current(x)>> : k \in
                {n \in DOMAIN rows : /\ rows[n].what.kind = "Set"
                                     /\ rows[n].what.part = Current(x)
                                     /\ rows[n].age < -Offset(x)}}
      /\ op[x].pc = "insert"
  BY DEF InsertPart
<1>4. c \in Command /\ c # d /\ Ended(c)
  BY DEF BeforeOK
<1> HIDE DEF r
<1>5. i \in DOMAIN rows
  <2> SUFFICES ASSUME i \notin DOMAIN rows PROVE FALSE
    OBVIOUS
  <2>1. r.what = Set(c, p)
    BY <1>1, OrderAppended
  <2>2. c = x
    BY <1>2, <2>1 DEF Set
  <2> QED
    BY <1>3, <1>4, <2>2 DEF Ended
<1>6. rows[i].what = Set(c, p)
  BY <1>1, <1>5, OrderAppended
<1>7. CASE j \in DOMAIN rows
  <2>1. rows[j].what = Set(d, p)
    BY <1>1, <1>7, OrderAppended
  <2>2. Earlier(i, j)
    BY <1>3, <1>5, <1>6, <1>7, <2>1 DEF OrderInv
  <2> QED
    BY <1>1, <1>5, <1>7, <2>2, OrderAppended
<1>8. CASE j \notin DOMAIN rows
  <2>1. r.what = Set(d, p)
    BY <1>1, <1>8, OrderAppended
  <2>2. d = x /\ p = Current(x)
    BY <1>2, <2>1 DEF Set
  <2>3. rows[i].what.kind = "Set" /\ rows[i].what.part = Current(x) /\ rows[i].what.cmd = c
    BY <1>6, <2>2 DEF Set
  <2>4. ~(rows[i].age < -Offset(x))
    BY <1>3, <1>5, <2>2, <2>3
  <2>5. rows[i].age >= r.age
    <3>1. rows[i].age \in Int /\ r.age \in Int
      BY <1>1, <1>5, RowsType DEF Row
    <3> QED
      BY <1>2, <2>4, <3>1
  <2> QED
    BY <1>1, <1>5, <1>8, <2>5, OrderAppended
<1> QED
  BY <1>7, <1>8

LEMMA NextOrder ==
    ASSUME TypeOK, AtPart, AllCounted, BeforeOK, OrderInv, [Next]_vars
    PROVE  OrderInv'
<1> SUFFICES ASSUME NEW d \in Command, NEW c \in before'[d], NEW p \in Sets(d),
                    <<c, d, p>> \notin ahead',
                    NEW i \in DOMAIN rows', NEW j \in DOMAIN rows',
                    rows'[i].what = Set(c, p), rows'[j].what = Set(d, p)
             PROVE  Earlier(i, j)'
  <2>1. (\A d \in Command : Sets(d)' = Sets(d)) /\ \A x, y : Set(x, y)' = Set(x, y)
    BY DEF Sets, Set
  <2> QED
    BY <2>1 DEF OrderInv
<1>1. CASE c \notin before[d]
  <2>1. Begin(d)
    BY <1>1, BeforeMoves
  <2>2. Set(d, p) \in Setting /\ ToRow(Set(d, p)) /\ rows' = rows
    BY <2>1, BegunToRow
  <2>3. ~InRows(Set(d, p))
    BY <2>2 DEF AllCounted, Counted, Apart
  <2> QED
    BY <2>2, <2>3 DEF InRows
<1>2. CASE c \in before[d]
  <2>1. <<c, d, p>> \notin ahead
    BY Monotone
  <2>2. \A m, n \in DOMAIN rows :
            rows[m].what = Set(c, p) /\ rows[n].what = Set(d, p) => Earlier(m, n)
    BY <1>2, <2>1 DEF OrderInv
  <2>3. CASE rows' = rows
    BY <2>2, <2>3 DEF Earlier
  <2>4. ASSUME NEW x \in Command, InsertPart(x) PROVE Earlier(i, j)'
    BY <1>2, <2>4, InsertOrder
  <2>5. CASE InsertDownload
    <3> DEFINE r == [what |-> Download, age |-> 0]
    <3>1. rows' = Append(rows, r) /\ r \in Row /\ r.what = Download
      BY <2>5, DownloadRow
    <3>2. Download # Set(c, p) /\ Download # Set(d, p)
      BY DEF Download, Set
    <3> HIDE DEF r
    <3>3. i \in DOMAIN rows /\ j \in DOMAIN rows /\ rows[i] = rows'[i] /\ rows[j] = rows'[j]
      BY <3>1, <3>2, OrderAppended
    <3>4. Earlier(i, j)
      BY <2>2, <3>3
    <3> QED
      BY <3>1, <3>3, <3>4, OrderAppended
  <2>6. CASE AskTask
    <3>1. PICK k \in DOMAIN rows : rows' = Without(k)
      BY <2>6, AskingTask
    <3>2. /\ Len(rows) \in Nat /\ DOMAIN rows = 1..Len(rows)
          /\ rows' \in Seq(Row) /\ Len(rows') = Len(rows) - 1
          /\ \A n \in 1..Len(rows) - 1 : rows'[n] = IF n < k THEN rows[n] ELSE rows[n + 1]
      BY <3>1, WithoutType, RowsType
    <3>3. DOMAIN rows' = 1..Len(rows) - 1
      BY <3>2
    <3> DEFINE kept == [n \in DOMAIN rows' |-> IF n < k THEN n ELSE n + 1]
    <3>4. kept \in [DOMAIN rows' -> DOMAIN rows]
      BY <3>2, <3>3
    <3>5. \A m, n \in DOMAIN rows' : m < n => kept[m] < kept[n]
      BY <3>2, <3>3
    <3>6. \A n \in DOMAIN rows' : rows'[n] = rows[kept[n]] /\ rows[kept[n]].age \in Int
      BY <3>2, <3>3, <3>4, RowsType
    <3> HIDE DEF kept
    <3>7. \A n \in DOMAIN rows' : /\ rows'[n].what = rows[kept[n]].what
                                  /\ rows'[n].age = rows[kept[n]].age + 0
      BY <3>6
    <3>8. Earlier(kept[i], kept[j])
      BY <2>2, <3>4, <3>7
    <3>9. DOMAIN rows' \subseteq Nat
      BY <3>2, <3>3
    <3> QED
      BY <3>4, <3>5, <3>7, <3>8, <3>9, OrderKept
  <2>7. CASE Tick
    <3>1. PICK kept \in [DOMAIN rows' -> DOMAIN rows] :
              /\ \A m, n \in DOMAIN rows' : m < n => kept[m] < kept[n]
              /\ \A n \in DOMAIN rows' : /\ rows'[n].what = rows[kept[n]].what
                                         /\ rows'[n].age = rows[kept[n]].age + 1
      BY <2>7, TickKeeps
    <3>2. Earlier(kept[i], kept[j])
      BY <2>2, <3>1
    <3>3. DOMAIN rows' \subseteq Nat
      <4>1. rows' \in Seq(Row)
        BY <2>7, TickType DEF TypeOK
      <4> QED
        BY <4>1
    <3> QED
      BY <3>1, <3>2, <3>3, OrderKept
  <2> QED
    BY <2>3, <2>4, <2>5, <2>6, <2>7, RowsOrRest
<1> QED
  BY <1>1, <1>2

-----------------------------------------------------------------------------
(* The last command wins.                                                  *)

\* The row of the later command has been taken and nothing excuses the earlier one.
Ready(c, d, p) ==
    /\ c \in before[d] /\ p \in Sets(c) \cap Sets(d)
    /\ ~Excused(c, d, p)
    /\ op[d].pc # "failed"
    /\ ~ToRow(Set(d, p)) /\ ~InRows(Set(d, p))

\* The earlier command is past: its values are not the CPE's, or not for long.
Clear(c, d, p) ==
    /\ ~InRows(Set(c, p)) /\ ~InLane(Set(c, p)) /\ ~InHand(Set(c, p))
    /\ device[p] # c \/ InHand(Set(d, p))

LastInv ==
    \A d \in Command : \A c \in before[d] : \A p \in Sets(d) :
        Ready(c, d, p) => Clear(c, d, p)

\* The row of a command has been taken: the CPE has its values, or those of another.
NobodyInv ==
    \A d \in Command : \A p \in Sets(d) :
        (/\ op[d].pc # "failed"
         /\ ~ToRow(Set(d, p)) /\ ~InRows(Set(d, p))
         /\ <<d, p>> \notin cut \cup dropped)
            => device[p] # Nobody \/ InHand(Set(d, p))

LEMMA SetOf ==
    ASSUME NEW c \in Command, NEW p \in Sets(c)
    PROVE  /\ p \in Part /\ Set(c, p) \in Setting
           /\ Set(c, p).cmd = c /\ Set(c, p).part = p /\ TargetOf(Set(c, p)) = <<c, p>>
<1>1. p \in Part
  BY PartTypes DEF Sets
<1> QED
  BY <1>1, Requests DEF Set, TargetOf

\* A row that has been taken, and had not before this step, is what the CPE is sent.
LEMMA RowTakenNow ==
    ASSUME TypeOK, AtPart, [Next]_vars, NEW d \in Command, NEW p \in Sets(d),
           op'[d].pc # "failed", ~ToRow(Set(d, p))', ~InRows(Set(d, p))',
           <<d, p>> \notin dropped'
    PROVE  /\ op[d].pc # "failed" /\ ~ToRow(Set(d, p))
           /\ InRows(Set(d, p)) => AskTask /\ InHand(Set(d, p))'
<1> DEFINE D == Set(d, p)
<1>1. D \in Setting /\ D.cmd = d /\ TargetOf(D) = <<d, p>>
  BY SetOf
<1>2. D' = D
  BY DEF Set
<1>3. ~ToRow(D)' /\ ~InRows(D)'
  OBVIOUS
<1> HIDE DEF D
<1>4. op[d].pc # "failed"
  BY Monotone DEF Ended
<1>5. ~ToRow(D)
  BY <1>1, <1>2, <1>3, ToRowMoves
<1>6. InRows(D) => AskTask /\ InHand(D)'
  BY <1>1, <1>2, <1>3, RowLeaves
<1> QED
  BY <1>4, <1>5, <1>6 DEF D

LEMMA NextNobody ==
    ASSUME TypeOK, AtPart, NobodyInv, [Next]_vars
    PROVE  NobodyInv'
<1> SUFFICES ASSUME NEW d \in Command, NEW p \in Sets(d),
                    op'[d].pc # "failed", ~ToRow(Set(d, p))', ~InRows(Set(d, p))',
                    <<d, p>> \notin cut' \cup dropped', ~InHand(Set(d, p))'
             PROVE  device'[p] # Nobody
  <2>1. \A d \in Command : Sets(d)' = Sets(d)
    BY DEF Sets
  <2> QED
    BY <2>1 DEF NobodyInv, Sets
<1> DEFINE D == Set(d, p)
<1>1. D \in Setting /\ D.cmd = d /\ D.part = p /\ TargetOf(D) = <<d, p>> /\ p \in Part
  BY SetOf
<1>2. op[d].pc # "failed" /\ ~ToRow(D) /\ ~InRows(D)
  BY RowTakenNow
<1>3. <<d, p>> \notin cut \cup dropped
  BY Monotone
<1>4. device[p] # Nobody \/ InHand(D)
  BY <1>2, <1>3 DEF NobodyInv
<1>5. Nobody \notin Command
  BY ConstantsAssumption
<1>6. CASE InHand(D)
  <2>1. ~InHand(D)'
    OBVIOUS
  <2> HIDE DEF D
  <2>2. device'[p] = d
    BY <1>1, <1>6, <2>1, HandLeaves
  <2> QED
    BY <1>5, <2>2
<1>7. CASE device[p] # Nobody
  BY <1>1, <1>5, <1>7, DeviceMoves
<1> QED
  BY <1>4, <1>6, <1>7

\* The row of the later command is selected after that of the earlier one, and not
\* before the message of the earlier one is sent.
LEMMA BecomesClear ==
    ASSUME TypeOK, AtPart, BeforeOK, OrderInv, DrainInv, [Next]_vars, AskTask,
           NEW d \in Command, NEW c \in before[d], NEW p \in Sets(c) \cap Sets(d),
           ~Excused(c, d, p), InHand(Set(d, p))'
    PROVE  Clear(c, d, p)'
<1> DEFINE C == Set(c, p)
           D == Set(d, p)
<1>1. c \in Command /\ c # d /\ Ended(c)
  BY DEF BeforeOK
<1>2. /\ C \in Setting /\ C.cmd = c /\ TargetOf(C) = <<c, p>>
      /\ D \in Setting /\ C # D
  <2>1. C \in Setting /\ C.cmd = c /\ TargetOf(C) = <<c, p>> /\ D \in Setting /\ D.cmd = d
    BY <1>1, SetOf
  <2> QED
    BY <1>1, <2>1
<1>3. ~ToRow(C)
  BY <1>1, <1>2, EndedIsInserted
<1>4. PICK k \in DOMAIN rows : IsLatest(k) /\ session' = Executing(rows[k].what)
  BY AskingTask
<1>5. rows[k].what = D
  BY <1>4 DEF InHand, Executing, State, Set
<1>6. ~InRows(C)
  <2> SUFFICES ASSUME NEW i \in DOMAIN rows, rows[i].what = C PROVE FALSE
    BY DEF InRows
  <2>1. i # k
    BY <1>2, <1>5
  <2>2. Earlier(k, i)
    BY <1>4, <2>1 DEF IsLatest
  <2>3. Earlier(i, k)
    <3>1. <<c, d, p>> \notin ahead
      BY DEF Excused
    <3> QED
      BY <1>5, <3>1 DEF OrderInv
  <2>4. rows[i].age \in Int /\ rows[k].age \in Int /\ i \in Nat /\ k \in Nat
    BY RowsType
  <2> QED
    BY <2>2, <2>3, <2>4 DEF Earlier
<1>7. ~InLane(C)
  <2> SUFFICES ASSUME InLane(C) PROVE FALSE
    OBVIOUS
  <2>1. op[c].pc # "failed" /\ <<c, p>> \notin stranded \cup dropped
    BY DEF Excused
  <2> HIDE DEF C
  <2>2. Behind(C)
    BY <1>2, <1>3, <1>6, <2>1 DEF Behind
  <2> QED
    BY <1>2, <2>2, AskingTask DEF DrainInv
<1>8. ~InRows(C)' /\ ~InLane(C)' /\ ~InHand(C)'
  <2>1. ~InHand(C)'
    BY <1>2, <1>4, <1>5 DEF InHand, Executing, State
  <2>2. ~InLane(C)'
    BY <1>7, AskingTask, LaneUnchanged
  <2>3. ~InRows(C)'
    <3> HIDE DEF C
    <3> QED
      BY <1>2, <1>3, <1>6, RowComes
  <2> QED
    BY <2>1, <2>2, <2>3
<1> QED
  BY <1>8 DEF Clear

LEMMA StaysClear ==
    ASSUME TypeOK, AtPart, BeforeOK, [Next]_vars,
           NEW d \in Command, NEW c \in before[d], NEW p \in Sets(c) \cap Sets(d),
           <<d, p>> \notin cut', Clear(c, d, p)
    PROVE  Clear(c, d, p)'
<1> DEFINE C == Set(c, p)
           D == Set(d, p)
<1>1. c \in Command /\ c # d /\ Ended(c)
  BY DEF BeforeOK
<1>2. /\ C \in Setting /\ C.cmd = c /\ p \in Part
      /\ D \in Setting /\ D.cmd = d /\ D.part = p /\ TargetOf(D) = <<d, p>>
  BY <1>1, SetOf, Zenon
<1>3. ~ToRow(C) /\ ~InRows(C) /\ ~InLane(C) /\ ~InHand(C)
  BY <1>1, <1>2, EndedIsInserted DEF Clear
<1>4. device[p] # c \/ InHand(D)
  BY DEF Clear
<1>5. device'[p] = c => device[p] = c
  <2> SUFFICES ASSUME device'[p] # device[p] PROVE device'[p] # c
    OBVIOUS
  <2>1. PICK x \in Command : InHand(Set(x, p)) /\ device'[p] = x
    BY <1>2, DeviceMoves
  <2> QED
    BY <1>3, <2>1
<1> HIDE DEF C
<1>6. ~InRows(C)' /\ ~InLane(C)' /\ ~InHand(C)'
  <2>1. ~ToRow(C)'
    BY <1>2, <1>3, ToRowMoves
  <2> QED
    BY <1>2, <1>3, <2>1, RowComes, LaneComes, HandComes
<1>7. device'[p] # c \/ InHand(D)'
  <2> HIDE DEF D
  <2>1. InHand(D) /\ ~InHand(D)' => device'[p] = d
    BY <1>2, HandLeaves
  <2> QED
    BY <1>1, <1>4, <1>5, <2>1
<1> QED
  BY <1>6, <1>7 DEF Clear, C

LEMMA NextLast ==
    ASSUME TypeOK, AtPart, BeforeOK, OrderInv, DrainInv, LastInv, [Next]_vars
    PROVE  LastInv'
<1> SUFFICES ASSUME NEW d \in Command, NEW c \in before'[d], NEW p \in Sets(d),
                    Ready(c, d, p)'
             PROVE  Clear(c, d, p)'
  <2>1. \A d \in Command : Sets(d)' = Sets(d)
    BY DEF Sets
  <2> QED
    BY <2>1, Zenon DEF LastInv
<1>1. /\ p \in Sets(c) \cap Sets(d)
      /\ op'[d].pc # "failed" /\ ~ToRow(Set(d, p))' /\ ~InRows(Set(d, p))'
      /\ <<d, p>> \notin cut' \cup dropped' /\ <<c, p>> \notin stranded' \cup dropped'
      /\ <<c, d, p>> \notin ahead' /\ op'[c].pc # "failed"
  BY DEF Ready, Excused, Sets
<1>2. c \in before[d]
  <2> SUFFICES ASSUME c \notin before[d] PROVE FALSE
    OBVIOUS
  <2>1. Begin(d)
    BY BeforeMoves
  <2>2. ToRow(Set(d, p))'
    BY <2>1, BegunToRow
  <2> QED
    BY <1>1, <2>2
<1>3. Ended(c) /\ c \in Command
  BY <1>2 DEF BeforeOK
<1>4. ~Excused(c, d, p)
  BY <1>1, <1>3, Monotone DEF Excused
<1>5. /\ op[d].pc # "failed" /\ ~ToRow(Set(d, p))
      /\ InRows(Set(d, p)) => AskTask /\ InHand(Set(d, p))'
  BY <1>1, RowTakenNow
<1>6. CASE InRows(Set(d, p))
  BY <1>1, <1>2, <1>4, <1>5, <1>6, BecomesClear
<1>7. CASE ~InRows(Set(d, p))
  <2>1. Clear(c, d, p)
    BY <1>1, <1>2, <1>4, <1>5, <1>7 DEF LastInv, Ready
  <2> QED
    BY <1>1, <1>2, <2>1, StaysClear
<1> QED
  BY <1>6, <1>7

AllInOrder == BeforeOK /\ OrderInv /\ DrainInv /\ NobodyInv /\ LastInv

LEMMA InitInOrder == Init => AllInOrder
<1> SUFFICES ASSUME Init PROVE AllInOrder
  OBVIOUS
<1>1. \A d \in Command : before[d] = {}
  BY DEF Init
<1>2. BeforeOK /\ OrderInv /\ LastInv
  BY <1>1 DEF BeforeOK, OrderInv, LastInv
<1>3. DrainInv
  <2>1. lane[TRUE] = <<>>
    <3>1. lane = [hp \in BOOLEAN |-> <<>>]
      BY DEF Init
    <3> QED
      BY <3>1, Zenon
  <2>2. DOMAIN <<>> = {}
    OBVIOUS
  <2>3. DOMAIN lane[TRUE] = {}
    BY <2>1, <2>2, Zenon
  <2> QED
    BY <2>3, Zenon DEF DrainInv, Behind, InLane, Has
<1>4. NobodyInv
  <2> SUFFICES ASSUME NEW d \in Command, NEW p \in Sets(d) PROVE ToRow(Set(d, p))
    BY DEF NobodyInv
  <2>1. op[d].pc = "idle" /\ Set(d, p).cmd = d /\ Set(d, p).part = p
    BY DEF Init, Set
  <2>2. PICK n \in DOMAIN Parts[d] : Parts[d][n] = p
    BY DEF Sets
  <2> QED
    BY <2>1, <2>2 DEF ToRow
<1> QED
  BY <1>2, <1>3, <1>4 DEF AllInOrder

LEMMA NextInOrder ==
    ASSUME TypeOK, AtPart, AllCounted, AllInOrder, [Next]_vars
    PROVE  AllInOrder'
BY NextBefore, NextOrder, NextDrain, NextNobody, NextLast DEF AllInOrder

LEMMA InOrderLastWins == AllInOrder => LastWinsUnlessCut
<1> SUFFICES ASSUME AllInOrder, Quiescent,
                    NEW d \in Command, NEW p \in Part, op[d].pc = "done", p \in Sets(d)
             PROVE  /\ device[p] = Nobody => <<d, p>> \in cut \cup dropped
                    /\ Later(d, device[p], p) => Excused(device[p], d, p)
  BY DEF LastWinsUnlessCut
<1>1. ~ToRow(Set(d, p))
  BY DEF ToRow, Set
<1>2. ~InRows(Set(d, p))
  <2>1. rows = <<>>
    BY DEF Quiescent
  <2> QED
    BY <2>1 DEF InRows
<1>3. ~InHand(Set(d, p))
  BY DEF Quiescent, InHand, Closed, State
<1>4. device[p] = Nobody => <<d, p>> \in cut \cup dropped
  BY <1>1, <1>2, <1>3 DEF AllInOrder, NobodyInv
<1>5. Later(d, device[p], p) => Excused(device[p], d, p)
  <2> SUFFICES ASSUME Later(d, device[p], p), ~Excused(device[p], d, p) PROVE FALSE
    OBVIOUS
  <2>1. Ready(device[p], d, p) /\ device[p] \in before[d]
    BY <1>1, <1>2 DEF Ready, Later
  <2>2. Clear(device[p], d, p)
    BY <2>1 DEF AllInOrder, LastInv
  <2> QED
    BY <1>3, <2>2 DEF Clear
<1> QED
  BY <1>4, <1>5

\* A message and its row are one request, whichever comes first; nothing that fails on
\* the way, no restart and no other request makes the earlier of two commands the last
\* one the CPE executes, but in the ways that LastWinsUnlessCut names.
THEOREM LastCommandWinsButFor == Spec => []LastWinsUnlessCut
<1>1. Init => TypeOK /\ AtPart /\ AllCounted /\ AllInOrder
  BY InitType, InitCounted, InitInOrder
<1>2. TypeOK /\ AtPart /\ AllCounted /\ AllInOrder /\ [Next]_vars
          => TypeOK' /\ AtPart' /\ AllCounted' /\ AllInOrder'
  BY NextType, NextCounted, NextInOrder
<1>3. AllInOrder => LastWinsUnlessCut
  BY InOrderLastWins
<1> QED
  BY <1>1, <1>2, <1>3, PTL DEF Spec
=============================================================================
