---------------------------- MODULE OltPollerProofs ----------------------------
(***************************************************************************)
(* Theorems about OltPoller, for any number of OLTs, ONUs and rounds of     *)
(* polls that overlap, and any number of changes.                           *)
(***************************************************************************)
EXTENDS OltPoller, SequenceTheorems, FiniteSetTheorems, TLAPS

-----------------------------------------------------------------------------
(* The rows.                                                               *)

\* What TypeOK says of the rows.
RowsOK(q, last) ==
    /\ q \in Seq(Row)
    /\ \A i \in DOMAIN q : q[i].id <= last
    /\ \A i, j \in DOMAIN q : q[i].id = q[j].id => i = j

Same(a, b) == a.id = b.id /\ a.olt = b.olt /\ a.onu = b.onu

\* Every row after a step was there before it, perhaps with another value.
Stem == \A i \in DOMAIN rows' : \E j \in DOMAIN rows : Same(rows'[i], rows[j])

\* Every row after a step was there before it, with its value.
Part == \A i \in DOMAIN rows' : \E j \in DOMAIN rows : rows'[i] = rows[j]

LEMMA RowTypes ==
    ASSUME TypeOK
    PROVE  /\ RowsOK(rows, lastId) /\ lastId \in Nat
           /\ Len(rows) \in Nat /\ DOMAIN rows = 1..Len(rows)
           /\ \A i \in DOMAIN rows : /\ rows[i] \in Row
                                     /\ rows[i].id \in Nat \ {0}
                                     /\ rows[i].olt \in Olt /\ rows[i].onu \in Onu
<1>1. RowsOK(rows, lastId) /\ lastId \in Nat
  BY DEF RowsOK, TypeOK
<1>2. rows \in Seq(Row)
  BY DEF TypeOK
<1>3. \A x \in Row : x.id \in Nat \ {0} /\ x.olt \in Olt /\ x.onu \in Onu
  BY DEF Row
<1> QED
  BY <1>1, <1>2, <1>3

\* Some of the rows, each once.
LEMMA SomeRows ==
    ASSUME TypeOK, NEW n \in Nat, NEW kept \in [1..n -> DOMAIN rows],
           \A i, j \in 1..n : i # j => kept[i] # kept[j],
           NEW q, q = [i \in 1..n |-> rows[kept[i]]]
    PROVE  /\ RowsOK(q, lastId) /\ Len(q) = n
           /\ \A i \in DOMAIN q : i \in 1..n /\ kept[i] \in DOMAIN rows /\ q[i] = rows[kept[i]]
<1>1. \A i \in 1..n : kept[i] \in DOMAIN rows /\ rows[kept[i]] \in Row
  BY RowTypes
<1>2. q \in [1..n -> Row]
  BY <1>1
<1>3. q \in Seq(Row) /\ Len(q) = n /\ DOMAIN q = 1..n
  BY <1>2
<1>4. \A i \in 1..n : q[i] = rows[kept[i]]
  OBVIOUS
<1>5. \A i \in DOMAIN q : q[i].id <= lastId
  BY <1>1, <1>3, <1>4 DEF TypeOK
<1>6. ASSUME NEW i \in 1..n, NEW j \in 1..n, q[i].id = q[j].id
      PROVE  i = j
  <2>1. kept[i] = kept[j]
    BY <1>1, <1>4, <1>6 DEF TypeOK
  <2> QED
    BY <2>1
<1> QED
  BY <1>1, <1>3, <1>4, <1>5, <1>6 DEF RowsOK

LEMMA WithoutRows ==
    ASSUME TypeOK, NEW k \in DOMAIN rows
    PROVE  /\ RowsOK(Without(k), lastId)
           /\ \A i \in DOMAIN Without(k) :
                 \E j \in DOMAIN rows : j # k /\ Without(k)[i] = rows[j]
<1> DEFINE n == Len(rows) - 1
           kept == [i \in 1..n |-> IF i < k THEN i ELSE i + 1]
<1>1. Len(rows) \in Nat /\ DOMAIN rows = 1..Len(rows) /\ n \in Nat
  BY RowTypes
<1>2. \A i \in 1..n : kept[i] \in DOMAIN rows /\ kept[i] # k
  BY <1>1
<1>3. \A i, j \in 1..n : i # j => kept[i] # kept[j]
  BY <1>1
<1>4. Without(k) = [i \in 1..n |-> rows[kept[i]]]
  BY <1>1 DEF Without
<1>5. kept \in [1..n -> DOMAIN rows]
  BY <1>2
<1> HIDE DEF kept, n
<1>6. /\ RowsOK(Without(k), lastId)
      /\ \A i \in DOMAIN Without(k) :
            i \in 1..n /\ kept[i] \in DOMAIN rows /\ Without(k)[i] = rows[kept[i]]
  BY <1>1, <1>3, <1>4, <1>5, SomeRows
<1> QED
  BY <1>2, <1>6

\* A row with an id that no other row has is appended.
LEMMA AppendRow ==
    ASSUME NEW q, NEW last \in Nat, NEW last2 \in Nat, RowsOK(q, last), last <= last2,
           NEW x \in Row, x.id <= last2, \A i \in DOMAIN q : q[i].id # x.id
    PROVE  /\ RowsOK(Append(q, x), last2)
           /\ \A i \in DOMAIN Append(q, x) : Append(q, x)[i] = x
                                             \/ (i \in DOMAIN q /\ Append(q, x)[i] = q[i])
<1>1. q \in Seq(Row)
  BY DEF RowsOK
<1>2. /\ Len(q) \in Nat /\ DOMAIN q = 1..Len(q)
      /\ Append(q, x) \in Seq(Row)
      /\ DOMAIN Append(q, x) = 1..Len(q) + 1
      /\ \A i \in 1..Len(q) : Append(q, x)[i] = q[i] /\ q[i] \in Row
      /\ Append(q, x)[Len(q) + 1] = x
  BY <1>1
<1>3. \A i \in DOMAIN Append(q, x) : i \in DOMAIN q \/ i = Len(q) + 1
  BY <1>2
<1>4. \A i \in DOMAIN q : q[i].id \in Nat
  BY <1>2 DEF Row
<1>5. \A i \in DOMAIN Append(q, x) : Append(q, x)[i].id <= last2
  BY <1>2, <1>3, <1>4 DEF RowsOK
<1>6. \A i, j \in DOMAIN Append(q, x) : Append(q, x)[i].id = Append(q, x)[j].id => i = j
  BY <1>2, <1>3 DEF RowsOK
<1> QED
  BY <1>2, <1>3, <1>5, <1>6 DEF RowsOK

-----------------------------------------------------------------------------
(* One poll.                                                               *)

Busy == {"states", "find", "write"}

\* A poll that has walked has something left to write.
HasTodo == \A r \in Round, o \in Olt : poll[r][o].pc \in Busy => poll[r][o].todo # <<>>

LEMMA PollSet ==
    ASSUME TypeOK, HasTodo, NEW r \in Round, NEW o \in Olt, NEW p \in Poll,
           p.pc \in Busy => p.todo # <<>>,
           poll' = [poll EXCEPT ![r][o] = p]
    PROVE  /\ poll' \in [Round -> [Olt -> Poll]] /\ HasTodo'
           /\ poll'[r][o] = p
           /\ \A r2 \in Round, o2 \in Olt :
                 <<r2, o2>> # <<r, o>> => poll'[r2][o2] = poll[r2][o2]
<1>1. poll \in [Round -> [Olt -> Poll]]
  BY DEF TypeOK
<1>2. poll' \in [Round -> [Olt -> Poll]]
  BY <1>1
<1>3. poll'[r][o] = p
  BY <1>1
<1>4. \A r2 \in Round, o2 \in Olt : <<r2, o2>> # <<r, o>> => poll'[r2][o2] = poll[r2][o2]
  BY <1>1
<1> QED
  BY <1>2, <1>3, <1>4 DEF HasTodo

LEMMA FoundTypes ==
    ASSUME TypeOK, HasTodo, NEW r \in Round, NEW o \in Olt
    PROVE  /\ poll[r][o] \in Poll
           /\ poll[r][o].todo \in Seq(Found)
           /\ poll[r][o].pc \in Busy => /\ poll[r][o].todo # <<>>
                                        /\ Len(poll[r][o].todo) \in Nat \ {0}
                                        /\ Head(poll[r][o].todo) \in Found
                                        /\ Head(poll[r][o].todo).onu \in Onu
                                        /\ Head(poll[r][o].todo).val \in Value
                                        /\ Tail(poll[r][o].todo) \in Seq(Found)
                                        /\ Len(Tail(poll[r][o].todo)) = Len(poll[r][o].todo) - 1
<1>1. poll[r][o] \in Poll
  BY DEF TypeOK
<1>2. poll[r][o].todo \in Seq(Found)
  BY <1>1 DEF Poll
<1>3. CASE poll[r][o].pc \in Busy
  <2> DEFINE q == poll[r][o].todo
  <2>1. q # <<>> /\ q \in Seq(Found)
    BY <1>2, <1>3 DEF HasTodo
  <2> HIDE DEF q
  <2>2. /\ Len(q) \in Nat \ {0} /\ Head(q) \in Found /\ Tail(q) \in Seq(Found)
        /\ Len(Tail(q)) = Len(q) - 1
    BY <2>1, HeadTailProperties
  <2>3. Head(q).onu \in Onu /\ Head(q).val \in Value
    BY <2>2 DEF Found
  <2> QED
    BY <1>1, <1>2, <2>1, <2>2, <2>3 DEF q
<1> QED
  BY <1>1, <1>2, <1>3

\* What a step makes of its poll: p, and what is noted of it.
Moved(r, o, p) ==
    /\ p \in Poll
    /\ p.pc \in Busy => p.todo # <<>>
    /\ poll' = [poll EXCEPT ![r][o] = p]
    /\ (p.pc = "write" /\ p.row = 0) =>
            poll[r][o].pc = "find" /\ Matches(o, Head(p.todo).onu) = {}
    /\ poll[r][o].pc # "idle"
    /\ \/ beside' = beside
       \/ beside' = beside \ {<<r, o>>} /\ p.pc = "idle"

LEMMA IdleType == Idle \in Poll /\ Idle.pc = "idle"
<1>1. <<>> \in Seq(Found)
  OBVIOUS
<1> QED
  BY <1>1 DEF Idle, Poll

LEMMA GotoMoves ==
    ASSUME TypeOK, HasTodo, NEW r \in Round, NEW o \in Olt, poll[r][o].pc # "idle",
           NEW pc \in {"online", "offline", "serials", "find"},
           pc = "find" => poll[r][o].pc \in Busy,
           Goto(r, o, pc)
    PROVE  \E p \in Poll : Moved(r, o, p)
<1> DEFINE p == [poll[r][o] EXCEPT !.pc = pc]
<1>1. poll[r][o] \in Poll /\ poll[r][o].todo \in Seq(Found)
  BY FoundTypes
<1>2. p \in Poll /\ p.pc = pc /\ p.todo = poll[r][o].todo
  BY <1>1 DEF Poll
<1>3. poll' = [poll EXCEPT ![r][o] = p] /\ beside' = beside
  BY DEF Goto
<1>4. p.pc \in Busy => p.todo # <<>>
  BY <1>2, FoundTypes DEF Busy
<1> HIDE DEF p
<1> QED
  BY <1>2, <1>3, <1>4 DEF Moved

LEMMA FinishMoves ==
    ASSUME TypeOK, NEW r \in Round, NEW o \in Olt, poll[r][o].pc # "idle", Finish(r, o)
    PROVE  \E p \in Poll : Moved(r, o, p)
<1>1. Moved(r, o, Idle)
  BY IdleType DEF Finish, Moved, Busy
<1> QED
  BY <1>1, IdleType

LEMMA NextOnuMoves ==
    ASSUME TypeOK, HasTodo, NEW r \in Round, NEW o \in Olt, poll[r][o].pc = "write",
           NextOnu(r, o)
    PROVE  \E p \in Poll : Moved(r, o, p)
<1>1. CASE Len(poll[r][o].todo) = 1
  BY <1>1, FinishMoves DEF NextOnu
<1>2. CASE Len(poll[r][o].todo) # 1
  <2> DEFINE q == Tail(poll[r][o].todo)
             p == [pc |-> "find", address |-> poll[r][o].address, todo |-> q, row |-> 0]
  <2>1. poll[r][o] \in Poll /\ q \in Seq(Found)
        /\ Len(q) = Len(poll[r][o].todo) - 1 /\ Len(poll[r][o].todo) \in Nat \ {0}
    BY FoundTypes DEF Busy
  <2>2. poll' = [poll EXCEPT ![r][o].pc = "find", ![r][o].row = 0, ![r][o].todo = q]
        /\ beside' = beside
    BY <1>2, <2>1 DEF NextOnu, TypeOK
  <2> HIDE DEF q
  <2>3. q # <<>>
    <3>1. Len(q) # 0
      BY <1>2, <2>1
    <3> QED
      BY <3>1
  <2>4. p \in Poll
    BY <2>1 DEF Poll
  <2>5. poll' = [poll EXCEPT ![r][o] = p]
    <3>1. poll[r][o] = [pc |-> poll[r][o].pc, address |-> poll[r][o].address,
                        todo |-> poll[r][o].todo, row |-> poll[r][o].row]
      BY <2>1 DEF Poll
    <3> QED
      BY <2>1, <2>2, <3>1 DEF TypeOK
  <2>6. Moved(r, o, p)
    BY <2>2, <2>3, <2>4, <2>5 DEF Moved
  <2> QED
    BY <2>4, <2>6
<1> QED
  BY <1>1, <1>2

LEMMA TestMoves ==
    ASSUME TypeOK, HasTodo, NEW r \in Round, NEW o \in Olt, Test(r, o)
    PROVE  \E p \in Poll : Moved(r, o, p)
<1>1. poll[r][o].pc = "test" /\ (Goto(r, o, "online") \/ Goto(r, o, "offline"))
  BY DEF Test
<1> QED
  BY <1>1, GotoMoves

LEMMA RecordMoves ==
    ASSUME TypeOK, HasTodo, NEW r \in Round, NEW o \in Olt, RecordStatus(r, o)
    PROVE  \E p \in Poll : Moved(r, o, p)
<1>1. /\ poll[r][o].pc \in {"online", "offline"}
      /\ Goto(r, o, "serials") \/ Finish(r, o)
  BY DEF RecordStatus
<1> QED
  BY <1>1, GotoMoves, FinishMoves

LEMMA SerialsMove ==
    ASSUME TypeOK, HasTodo, NEW r \in Round, NEW o \in Olt, WalkSerials(r, o)
    PROVE  \E p \in Poll : Moved(r, o, p)
<1> DEFINE d == poll[r][o].address
<1>1. poll[r][o].pc = "serials"
  BY DEF WalkSerials
<1>2. CASE Finish(r, o)
  BY <1>1, <1>2, FinishMoves
<1>3. CASE ~Finish(r, o)
  <2>1. /\ Attached(d) # {}
        /\ \E order \in [1..Cardinality(Attached(d)) -> Attached(d)] :
              poll' = [poll EXCEPT ![r][o].pc = "states",
                              ![r][o].todo = [n \in DOMAIN order |->
                                  [onu |-> order[n], val |-> Empty]]]
        /\ beside' = beside
    BY <1>3 DEF WalkSerials
  <2>2. PICK order \in [1..Cardinality(Attached(d)) -> Attached(d)] :
              poll' = [poll EXCEPT ![r][o].pc = "states",
                              ![r][o].todo = [n \in DOMAIN order |->
                                  [onu |-> order[n], val |-> Empty]]]
    BY <2>1
  <2>3. Attached(d) \subseteq Onu /\ Cardinality(Attached(d)) \in Nat \ {0}
    <3>1. Attached(d) \subseteq Onu
      BY DEF Attached
    <3>2. IsFiniteSet(Attached(d))
      BY <3>1, ConstantsAssumption, FS_Subset
    <3> QED
      BY <2>1, <3>1, <3>2, FS_CardinalityType, FS_EmptySet
  <2> DEFINE n == Cardinality(Attached(d))
             q == [i \in 1..n |-> [onu |-> order[i], val |-> Empty]]
  <2>4. DOMAIN order = 1..n /\ n \in Nat \ {0} /\ \A i \in 1..n : order[i] \in Onu
    BY <2>2, <2>3
  <2>5. q \in Seq(Found) /\ q # <<>>
    <3> HIDE DEF n
    <3>1. \A i \in 1..n : [onu |-> order[i], val |-> Empty] \in Found
      BY <2>4 DEF Found, Value
    <3>2. q \in [1..n -> Found]
      BY <3>1
    <3>3. Len(q) = n /\ q \in Seq(Found)
      BY <2>4, <3>2
    <3> QED
      BY <2>4, <3>3
  <2> DEFINE p == [poll[r][o] EXCEPT !.pc = "states", !.todo = q]
  <2>6. poll' = [poll EXCEPT ![r][o].pc = "states", ![r][o].todo = q]
    BY <2>2, <2>4
  <2> HIDE DEF q
  <2>7. poll' = [poll EXCEPT ![r][o] = p]
    BY <2>6 DEF TypeOK
  <2>8. p \in Poll /\ p.pc = "states" /\ p.todo = q
    <3>1. poll[r][o] \in Poll
      BY FoundTypes
    <3> QED
      BY <2>5, <3>1 DEF Poll
  <2> HIDE DEF p
  <2> QED
    BY <1>1, <2>1, <2>5, <2>7, <2>8 DEF Moved
<1> QED
  BY <1>2, <1>3

LEMMA StatesMove ==
    ASSUME TypeOK, HasTodo, NEW r \in Round, NEW o \in Olt, WalkStates(r, o)
    PROVE  \E p \in Poll : Moved(r, o, p)
<1> DEFINE d == poll[r][o].address
           todo == poll[r][o].todo
           q == [n \in DOMAIN todo |-> [todo[n] EXCEPT !.val = Seen(d, todo[n].onu)]]
<1>1. poll[r][o].pc = "states" /\ poll[r][o].pc \in Busy
  BY DEF WalkStates, Busy
<1>2. CASE Goto(r, o, "find")
  BY <1>1, <1>2, GotoMoves
<1>3. CASE ~Goto(r, o, "find")
  <2>1. poll' = [poll EXCEPT ![r][o].pc = "find", ![r][o].todo = q] /\ beside' = beside
    BY <1>3 DEF WalkStates
  <2>2. todo \in Seq(Found) /\ todo # <<>> /\ poll[r][o] \in Poll
    BY <1>1, FoundTypes
  <2>3. \A u \in Onu : Seen(d, u) \in Value
    BY DEF Seen, Value, TypeOK
  <2>4. q \in Seq(Found) /\ q # <<>>
    <3> HIDE DEF todo, d
    <3>1. Len(todo) \in Nat \ {0} /\ DOMAIN todo = 1..Len(todo)
          /\ \A n \in DOMAIN todo : todo[n] \in Found
      BY <2>2
    <3>2. \A n \in DOMAIN todo :
              [todo[n] EXCEPT !.val = Seen(d, todo[n].onu)] \in Found
      BY <2>3, <3>1 DEF Found
    <3>3. q \in [1..Len(todo) -> Found]
      BY <3>1, <3>2
    <3>4. Len(q) = Len(todo) /\ q \in Seq(Found)
      BY <3>1, <3>3
    <3> QED
      BY <3>1, <3>4
  <2> DEFINE p == [poll[r][o] EXCEPT !.pc = "find", !.todo = q]
  <2> HIDE DEF q
  <2>5. poll' = [poll EXCEPT ![r][o] = p]
    BY <2>1 DEF TypeOK
  <2>6. p \in Poll /\ p.pc = "find" /\ p.todo = q
    BY <2>2, <2>4 DEF Poll
  <2> HIDE DEF p, todo
  <2> QED
    BY <1>1, <2>1, <2>4, <2>5, <2>6 DEF Moved
<1> QED
  BY <1>2, <1>3

LEMMA FindMoves ==
    ASSUME TypeOK, HasTodo, NEW r \in Round, NEW o \in Olt, Find(r, o)
    PROVE  \E p \in Poll : Moved(r, o, p)
<1> DEFINE u == Head(poll[r][o].todo).onu
<1>1. poll[r][o].pc = "find" /\ poll[r][o] \in Poll /\ beside' = beside
      /\ poll[r][o].todo # <<>>
  BY FoundTypes DEF Find, Busy
<1>2. ASSUME NEW k \in Nat, k = 0 => Matches(o, u) = {},
             poll' = [poll EXCEPT ![r][o].pc = "write", ![r][o].row = k]
      PROVE  \E p \in Poll : Moved(r, o, p)
  <2> DEFINE p == [poll[r][o] EXCEPT !.pc = "write", !.row = k]
  <2>1. p \in Poll /\ p.pc = "write" /\ p.row = k /\ p.todo = poll[r][o].todo
    BY <1>1 DEF Poll
  <2>2. poll' = [poll EXCEPT ![r][o] = p]
    BY <1>2 DEF TypeOK
  <2> HIDE DEF p
  <2> QED
    BY <1>1, <1>2, <2>1, <2>2 DEF Moved
<1>3. CASE Matches(o, u) = {}
  BY <1>2, <1>3 DEF Find
<1>4. CASE Matches(o, u) # {}
  <2>1. PICK i \in Matches(o, u) :
            poll' = [poll EXCEPT ![r][o].pc = "write", ![r][o].row = rows[i].id]
    BY <1>4 DEF Find
  <2>2. rows[i].id \in Nat /\ rows[i].id # 0
    BY RowTypes DEF Matches
  <2> QED
    BY <1>2, <2>1, <2>2
<1> QED
  BY <1>3, <1>4

LEMMA PollStepMoves ==
    ASSUME TypeOK, HasTodo, NEW r \in Round, NEW o \in Olt, PollStep(r, o)
    PROVE  \E p \in Poll : Moved(r, o, p)
<1>1. Insert(r, o) \/ Update(r, o) => poll[r][o].pc = "write" /\ NextOnu(r, o)
  BY DEF Insert, Update
<1> QED
  BY <1>1, TestMoves, RecordMoves, SerialsMove, StatesMove, FindMoves, NextOnuMoves
     DEF PollStep

-----------------------------------------------------------------------------
(* What the steps make of the rows.                                        *)

LEMMA InsertRows ==
    ASSUME TypeOK, HasTodo, NEW r \in Round, NEW o \in Olt, Insert(r, o)
    PROVE  /\ RowsOK(rows', lastId') /\ lastId' \in Nat
           /\ \A i \in DOMAIN rows' :
                 \/ i \in DOMAIN rows /\ rows'[i] = rows[i]
                 \/ /\ rows'[i].olt = o /\ rows'[i].onu = Head(poll[r][o].todo).onu
                    /\ rows'[i].val = Head(poll[r][o].todo).val /\ rows'[i].id = lastId + 1
<1> DEFINE found == Head(poll[r][o].todo)
           x == [id |-> lastId + 1, olt |-> o, onu |-> found.onu, val |-> found.val]
<1>1. found.onu \in Onu /\ found.val \in Value
  BY FoundTypes DEF Insert, Busy
<1>2. rows' = Append(rows, x) /\ lastId' = lastId + 1 /\ lastId \in Nat
  BY DEF Insert, TypeOK
<1> HIDE DEF found
<1>3. x \in Row /\ x.id = lastId + 1 /\ x.olt = o /\ x.onu = found.onu /\ x.val = found.val
  BY <1>1, <1>2 DEF Row
<1>4. RowsOK(rows, lastId) /\ \A i \in DOMAIN rows : rows[i].id # lastId + 1
  <2>1. \A i \in DOMAIN rows : rows[i].id <= lastId /\ rows[i].id \in Nat
    BY RowTypes DEF TypeOK
  <2> QED
    BY <1>2, <2>1, RowTypes
<1> HIDE DEF x
<1>5. /\ RowsOK(Append(rows, x), lastId + 1)
      /\ \A i \in DOMAIN Append(rows, x) :
            Append(rows, x)[i] = x \/ (i \in DOMAIN rows /\ Append(rows, x)[i] = rows[i])
  <2>1. lastId + 1 \in Nat /\ lastId <= lastId + 1
    BY <1>2
  <2>2. x.id <= lastId + 1 /\ \A i \in DOMAIN rows : rows[i].id # x.id
    BY <1>2, <1>3, <1>4
  <2> QED
    BY <1>2, <1>3, <1>4, <2>1, <2>2, AppendRow, Zenon
<1> QED
  BY <1>2, <1>3, <1>5 DEF found

LEMMA UpdateRows ==
    ASSUME TypeOK, HasTodo, NEW r \in Round, NEW o \in Olt, Update(r, o)
    PROVE  /\ RowsOK(rows', lastId') /\ lastId' \in Nat /\ Stem
           /\ \A i \in DOMAIN rows' :
                 \/ \E j \in DOMAIN rows : rows'[i] = rows[j]
                 \/ /\ \E j \in DOMAIN rows : /\ Same(rows'[i], rows[j])
                                               /\ rows[j].id = poll[r][o].row
                    /\ rows'[i].val = Head(poll[r][o].todo).val
<1>1. lastId' = lastId /\ lastId \in Nat
  BY DEF Update, TypeOK
<1>2. CASE rows' = rows
  BY <1>1, <1>2, RowTypes DEF Stem, Same
<1>3. CASE rows' # rows
  <2> DEFINE v == Head(poll[r][o].todo).val
  <2>1. PICK k \in DOMAIN rows : /\ rows[k].id = poll[r][o].row
                                  /\ rows' = Touched(k, [rows[k] EXCEPT !.val = v])
    BY <1>3 DEF Update
  <2>2. v \in Value
    BY FoundTypes DEF Update, Busy
  <2> DEFINE x == [rows[k] EXCEPT !.val = v]
             q == Without(k)
  <2>3. x \in Row /\ Same(x, rows[k]) /\ x.id = rows[k].id /\ x.id <= lastId /\ x.val = v
    BY <2>2, RowTypes DEF Row, Same, TypeOK
  <2>4. rows' = Append(q, x)
    BY <2>1 DEF Touched
  <2>5. RowsOK(q, lastId) /\ \A i \in DOMAIN q : \E j \in DOMAIN rows : j # k /\ q[i] = rows[j]
    BY WithoutRows
  <2> HIDE DEF x, q
  <2>6. \A i \in DOMAIN q : q[i].id # x.id
    BY <2>3, <2>5 DEF TypeOK
  <2>7. /\ RowsOK(rows', lastId)
        /\ \A i \in DOMAIN rows' : rows'[i] = x \/ (i \in DOMAIN q /\ rows'[i] = q[i])
    <3>1. lastId <= lastId
      BY <1>1
    <3>2. /\ RowsOK(Append(q, x), lastId)
          /\ \A i \in DOMAIN Append(q, x) :
                Append(q, x)[i] = x \/ (i \in DOMAIN q /\ Append(q, x)[i] = q[i])
      BY <1>1, <2>3, <2>5, <2>6, <3>1, AppendRow, Zenon
    <3> QED
      BY <2>4, <3>2
  <2>8. Stem
    BY <2>3, <2>5, <2>7 DEF Stem, Same
  <2>9. ASSUME NEW i \in DOMAIN rows'
        PROVE  \/ \E j \in DOMAIN rows : rows'[i] = rows[j]
               \/ rows'[i] = x
    BY <2>5, <2>7, <2>9
  <2> QED
    BY <1>1, <2>1, <2>3, <2>7, <2>8, <2>9
<1> QED
  BY <1>2, <1>3

LEMMA DeleteRows ==
    ASSUME TypeOK, NEW o \in Olt, DeleteOnus(o)
    PROVE  /\ RowsOK(rows', lastId') /\ lastId' \in Nat /\ Stem
           /\ \A i \in DOMAIN rows' : rows'[i].olt # o
           /\ Part /\ lastId' = lastId
<1> DEFINE rest == DOMAIN rows \ OfOlt(o)
<1>1. PICK kept \in [1..Cardinality(rest) -> rest] :
          /\ \A m, n \in DOMAIN kept : m < n => kept[m] < kept[n]
          /\ rows' = [n \in DOMAIN kept |-> rows[kept[n]]]
  BY DEF DeleteOnus
<1>2. lastId' = lastId /\ lastId \in Nat /\ DOMAIN rows = 1..Len(rows) /\ Len(rows) \in Nat
  BY RowTypes DEF DeleteOnus
<1>3. Cardinality(rest) \in Nat
  <2>1. IsFiniteSet(DOMAIN rows) /\ rest \subseteq DOMAIN rows
    BY <1>2, FS_Interval
  <2> QED
    BY <2>1, FS_Subset, FS_CardinalityType
<1>4. rest \subseteq 1..Len(rows) /\ \A i \in rest : rows[i].olt # o
  BY <1>2 DEF OfOlt
<1> DEFINE n == Cardinality(rest)
<1>5. DOMAIN kept = 1..n /\ \A i \in 1..n : kept[i] \in rest
  BY <1>1
<1> HIDE DEF rest
<1>6. ASSUME NEW i \in 1..n, NEW j \in 1..n, i # j
      PROVE  kept[i] # kept[j]
  <2>1. i < j \/ j < i
    BY <1>3, <1>6
  <2>2. kept[i] < kept[j] \/ kept[j] < kept[i]
    BY <1>1, <1>5, <2>1
  <2>3. kept[i] \in Nat /\ kept[j] \in Nat
    <3>1. kept[i] \in 1..Len(rows) /\ kept[j] \in 1..Len(rows)
      BY <1>4, <1>5
    <3> QED
      BY <1>2, <3>1
  <2> QED
    BY <2>2, <2>3
<1>7. kept \in [1..n -> DOMAIN rows] /\ rows' = [i \in 1..n |-> rows[kept[i]]]
  BY <1>1, <1>2, <1>4, <1>5
<1>8. /\ RowsOK(rows', lastId)
      /\ \A i \in DOMAIN rows' : i \in 1..n /\ rows'[i] = rows[kept[i]]
  <2> DEFINE f == kept
             q == [i \in 1..n |-> rows[f[i]]]
  <2>1. n \in Nat /\ f \in [1..n -> DOMAIN rows] /\ rows' = q
    BY <1>3, <1>7
  <2>2. \A i, j \in 1..n : i # j => f[i] # f[j]
    BY <1>6
  <2>3. q = [i \in 1..n |-> rows[f[i]]]
    OBVIOUS
  <2> HIDE DEF n, f, q
  <2>4. /\ RowsOK(q, lastId)
        /\ \A i \in DOMAIN q : i \in 1..n /\ q[i] = rows[f[i]]
    BY <2>1, <2>2, <2>3, SomeRows
  <2> QED
    BY <2>1, <2>4 DEF f
<1> QED
  BY <1>2, <1>4, <1>5, <1>8 DEF Stem, Same, Part

\* Rows come from rows, except for the one a poll inserts.
LEMMA StepRows ==
    ASSUME TypeOK, HasTodo, [Next]_vars
    PROVE  /\ RowsOK(rows', lastId') /\ lastId' \in Nat
           /\ Stem \/ \E r \in Round, o \in Olt : Insert(r, o)
<1>1. ASSUME UNCHANGED <<rows, lastId>>
      PROVE  RowsOK(rows', lastId') /\ lastId' \in Nat /\ Stem
  BY <1>1, RowTypes DEF Stem, Same
<1>2. ASSUME NEW r \in Round, PollAll(r)
      PROVE  UNCHANGED <<rows, lastId>>
  BY <1>2 DEF PollAll, table
<1>3. ASSUME NEW r \in Round, NEW o \in Olt, PollStep(r, o), ~Insert(r, o), ~Update(r, o)
      PROVE  UNCHANGED <<rows, lastId>>
  BY <1>3 DEF PollStep, Test, RecordStatus, WalkSerials, WalkStates, Find, table
<1>4. ASSUME NEW o \in Olt, \/ \E d \in Device : Add(o, d) \/ UpdateOlt(o, d)
                            \/ FailDeleteOnus(o) \/ DeleteOlt(o) \/ FailDeleteOlt(o)
      PROVE  UNCHANGED <<rows, lastId>>
  BY <1>4 DEF Add, UpdateOlt, FailDeleteOnus, DeleteOlt, FailDeleteOlt, table
<1>5. ASSUME Network \/ Crash \/ UNCHANGED vars
      PROVE  UNCHANGED <<rows, lastId>>
  BY <1>5 DEF Network, Move, ChangeState, Power, Crash, table, vars
<1> QED
  BY <1>1, <1>2, <1>3, <1>4, <1>5, InsertRows, UpdateRows, DeleteRows
     DEF Next, Poller, Operator

-----------------------------------------------------------------------------
(* Types.                                                                  *)

\* An ONU has changed no more often than there were changes.
EpochBound == \A u \in Onu : epoch[u] <= changes

LEMMA EpochStep ==
    ASSUME TypeOK, EpochBound, [Next]_vars
    PROVE  EpochBound'
<1>1. changes \in Nat /\ epoch \in [Onu -> 0..MaxChange] /\ \A u \in Onu : epoch[u] \in Nat
  BY ConstantsAssumption DEF TypeOK
<1>2. ASSUME UNCHANGED epoch, UNCHANGED changes \/ Change
      PROVE  EpochBound'
  BY <1>1, <1>2 DEF EpochBound, Change
<1>3. ASSUME NEW u \in Onu, epoch' = [epoch EXCEPT ![u] = @ + 1], Change
      PROVE  EpochBound'
  BY <1>1, <1>3 DEF EpochBound, Change
<1>4. ASSUME NEW r \in Round, PollAll(r)
      PROVE  EpochBound'
  BY <1>2, <1>4 DEF PollAll, network
<1>5. ASSUME NEW r \in Round, NEW o \in Olt, PollStep(r, o)
      PROVE  EpochBound'
  <2>1. UNCHANGED epoch /\ (UNCHANGED changes \/ Change)
    BY <1>5 DEF PollStep, Test, RecordStatus, WalkSerials, WalkStates, Find, Insert, Update,
                Answers, Silent, network
  <2> QED
    BY <1>2, <2>1
<1>6. CASE Operator
  <2>1. UNCHANGED epoch /\ (UNCHANGED changes \/ Change)
    BY <1>6 DEF Operator, Add, UpdateOlt, DeleteOnus, FailDeleteOnus, DeleteOlt,
                FailDeleteOlt, network
  <2> QED
    BY <1>2, <2>1
<1>7. CASE Network
  <2>1. (\E u \in Onu : epoch' = [epoch EXCEPT ![u] = @ + 1] /\ Change)
        \/ (UNCHANGED epoch /\ Change)
    BY <1>7 DEF Network, Move, ChangeState, Power
  <2> QED
    BY <1>2, <1>3, <2>1
<1>8. CASE Crash \/ UNCHANGED vars
  BY <1>2, <1>8 DEF Crash, network, vars
<1> QED
  BY <1>4, <1>5, <1>6, <1>7, <1>8 DEF Next, Poller

LEMMA IsPolls == Spec => [](TypeOK /\ HasTodo)
<1>1. Init => TypeOK /\ HasTodo /\ EpochBound
  <2> SUFFICES ASSUME Init PROVE TypeOK /\ HasTodo /\ EpochBound
    OBVIOUS
  <2>1. olts \in [Olt -> OltRow]
    BY ConstantsAssumption DEF Init, OltRow, Absent, New
  <2>2. /\ rows \in Seq(Row) /\ DOMAIN rows = {} /\ lastId \in Nat
        /\ deleting \subseteq Olt /\ raced \subseteq Olt /\ beside \subseteq Round \X Olt
    BY DEF Init
  <2>3. poll \in [Round -> [Olt -> Poll]] /\ HasTodo
    BY IdleType DEF Init, HasTodo, Busy
  <2>4. /\ where \in [Onu -> Device \cup {NoDevice}] /\ epoch \in [Onu -> 0..MaxChange]
        /\ up \in [Device -> BOOLEAN] /\ changes \in 0..MaxChange
    BY ConstantsAssumption DEF Init
  <2> QED
    <3>1. EpochBound
      BY DEF Init, EpochBound
    <3> QED
      BY <2>1, <2>2, <2>3, <2>4, <3>1 DEF TypeOK
<1>2. TypeOK /\ HasTodo /\ EpochBound /\ [Next]_vars => TypeOK' /\ HasTodo' /\ EpochBound'
  <2> SUFFICES ASSUME TypeOK, HasTodo, EpochBound, [Next]_vars PROVE TypeOK' /\ HasTodo'
    BY EpochStep
  <2>0. MaxChange \in Nat /\ changes \in 0..MaxChange
    BY ConstantsAssumption DEF TypeOK
  <2>1. Change => changes' \in 0..MaxChange
    BY <2>0 DEF Change
  <2>2. RowsOK(rows', lastId') /\ lastId' \in Nat
    BY StepRows
  <2> DEFINE Rest == /\ olts' \in [Olt -> OltRow]
                     /\ deleting' \subseteq Olt
                     /\ where' \in [Onu -> Device \cup {NoDevice}]
                     /\ epoch' \in [Onu -> 0..MaxChange]
                     /\ up' \in [Device -> BOOLEAN]
                     /\ changes' \in 0..MaxChange
                     /\ raced' \subseteq Olt
                     /\ beside' \subseteq Round \X Olt
             Polls == poll' \in [Round -> [Olt -> Poll]] /\ HasTodo'
  <2>3. Rest /\ Polls => TypeOK' /\ HasTodo'
    BY <2>2 DEF TypeOK, RowsOK
  <2>4. ASSUME UNCHANGED poll PROVE Polls
    BY <2>4 DEF TypeOK, HasTodo
  <2>5. ASSUME NEW r \in Round, PollAll(r)
        PROVE  Rest /\ Polls
    <3>1. \A o \in Olt : [Idle EXCEPT !.pc = "test", !.address = olts[o].address] \in Poll
                         /\ [Idle EXCEPT !.pc = "test", !.address = olts[o].address].pc = "test"
      <4>1. \A o \in Olt : olts[o].address \in Device \cup {NoDevice}
        BY DEF TypeOK, OltRow
      <4> QED
        BY <4>1, IdleType DEF Idle, Poll
    <3>2. Polls
      BY <2>5, <3>1, IdleType DEF PollAll, TypeOK, HasTodo, Busy
    <3>3. beside' \subseteq Round \X Olt
      <4> DEFINE new == UNION {({r} \cup PollsOf(o)) \X {o} :
                                 o \in {q \in Olt : Present(q) /\ PollsOf(q) # {}}}
      <4>1. \A o \in Olt : (({r} \cup PollsOf(o)) \X {o}) \subseteq Round \X Olt
        BY DEF PollsOf
      <4>2. new \subseteq Round \X Olt
        BY <4>1
      <4>3. beside' = beside \cup new
        BY <2>5 DEF PollAll
      <4> HIDE DEF new
      <4> QED
        BY <4>2, <4>3 DEF TypeOK
    <3> QED
      BY <2>5, <3>2, <3>3 DEF PollAll, TypeOK, table, network
  <2>6. ASSUME NEW r \in Round, NEW o \in Olt, PollStep(r, o)
        PROVE  Rest /\ Polls
    <3>1. PICK p \in Poll : Moved(r, o, p)
      BY <2>6, PollStepMoves
    <3>2. Polls
      BY <3>1, PollSet DEF Moved
    <3>3. beside' \subseteq Round \X Olt
      BY <3>1 DEF Moved, TypeOK
    <3>4. changes' \in 0..MaxChange
      BY <2>0, <2>1, <2>6 DEF PollStep, Test, RecordStatus, WalkSerials, WalkStates, Find,
                              Insert, Update, Answers, Silent
    <3>5. olts' \in [Olt -> OltRow]
      <4>1. CASE RecordStatus(r, o)
        <5>1. olts' = olts \/ \E st \in {"online", "offline"} : olts' = [olts EXCEPT ![o].status = st]
          BY <4>1 DEF RecordStatus, Status
        <5>2. olts \in [Olt -> OltRow]
          BY DEF TypeOK
        <5>3. \A st \in {"online", "offline"} : [olts[o] EXCEPT !.status = st] \in OltRow
          BY <5>2 DEF OltRow
        <5> QED
          BY <5>1, <5>2, <5>3
      <4>2. CASE ~RecordStatus(r, o)
        BY <2>6, <4>2 DEF PollStep, Test, WalkSerials, WalkStates, Find, Insert, Update,
                          table, TypeOK
      <4> QED
        BY <4>1, <4>2
    <3>6. UNCHANGED <<deleting, where, epoch, up, raced>>
      BY <2>6 DEF PollStep, Test, RecordStatus, WalkSerials, WalkStates, Find,
                  Insert, Update, network
    <3> QED
      BY <3>2, <3>3, <3>4, <3>5, <3>6 DEF TypeOK
  <2>7. ASSUME Operator
        PROVE  Rest /\ Polls
    <3>1. ASSUME NEW o \in Olt, NEW d \in Device, Add(o, d)
          PROVE  Rest /\ UNCHANGED poll
      BY <2>1, <3>1 DEF Add, New, OltRow, TypeOK, network
    <3>2. ASSUME NEW o \in Olt, NEW d \in Device, UpdateOlt(o, d)
          PROVE  Rest /\ UNCHANGED poll
      BY <2>1, <3>2 DEF UpdateOlt, OltRow, TypeOK, network
    <3>3. ASSUME NEW o \in Olt, DeleteOnus(o)
          PROVE  Rest /\ UNCHANGED poll
      BY <2>1, <3>3 DEF DeleteOnus, TypeOK, network
    <3>4. ASSUME NEW o \in Olt, DeleteOlt(o)
          PROVE  Rest /\ UNCHANGED poll
      BY <3>4 DEF DeleteOlt, Absent, OltRow, TypeOK, network
    <3>5. ASSUME NEW o \in Olt, FailDeleteOnus(o) \/ FailDeleteOlt(o)
          PROVE  Rest /\ UNCHANGED poll
      BY <2>1, <3>5 DEF FailDeleteOnus, FailDeleteOlt, TypeOK, table, network
    <3> QED
      BY <2>4, <2>7, <3>1, <3>2, <3>3, <3>4, <3>5 DEF Operator
  <2>8. ASSUME Network
        PROVE  Rest /\ Polls
    <3>1. \A u \in Onu : Change => epoch[u] + 1 \in 0..MaxChange
      BY <2>0 DEF Change, EpochBound, TypeOK
    <3>2. ASSUME NEW u \in Onu, NEW d \in Device \cup {NoDevice}, Move(u, d)
          PROVE  Rest /\ UNCHANGED poll
      BY <2>1, <3>1, <3>2 DEF Move, TypeOK, table
    <3>3. ASSUME NEW u \in Onu, ChangeState(u)
          PROVE  Rest /\ UNCHANGED poll
      BY <2>1, <3>1, <3>3 DEF ChangeState, TypeOK, table
    <3>4. ASSUME NEW d \in Device, Power(d)
          PROVE  Rest /\ UNCHANGED poll
      BY <2>1, <3>4 DEF Power, TypeOK, table
    <3> QED
      BY <2>4, <2>8, <3>2, <3>3, <3>4 DEF Network
  <2>9. CASE Crash
    <3>1. Polls
      BY <2>9, IdleType DEF Crash, HasTodo, Busy
    <3>2. Rest
      BY <2>1, <2>9 DEF Crash, TypeOK, table, network
    <3> QED
      BY <2>3, <3>1, <3>2
  <2>10. CASE UNCHANGED vars
    BY <2>3, <2>4, <2>10 DEF vars, TypeOK
  <2> QED
    BY <2>3, <2>5, <2>6, <2>7, <2>8, <2>9, <2>10 DEF Next, Poller
<1> QED
  BY <1>1, <1>2, PTL DEF Spec

\* Whatever overlaps, fails or is deleted, the rows of ONUs have ids of their own, and
\* everything keeps its type.
THEOREM TypeCorrect == Spec => []TypeOK
BY IsPolls, PTL

-----------------------------------------------------------------------------
(* Orphans.                                                                *)

\* An OLT that is deleted, or half so, has neither rows nor polls, unless it was polled
\* meanwhile.
OrphanInv ==
    \A o \in Olt : (olts[o].state = "deleted" \/ o \in deleting) /\ o \notin raced =>
        /\ \A i \in DOMAIN rows : rows[i].olt # o
        /\ \A r \in Round : poll[r][o].pc = "idle"

LEMMA OrphanStep ==
    ASSUME TypeOK, HasTodo, OrphanInv, [Next]_vars
    PROVE  OrphanInv'
<1>1. ASSUME Stem, UNCHANGED poll,
             \A o \in Olt : /\ olts'[o].state = "deleted" \/ o \in deleting'
                            /\ o \notin raced'
                            => /\ olts[o].state = "deleted" \/ o \in deleting
                               /\ o \notin raced
      PROVE  OrphanInv'
  BY <1>1 DEF OrphanInv, Stem, Same
<1>2. ASSUME UNCHANGED rows
      PROVE  Stem
  BY <1>2, RowTypes DEF Stem, Same
<1>3. ASSUME NEW r \in Round, PollAll(r)
      PROVE  OrphanInv'
  <2>1. UNCHANGED <<olts, rows, deleting>> /\ raced' = raced \cup deleting
    BY <1>3 DEF PollAll, table
  <2>2. ASSUME NEW o \in Olt, olts[o].state = "deleted", o \notin raced, NEW r2 \in Round
        PROVE  poll'[r2][o].pc = "idle"
    <3>1. ~Present(o) /\ poll[r2][o].pc = "idle"
      BY <2>2 DEF Present, OrphanInv
    <3> QED
      BY <1>3, <3>1, IdleType DEF PollAll, TypeOK
  <2> QED
    BY <2>1, <2>2 DEF OrphanInv
<1>4. ASSUME NEW r \in Round, NEW o \in Olt, PollStep(r, o)
      PROVE  OrphanInv'
  <2>1. PICK p \in Poll : Moved(r, o, p)
    BY <1>4, PollStepMoves
  <2>2. \A r2 \in Round, q \in Olt : <<r2, q>> # <<r, o>> => poll'[r2][q] = poll[r2][q]
    BY <2>1, PollSet DEF Moved
  <2>3. /\ UNCHANGED <<deleting, raced>>
        /\ \A q \in Olt : olts'[q].state = olts[q].state
    <3>1. UNCHANGED <<deleting, raced>>
      BY <1>4 DEF PollStep, Test, RecordStatus, WalkSerials, WalkStates, Find, Insert, Update
    <3>2. UNCHANGED olts \/ \E st \in {"online", "offline"} : olts' = [olts EXCEPT ![o].status = st]
      <4>1. CASE RecordStatus(r, o)
        BY <4>1 DEF RecordStatus, Status
      <4>2. CASE ~RecordStatus(r, o)
        BY <1>4, <4>2 DEF PollStep, Test, WalkSerials, WalkStates, Find, Insert, Update, table
      <4> QED
        BY <4>1, <4>2
    <3>3. \A q \in Olt : olts[q] \in OltRow
      BY DEF TypeOK
    <3>4. \A q \in Olt : olts'[q].state = olts[q].state
      <4>1. \A st : [olts[o] EXCEPT !.status = st].state = olts[o].state
        BY <3>3 DEF OltRow
      <4>2. olts \in [Olt -> OltRow]
        BY DEF TypeOK
      <4>3. ASSUME NEW st, olts' = [olts EXCEPT ![o].status = st], NEW q \in Olt
            PROVE  olts'[q].state = olts[q].state
        <5>1. olts' = [olts EXCEPT ![o] = [olts[o] EXCEPT !.status = st]]
          BY <4>3
        <5> QED
          BY <4>1, <4>2, <5>1
      <4> QED
        BY <3>2, <4>3
    <3> QED
      BY <3>1, <3>4
  <2>4. \A i \in DOMAIN rows' : \/ rows'[i].olt = o
                                \/ \E j \in DOMAIN rows : rows'[i].olt = rows[j].olt
    <3>1. CASE Insert(r, o)
      BY <3>1, InsertRows
    <3>2. CASE Update(r, o)
      BY <3>2, UpdateRows DEF Stem, Same
    <3>3. CASE ~Insert(r, o) /\ ~Update(r, o)
      BY <1>4, <3>3 DEF PollStep, Test, RecordStatus, WalkSerials, WalkStates, Find, table
    <3> QED
      BY <3>1, <3>2, <3>3
  <2> SUFFICES ASSUME NEW q \in Olt, olts'[q].state = "deleted" \/ q \in deleting',
                      q \notin raced'
               PROVE  /\ \A i \in DOMAIN rows' : rows'[i].olt # q
                      /\ \A r2 \in Round : poll'[r2][q].pc = "idle"
    BY DEF OrphanInv
  <2>5. /\ \A i \in DOMAIN rows : rows[i].olt # q
        /\ \A r2 \in Round : poll[r2][q].pc = "idle"
    BY <2>3 DEF OrphanInv
  <2>6. q # o
    BY <2>1, <2>5 DEF Moved
  <2> QED
    BY <2>2, <2>4, <2>5, <2>6
<1>5. ASSUME NEW o \in Olt, DeleteOnus(o)
      PROVE  OrphanInv'
  <2>1. /\ deleting' = deleting \cup {o} /\ UNCHANGED <<olts, poll>>
        /\ raced' = IF PollsOf(o) # {} THEN raced \cup {o} ELSE raced \ {o}
    BY <1>5 DEF DeleteOnus
  <2>2. Stem /\ \A i \in DOMAIN rows' : rows'[i].olt # o
    BY <1>5, DeleteRows
  <2>3. o \notin raced' => \A r \in Round : poll'[r][o].pc = "idle"
    BY <2>1 DEF PollsOf
  <2> QED
    BY <2>1, <2>2, <2>3 DEF OrphanInv, Stem, Same
<1>6. ASSUME NEW o \in Olt, NEW d \in Device, Add(o, d) \/ UpdateOlt(o, d)
      PROVE  OrphanInv'
  <2>1. UNCHANGED <<rows, poll, deleting, raced>>
        /\ \A q \in Olt : olts'[q].state = "deleted" => olts[q].state = "deleted"
    <3>1. olts \in [Olt -> OltRow]
      BY DEF TypeOK
    <3>2. CASE Add(o, d)
      <4>1. olts' = [olts EXCEPT ![o] = New(d)] /\ New(d).state = "present"
        BY <3>2 DEF Add, New
      <4> QED
        BY <3>1, <3>2, <4>1 DEF Add
    <3>3. CASE UpdateOlt(o, d)
      <4>1. olts' = [olts EXCEPT ![o] = [olts[o] EXCEPT !.address = d]]
        BY <3>3 DEF UpdateOlt
      <4>2. [olts[o] EXCEPT !.address = d].state = olts[o].state
        BY <3>1 DEF OltRow
      <4> QED
        BY <3>1, <3>3, <4>1, <4>2 DEF UpdateOlt
    <3> QED
      BY <1>6, <3>2, <3>3
  <2> QED
    BY <1>1, <1>2, <2>1
<1>7. ASSUME NEW o \in Olt, DeleteOlt(o)
      PROVE  OrphanInv'
  <2>1. /\ o \in deleting /\ UNCHANGED <<rows, poll, raced>> /\ deleting' = deleting \ {o}
        /\ \A q \in Olt : q # o => olts'[q] = olts[q]
    BY <1>7 DEF DeleteOlt, TypeOK
  <2> QED
    BY <1>1, <1>2, <2>1
<1>11. ASSUME NEW o \in Olt, FailDeleteOnus(o) \/ FailDeleteOlt(o)
       PROVE  OrphanInv'
  <2>1. /\ UNCHANGED <<olts, rows, poll>>
        /\ \A q \in Olt : q \in deleting' /\ q \notin raced' => q \in deleting
        /\ \A q \in Olt : q \notin raced' => q \notin raced
    BY <1>11 DEF FailDeleteOnus, FailDeleteOlt, table
  <2> QED
    BY <1>1, <1>2, <2>1
<1>8. CASE Network
  BY <1>1, <1>2, <1>8 DEF Network, Move, ChangeState, Power, table
<1>9. CASE Crash
  <2>1. /\ UNCHANGED <<olts, rows, raced>> /\ deleting' = {}
        /\ \A r \in Round, o \in Olt : poll'[r][o].pc = "idle"
    BY <1>9, IdleType DEF Crash, table
  <2> QED
    BY <2>1 DEF OrphanInv
<1>10. CASE UNCHANGED vars
  BY <1>1, <1>2, <1>10 DEF vars
<1> QED
  BY <1>3, <1>4, <1>5, <1>6, <1>7, <1>8, <1>9, <1>10, <1>11 DEF Next, Poller, Operator

\* /admin/olt/delete leaves no rows of ONUs behind, unless a poll of the OLT was under way
\* at the first of its two DELETEs or began before the second, or the first DELETE failed.
THEOREM OrphansAreExplained == Spec => []OrphansHaveCause
<1>1. Init => OrphanInv
  BY IdleType DEF Init, OrphanInv, New, Absent
<1>2. TypeOK /\ HasTodo /\ OrphanInv /\ [Next]_vars => OrphanInv'
  BY OrphanStep
<1>3. TypeOK /\ OrphanInv => OrphansHaveCause
  BY RowTypes DEF OrphanInv, OrphansHaveCause
<1> QED
  BY <1>1, <1>2, <1>3, IsPolls, PTL DEF Spec

-----------------------------------------------------------------------------
(* Two rows of an ONU.                                                     *)

NoRow(q, o, u) == \A i \in DOMAIN q : ~(q[i].olt = o /\ q[i].onu = u)

\* Polls of the same OLT run beside each other; and a poll that ran alone inserts only
\* what has no row.
BesideInv ==
    /\ \A o \in Olt : \A r, r2 \in Round :
          r # r2 /\ poll[r][o].pc # "idle" /\ poll[r2][o].pc # "idle" => <<r, o>> \in beside
    /\ \A r \in Round, o \in Olt :
          poll[r][o].pc = "write" /\ poll[r][o].row = 0 /\ <<r, o>> \notin beside =>
              NoRow(rows, o, Head(poll[r][o].todo).onu)

LEMMA NoMatch ==
    ASSUME NEW o \in Olt, NEW u
    PROVE  Matches(o, u) = {} <=> NoRow(rows, o, u)
BY DEF Matches, NoRow

LEMMA StillNoRow ==
    ASSUME Stem, NEW o, NEW u, NoRow(rows, o, u)
    PROVE  NoRow(rows', o, u)
BY DEF Stem, Same, NoRow

LEMMA BesideStep ==
    ASSUME TypeOK, HasTodo, BesideInv, [Next]_vars
    PROVE  BesideInv'
<1>1. ASSUME Stem, UNCHANGED <<poll, beside>>
      PROVE  BesideInv'
  <2>1. \A r \in Round, o \in Olt :
            NoRow(rows, o, Head(poll[r][o].todo).onu) => NoRow(rows', o, Head(poll[r][o].todo).onu)
    BY <1>1, StillNoRow
  <2> QED
    BY <1>1, <2>1 DEF BesideInv
<1>2. ASSUME UNCHANGED rows
      PROVE  Stem
  BY <1>2, RowTypes DEF Stem, Same
<1>3. ASSUME NEW r \in Round, PollAll(r)
      PROVE  BesideInv'
  <2>1. /\ UNCHANGED rows /\ beside \subseteq beside'
        /\ \A o \in Olt : poll[r][o] = Idle
        /\ \A r2 \in Round, o \in Olt : r2 # r => poll'[r2][o] = poll[r2][o]
        /\ \A o \in Olt : poll'[r][o] = IF Present(o)
                THEN [Idle EXCEPT !.pc = "test", !.address = olts[o].address] ELSE Idle
    BY <1>3 DEF PollAll, table, TypeOK
  <2>2. \A o \in Olt : poll'[r][o].pc \in {"idle", "test"}
                       /\ (poll'[r][o].pc # "idle" => Present(o))
    <3>1. \A d : [Idle EXCEPT !.pc = "test", !.address = d].pc = "test"
      BY DEF Idle
    <3> QED
      BY <2>1, <3>1, IdleType
  <2>3. ASSUME NEW o \in Olt, NEW r2 \in Round, Present(o), poll[r2][o].pc # "idle"
        PROVE  <<r, o>> \in beside' /\ <<r2, o>> \in beside'
    <3>1. r2 \in PollsOf(o)
      BY <2>3 DEF PollsOf
    <3>2. (({r} \cup PollsOf(o)) \X {o}) \subseteq beside'
      BY <1>3, <2>3, <3>1 DEF PollAll
    <3> QED
      BY <3>1, <3>2
  <2>4. ASSUME NEW o \in Olt, NEW a \in Round, NEW b \in Round, a # b,
               poll'[a][o].pc # "idle", poll'[b][o].pc # "idle"
        PROVE  <<a, o>> \in beside'
    <3>1. CASE a = r
      <4>1. Present(o) /\ poll[b][o].pc # "idle"
        BY <2>1, <2>2, <2>4, <3>1
      <4> QED
        BY <2>3, <3>1, <4>1
    <3>2. CASE b = r
      <4>1. Present(o) /\ poll[a][o].pc # "idle"
        BY <2>1, <2>2, <2>4, <3>2
      <4> QED
        BY <2>3, <4>1
    <3>3. CASE a # r /\ b # r
      BY <2>1, <2>4, <3>3 DEF BesideInv
    <3> QED
      BY <3>1, <3>2, <3>3
  <2>5. ASSUME NEW a \in Round, NEW o \in Olt, poll'[a][o].pc = "write", poll'[a][o].row = 0,
               <<a, o>> \notin beside'
        PROVE  NoRow(rows', o, Head(poll'[a][o].todo).onu)
    <3>1. a # r /\ poll'[a][o] = poll[a][o]
      BY <2>1, <2>2, <2>5
    <3>2. NoRow(rows, o, Head(poll[a][o].todo).onu)
      BY <2>1, <2>5, <3>1 DEF BesideInv
    <3> QED
      BY <2>1, <3>1, <3>2
  <2> QED
    BY <2>4, <2>5 DEF BesideInv
<1>4. ASSUME NEW r \in Round, NEW o \in Olt, PollStep(r, o)
      PROVE  BesideInv'
  <2>1. PICK p \in Poll : Moved(r, o, p)
    BY <1>4, PollStepMoves
  <2>2. /\ poll'[r][o] = p
        /\ \A a \in Round, q \in Olt : <<a, q>> # <<r, o>> => poll'[a][q] = poll[a][q]
    <3>1. poll' = [poll EXCEPT ![r][o] = p] /\ poll \in [Round -> [Olt -> Poll]]
      BY <2>1 DEF Moved, TypeOK
    <3> QED
      BY <3>1
  <2>3. \A a \in Round, q \in Olt : poll'[a][q].pc # "idle" =>
            poll[a][q].pc # "idle" /\ (<<a, q>> \in beside' <=> <<a, q>> \in beside)
    BY <2>1, <2>2 DEF Moved
  <2>4. ASSUME NEW q \in Olt, NEW a \in Round, NEW b \in Round, a # b,
               poll'[a][q].pc # "idle", poll'[b][q].pc # "idle"
        PROVE  <<a, q>> \in beside'
    BY <2>3, <2>4 DEF BesideInv
  <2>5. ASSUME NEW a \in Round, NEW q \in Olt, poll'[a][q].pc = "write", poll'[a][q].row = 0,
               <<a, q>> \notin beside'
        PROVE  NoRow(rows', q, Head(poll'[a][q].todo).onu)
    <3>1. CASE a = r /\ q = o
      <4>1. Find(r, o) /\ Matches(o, Head(p.todo).onu) = {}
        BY <1>4, <2>1, <2>2, <2>5, <3>1 DEF Moved, PollStep, Test, RecordStatus, WalkSerials,
                                            WalkStates, Insert, Update
      <4>2. UNCHANGED rows
        BY <4>1 DEF Find, table
      <4>3. NoRow(rows, o, Head(p.todo).onu)
        BY <4>1, NoMatch
      <4> QED
        BY <2>2, <3>1, <4>2, <4>3
    <3>2. CASE <<a, q>> # <<r, o>>
      <4>1. poll'[a][q] = poll[a][q] /\ <<a, q>> \notin beside
        BY <2>2, <2>3, <2>5, <3>2
      <4>2. NoRow(rows, q, Head(poll[a][q].todo).onu)
        BY <2>5, <4>1 DEF BesideInv
      <4>3. CASE Stem
        BY <4>1, <4>2, <4>3, StillNoRow
      <4>4. CASE Insert(r, o)
        <5>1. poll[r][o].pc # "idle" /\ poll[a][q].pc # "idle"
          BY <2>1, <2>5, <4>1 DEF Moved
        <5>2. q # o
          BY <3>2, <4>1, <5>1 DEF BesideInv
        <5>3. \A i \in DOMAIN rows' :
                  (i \in DOMAIN rows /\ rows'[i] = rows[i]) \/ rows'[i].olt = o
          BY <4>4, InsertRows
        <5> QED
          BY <4>1, <4>2, <5>2, <5>3 DEF NoRow
      <4>5. CASE ~Insert(r, o)
        <5>1. Stem
          <6>1. CASE Update(r, o)
            BY <6>1, UpdateRows
          <6>2. CASE ~Update(r, o)
            BY <1>2, <1>4, <4>5, <6>2 DEF PollStep, Test, RecordStatus, WalkSerials,
                                          WalkStates, Find, table
          <6> QED
            BY <6>1, <6>2
        <5> QED
          BY <4>3, <5>1
      <4> QED
        BY <4>4, <4>5
    <3> QED
      BY <3>1, <3>2
  <2> QED
    BY <2>4, <2>5 DEF BesideInv
<1>5. CASE Operator
  <2>1. UNCHANGED <<poll, beside>>
    BY <1>5 DEF Operator, Add, UpdateOlt, DeleteOnus, FailDeleteOnus, DeleteOlt, FailDeleteOlt
  <2>2. Stem
    BY <1>2, <1>5, DeleteRows
       DEF Operator, Add, UpdateOlt, FailDeleteOnus, DeleteOlt, FailDeleteOlt, table
  <2> QED
    BY <1>1, <2>1, <2>2
<1>6. CASE Network \/ UNCHANGED vars
  BY <1>1, <1>2, <1>6 DEF Network, Move, ChangeState, Power, table, vars
<1>7. CASE Crash
  <2>1. \A a \in Round, q \in Olt : poll'[a][q].pc = "idle"
    BY <1>7, IdleType DEF Crash
  <2> QED
    BY <2>1 DEF BesideInv
<1> QED
  BY <1>3, <1>4, <1>5, <1>6, <1>7 DEF Next, Poller

\* The table has no unique index and FirstOrCreate is two statements; all the same an OLT
\* gets a second row for an ONU only from a poll that ran beside another one of it.
THEOREM RowsAreUnique == Spec => OneRowPerOnu
<1> DEFINE A == \A i \in DOMAIN rows' :
                  (rows'[i].id > lastId /\ \E j \in DOMAIN rows : /\ rows[j].olt = rows'[i].olt
                                                                  /\ rows[j].onu = rows'[i].onu)
                      => Ran(rows'[i].olt)
<1>1. Init => BesideInv
  BY IdleType DEF Init, BesideInv
<1>2. TypeOK /\ HasTodo /\ BesideInv /\ [Next]_vars => BesideInv'
  BY BesideStep
<1>3. TypeOK /\ HasTodo /\ BesideInv /\ [Next]_vars => [A]_vars
  <2> SUFFICES ASSUME TypeOK, HasTodo, BesideInv, [Next]_vars,
                      NEW i \in DOMAIN rows', rows'[i].id > lastId,
                      NEW j \in DOMAIN rows, rows[j].olt = rows'[i].olt,
                      rows[j].onu = rows'[i].onu
               PROVE  Ran(rows'[i].olt)
    OBVIOUS
  <2>1. \A k \in DOMAIN rows : rows[k].id \in Nat /\ rows[k].id <= lastId /\ lastId \in Nat
    BY RowTypes DEF TypeOK
  <2>2. ~Stem
    BY <2>1 DEF Stem, Same
  <2>3. PICK r \in Round, o \in Olt : Insert(r, o)
    BY <2>2, StepRows
  <2>4. rows'[i].olt = o /\ rows'[i].onu = Head(poll[r][o].todo).onu
    BY <2>1, <2>3, InsertRows
  <2>5. ~NoRow(rows, o, Head(poll[r][o].todo).onu)
    BY <2>4 DEF NoRow
  <2>6. <<r, o>> \in beside
    BY <2>3, <2>5 DEF Insert, BesideInv
  <2> QED
    BY <2>4, <2>6 DEF Ran
<1> QED
  BY <1>1, <1>2, <1>3, IsPolls, PTL DEF Spec, OneRowPerOnu

-----------------------------------------------------------------------------
(* The age of what is written.                                             *)

\* What a poll is about to write was true at some time, is one value for each ONU, and is
\* not older than the rows it is for, unless the poll ran beside another one.  The row it
\* has selected is one for its ONU.
PollTrue(r, o) ==
    LET p == poll[r][o]
    IN  p.pc \in Busy =>
          /\ \A n \in DOMAIN p.todo : p.todo[n].val <= epoch[p.todo[n].onu]
          /\ \A m, n \in DOMAIN p.todo :
                p.todo[m].onu = p.todo[n].onu => p.todo[m].val = p.todo[n].val
          /\ <<r, o>> \notin beside =>
                \A n \in DOMAIN p.todo, i \in DOMAIN rows :
                    (rows[i].olt = o /\ rows[i].onu = p.todo[n].onu /\ p.todo[n].val # Empty)
                        => rows[i].val <= p.todo[n].val
          /\ (p.pc = "write" /\ p.row # 0) =>
                /\ p.row <= lastId
                /\ \A i \in DOMAIN rows :
                      rows[i].id = p.row => rows[i].olt = o /\ rows[i].onu = Head(p.todo).onu

RowsTrue == \A i \in DOMAIN rows : rows[i].val <= epoch[rows[i].onu]

AgeInv == RowsTrue /\ \A r \in Round, o \in Olt : PollTrue(r, o)

LEMMA ValueNumbers ==
    ASSUME TypeOK
    PROVE  /\ \A v \in Value : v \in Int /\ Empty <= v
           /\ \A u \in Onu : epoch[u] \in Nat /\ epoch[u] \in Value /\ Empty <= epoch[u]
           /\ \A i \in DOMAIN rows : rows[i].val \in Value /\ rows[i].val \in Int
           /\ lastId \in Nat
<1>1. MaxChange \in Nat /\ epoch \in [Onu -> 0..MaxChange]
  BY ConstantsAssumption DEF TypeOK
<1>2. \A x \in Row : x.val \in Value
  BY DEF Row
<1> QED
  BY <1>1, <1>2, RowTypes DEF Value, Empty, TypeOK

LEMMA TodoTypes ==
    ASSUME TypeOK, HasTodo, NEW r \in Round, NEW o \in Olt
    PROVE  /\ \A n \in DOMAIN poll[r][o].todo : /\ poll[r][o].todo[n].onu \in Onu
                                                /\ poll[r][o].todo[n].val \in Value
           /\ poll[r][o].pc \in Busy =>
                /\ 1 \in DOMAIN poll[r][o].todo
                /\ Head(poll[r][o].todo) = poll[r][o].todo[1]
                /\ \A n \in DOMAIN Tail(poll[r][o].todo) :
                      /\ n + 1 \in DOMAIN poll[r][o].todo
                      /\ Tail(poll[r][o].todo)[n] = poll[r][o].todo[n + 1]
<1> DEFINE q == poll[r][o].todo
<1>1. q \in Seq(Found) /\ (poll[r][o].pc \in Busy => q # <<>>)
  BY FoundTypes
<1> HIDE DEF q
<1>2. \A n \in DOMAIN q : q[n] \in Found
  BY <1>1
<1>3. q # <<>> => /\ 1 \in DOMAIN q /\ Head(q) = q[1]
                  /\ \A n \in DOMAIN Tail(q) : n + 1 \in DOMAIN q /\ Tail(q)[n] = q[n + 1]
  BY <1>1
<1> QED
  BY <1>1, <1>2, <1>3 DEF q, Found

\* A poll that rests stays true while rows go and ONUs change.
LEMMA RestTrue ==
    ASSUME TypeOK, HasTodo, NEW r \in Round, NEW o \in Olt, PollTrue(r, o),
           poll'[r][o] = poll[r][o], <<r, o>> \in beside => <<r, o>> \in beside',
           Part, lastId' = lastId,
           \A u \in Onu : epoch'[u] \in Nat /\ epoch[u] <= epoch'[u]
    PROVE  PollTrue(r, o)'
<1> DEFINE p == poll[r][o]
<1>1. \A n \in DOMAIN p.todo : p.todo[n].onu \in Onu /\ p.todo[n].val \in Int
  BY TodoTypes, ValueNumbers
<1>2. \A n \in DOMAIN p.todo :
          p.todo[n].val <= epoch[p.todo[n].onu] => p.todo[n].val <= epoch'[p.todo[n].onu]
  BY <1>1, ValueNumbers
<1> QED
  BY <1>2 DEF PollTrue, Part

\* What a step that writes nothing makes of its poll.
LEMMA OwnTodo ==
    ASSUME TypeOK, HasTodo, NEW r \in Round, NEW o \in Olt, PollStep(r, o)
    PROVE  LET p == poll[r][o]
               q == poll'[r][o]
           IN  \/ q.pc \notin Busy
               \/ q.pc = "states" /\ \A n \in DOMAIN q.todo : q.todo[n].val = Empty
               \/ /\ p.pc = "states" /\ q.pc = "find" /\ DOMAIN q.todo = DOMAIN p.todo
                  /\ \A n \in DOMAIN q.todo :
                        /\ q.todo[n].onu = p.todo[n].onu
                        /\ q.todo[n].val = Seen(p.address, p.todo[n].onu)
               \/ p.pc = "states" /\ q.pc = "find" /\ q.todo = p.todo
               \/ /\ p.pc = "find" /\ q.pc = "write" /\ q.todo = p.todo
                  /\ q.row # 0 => \E i \in Matches(o, Head(p.todo).onu) : q.row = rows[i].id
               \/ p.pc = "write" /\ q.pc = "find" /\ q.todo = Tail(p.todo)
<1> DEFINE p == poll[r][o]
           q == poll'[r][o]
<1>1. p \in Poll /\ poll \in [Round -> [Olt -> Poll]]
  BY DEF TypeOK
<1>2. ASSUME NEW pc, Goto(r, o, pc) PROVE q.pc = pc /\ q.todo = p.todo
  BY <1>1, <1>2 DEF Goto, Poll
<1>3. ASSUME Finish(r, o) PROVE q.pc \notin Busy
  BY <1>1, <1>3, IdleType DEF Finish, Busy
<1>4. CASE Test(r, o)
  BY <1>2, <1>4 DEF Test, Busy
<1>5. CASE RecordStatus(r, o)
  BY <1>2, <1>3, <1>5 DEF RecordStatus, Busy
<1>6. CASE WalkSerials(r, o) /\ ~Finish(r, o)
  <2>1. PICK order \in [1..Cardinality(Attached(p.address)) -> Attached(p.address)] :
              poll' = [poll EXCEPT ![r][o].pc = "states",
                              ![r][o].todo = [n \in DOMAIN order |->
                                  [onu |-> order[n], val |-> Empty]]]
    BY <1>6 DEF WalkSerials
  <2> DEFINE t == [n \in DOMAIN order |-> [onu |-> order[n], val |-> Empty]]
  <2>2. \A n \in DOMAIN t : t[n].val = Empty
    OBVIOUS
  <2>3. poll' = [poll EXCEPT ![r][o].pc = "states", ![r][o].todo = t]
    BY <2>1
  <2> HIDE DEF t
  <2>4. q.pc = "states" /\ q.todo = t
    BY <1>1, <2>3 DEF Poll
  <2> QED
    BY <2>2, <2>4
<1>7. CASE WalkStates(r, o)
  <2> DEFINE t == [n \in DOMAIN p.todo |-> [p.todo[n] EXCEPT !.val = Seen(p.address, p.todo[n].onu)]]
  <2>1. p.pc = "states"
    BY <1>7 DEF WalkStates
  <2>2. CASE Goto(r, o, "find")
    BY <1>2, <2>1, <2>2 DEF Busy
  <2>3. CASE ~Goto(r, o, "find")
    <3>1. poll' = [poll EXCEPT ![r][o].pc = "find", ![r][o].todo = t]
      BY <1>7, <2>3 DEF WalkStates
    <3>2. \A n \in DOMAIN p.todo : p.todo[n] \in Found
      BY FoundTypes
    <3>3. DOMAIN t = DOMAIN p.todo
      OBVIOUS
    <3>4. \A n \in DOMAIN t : t[n].onu = p.todo[n].onu /\ t[n].val = Seen(p.address, p.todo[n].onu)
      <4> HIDE DEF p
      <4> QED
        BY <3>2 DEF Found
    <3> HIDE DEF t
    <3>5. q.pc = "find" /\ q.todo = t
      BY <1>1, <3>1 DEF Poll
    <3> QED
      BY <2>1, <3>3, <3>4, <3>5
  <2> QED
    BY <2>2, <2>3
<1>8. CASE Find(r, o)
  <2>1. ASSUME NEW k, poll' = [poll EXCEPT ![r][o].pc = "write", ![r][o].row = k]
        PROVE  q.pc = "write" /\ q.todo = p.todo /\ q.row = k
    BY <1>1, <2>1 DEF Poll
  <2>2. p.pc = "find"
    BY <1>8 DEF Find
  <2>3. CASE Matches(o, Head(p.todo).onu) = {}
    BY <1>8, <2>1, <2>2, <2>3 DEF Find
  <2>4. CASE Matches(o, Head(p.todo).onu) # {}
    <3>1. PICK i \in Matches(o, Head(p.todo).onu) :
              poll' = [poll EXCEPT ![r][o].pc = "write", ![r][o].row = rows[i].id]
      BY <1>8, <2>4 DEF Find
    <3> QED
      BY <2>1, <2>2, <3>1
  <2> QED
    BY <2>3, <2>4
<1>9. CASE Insert(r, o) \/ Update(r, o)
  <2>1. p.pc = "write" /\ NextOnu(r, o)
    BY <1>9 DEF Insert, Update
  <2>2. CASE Len(p.todo) = 1
    BY <1>3, <2>1, <2>2 DEF NextOnu
  <2>3. CASE Len(p.todo) # 1
    <3>1. poll' = [poll EXCEPT ![r][o].pc = "find", ![r][o].row = 0, ![r][o].todo = Tail(@)]
      BY <2>1, <2>3 DEF NextOnu
    <3>2. q.pc = "find" /\ q.todo = Tail(p.todo)
      BY <1>1, <3>1 DEF Poll
    <3> QED
      BY <2>1, <3>2
  <2> QED
    BY <2>2, <2>3
<1> QED
  BY <1>3, <1>4, <1>5, <1>6, <1>7, <1>8, <1>9 DEF PollStep

\* The rows that a poll writes come from the head of its list.
Wrote(r, o) ==
    \A i \in DOMAIN rows' :
        \/ \E j \in DOMAIN rows : rows'[i] = rows[j]
        \/ /\ rows'[i].olt = o
           /\ rows'[i].onu = Head(poll[r][o].todo).onu
           /\ rows'[i].val = Head(poll[r][o].todo).val
           /\ rows'[i].id = lastId + 1 \/ \E j \in DOMAIN rows : Same(rows'[i], rows[j])

LEMMA PollWrites ==
    ASSUME TypeOK, HasTodo, AgeInv, NEW r \in Round, NEW o \in Olt, PollStep(r, o)
    PROVE  /\ Wrote(r, o) /\ lastId' \in Nat /\ lastId <= lastId' /\ epoch' = epoch
           /\ poll[r][o].pc # "write" => Part /\ lastId' = lastId
<1>1. epoch' = epoch /\ lastId \in Nat
  BY DEF PollStep, Test, RecordStatus, WalkSerials, WalkStates, Find, Insert, Update, network, TypeOK
<1>2. CASE Insert(r, o)
  <2>1. lastId' = lastId + 1 /\ poll[r][o].pc = "write"
    BY <1>2 DEF Insert
  <2>2. \A i \in DOMAIN rows' :
            \/ i \in DOMAIN rows /\ rows'[i] = rows[i]
            \/ /\ rows'[i].olt = o /\ rows'[i].onu = Head(poll[r][o].todo).onu
               /\ rows'[i].val = Head(poll[r][o].todo).val /\ rows'[i].id = lastId + 1
    BY <1>2, InsertRows
  <2>3. Wrote(r, o)
    BY <2>2 DEF Wrote
  <2> QED
    BY <1>1, <2>1, <2>3
<1>3. CASE Update(r, o)
  <2>1. lastId' = lastId /\ poll[r][o].pc = "write" /\ poll[r][o].row # 0
    BY <1>3 DEF Update
  <2>2. \A j \in DOMAIN rows : rows[j].id = poll[r][o].row =>
            rows[j].olt = o /\ rows[j].onu = Head(poll[r][o].todo).onu
    BY <2>1 DEF AgeInv, PollTrue, Busy
  <2>3. Wrote(r, o)
    BY <1>3, <2>2, UpdateRows DEF Wrote, Same
  <2> QED
    BY <1>1, <2>1, <2>3
<1>4. CASE ~Insert(r, o) /\ ~Update(r, o)
  <2>1. UNCHANGED <<rows, lastId>>
    BY <1>4 DEF PollStep, Test, RecordStatus, WalkSerials, WalkStates, Find, table
  <2> QED
    BY <1>1, <2>1 DEF Wrote, Part
<1> QED
  BY <1>2, <1>3, <1>4

\* A poll stays true while another one writes.
LEMMA OtherTrue ==
    ASSUME TypeOK, HasTodo, AgeInv, BesideInv, NEW r \in Round, NEW o \in Olt, PollStep(r, o),
           NEW a \in Round, NEW c \in Olt, <<a, c>> # <<r, o>>,
           poll'[a][c] = poll[a][c], <<a, c>> \in beside => <<a, c>> \in beside',
           poll[r][o].pc # "idle"
    PROVE  PollTrue(a, c)'
<1> DEFINE p == poll[a][c]
<1>1. Wrote(r, o) /\ lastId' \in Nat /\ lastId <= lastId' /\ epoch' = epoch
  BY PollWrites
<1> SUFFICES ASSUME p.pc \in Busy PROVE PollTrue(a, c)'
  BY DEF PollTrue
<1>2. PollTrue(a, c) /\ p \in Poll /\ p.row \in Nat
  BY DEF AgeInv, TypeOK, Poll
<1>3. c = o => <<a, c>> \in beside'
  BY DEF BesideInv, Busy
<1>4. ASSUME <<a, c>> \notin beside', NEW n \in DOMAIN p.todo, NEW i \in DOMAIN rows',
             rows'[i].olt = c, rows'[i].onu = p.todo[n].onu, p.todo[n].val # Empty
      PROVE  rows'[i].val <= p.todo[n].val
  BY <1>1, <1>2, <1>3, <1>4 DEF PollTrue, Wrote
<1>5. ASSUME p.pc = "write", p.row # 0
      PROVE  /\ p.row <= lastId'
             /\ \A i \in DOMAIN rows' :
                   rows'[i].id = p.row => rows'[i].olt = c /\ rows'[i].onu = Head(p.todo).onu
  <2>1. p.row <= lastId /\ lastId \in Nat
    BY <1>2, <1>5 DEF PollTrue, TypeOK
  <2>2. p.row <= lastId' /\ p.row # lastId + 1
    BY <1>1, <1>2, <2>1
  <2>3. ASSUME NEW i \in DOMAIN rows', rows'[i].id = p.row
        PROVE  rows'[i].olt = c /\ rows'[i].onu = Head(p.todo).onu
    <3>1. \E j \in DOMAIN rows : Same(rows'[i], rows[j])
      BY <1>1, <2>2, <2>3 DEF Wrote, Same
    <3> QED
      BY <1>2, <1>5, <2>3, <3>1 DEF PollTrue, Same
  <2> QED
    BY <2>2, <2>3
<1> QED
  BY <1>1, <1>2, <1>4, <1>5 DEF PollTrue

\* The poll that makes a step stays true.
LEMMA OwnTrue ==
    ASSUME TypeOK, TypeOK', HasTodo, AgeInv, NEW r \in Round, NEW o \in Olt, PollStep(r, o),
           beside' = beside \/ poll'[r][o].pc = "idle"
    PROVE  PollTrue(r, o)'
<1> DEFINE p == poll[r][o]
           q == poll'[r][o]
<1>1. Wrote(r, o) /\ epoch' = epoch /\ lastId \in Nat
      /\ (p.pc # "write" => Part /\ lastId' = lastId)
  BY PollWrites, ValueNumbers
<1> SUFFICES ASSUME q.pc \in Busy PROVE PollTrue(r, o)'
  BY DEF PollTrue
<1>2. beside' = beside
  BY DEF Busy
<1>3. PollTrue(r, o) /\ RowsTrue
  BY DEF AgeInv
<1>4. \A n \in DOMAIN p.todo : p.todo[n].onu \in Onu /\ p.todo[n].val \in Value
  BY TodoTypes
<1>5. CASE q.pc = "states" /\ \A n \in DOMAIN q.todo : q.todo[n].val = Empty
  <2>1. \A n \in DOMAIN q.todo : q.todo[n].onu \in Onu
    <3>1. poll'[r][o].todo \in Seq(Found)
      BY DEF TypeOK, Poll
    <3>2. \A x \in Found : x.onu \in Onu
      BY DEF Found
    <3> QED
      BY <3>1, <3>2
  <2> QED
    BY <1>1, <1>5, <2>1, ValueNumbers DEF PollTrue
<1>6. CASE /\ p.pc = "states" /\ q.pc = "find" /\ DOMAIN q.todo = DOMAIN p.todo
           /\ \A n \in DOMAIN q.todo :
                 /\ q.todo[n].onu = p.todo[n].onu
                 /\ q.todo[n].val = Seen(p.address, p.todo[n].onu)
  <2>1. Part
    BY <1>1, <1>6
  <2>2. \A u \in Onu : Seen(p.address, u) <= epoch[u]
                       /\ (Seen(p.address, u) # Empty => Seen(p.address, u) = epoch[u])
    BY ValueNumbers DEF Seen
  <2>3. \A n \in DOMAIN q.todo : q.todo[n].val <= epoch[q.todo[n].onu]
    BY <1>4, <1>6, <2>2
  <2>4. \A m, n \in DOMAIN q.todo : q.todo[m].onu = q.todo[n].onu => q.todo[m].val = q.todo[n].val
    BY <1>6
  <2>5. ASSUME NEW n \in DOMAIN q.todo, NEW i \in DOMAIN rows', rows'[i].onu = q.todo[n].onu,
               q.todo[n].val # Empty
        PROVE  rows'[i].val <= q.todo[n].val
    BY <1>3, <1>4, <1>6, <2>1, <2>2, <2>5 DEF Part, RowsTrue
  <2> QED
    BY <1>1, <1>6, <2>3, <2>4, <2>5 DEF PollTrue
<1>7. CASE p.pc = "states" /\ q.pc = "find" /\ q.todo = p.todo
  BY <1>1, <1>2, <1>3, <1>7 DEF PollTrue, Part, Busy
<1>8. CASE /\ p.pc = "find" /\ q.pc = "write" /\ q.todo = p.todo
           /\ q.row # 0 => \E i \in Matches(o, Head(p.todo).onu) : q.row = rows[i].id
  <2>1. Part /\ lastId' = lastId
    BY <1>1, <1>8
  <2>2. ASSUME q.row # 0
        PROVE  /\ q.row <= lastId
               /\ \A i \in DOMAIN rows' :
                     rows'[i].id = q.row => rows'[i].olt = o /\ rows'[i].onu = Head(q.todo).onu
    <3>1. PICK i \in DOMAIN rows : /\ q.row = rows[i].id /\ rows[i].olt = o
                                   /\ rows[i].onu = Head(p.todo).onu
      BY <1>8, <2>2 DEF Matches
    <3>2. \A j \in DOMAIN rows : rows[j].id = q.row => j = i
      BY <3>1 DEF TypeOK
    <3>3. q.row <= lastId
      BY <3>1 DEF TypeOK
    <3> QED
      BY <1>8, <2>1, <3>1, <3>2, <3>3 DEF Part
  <2> QED
    BY <1>1, <1>2, <1>3, <1>8, <2>1, <2>2 DEF PollTrue, Part, Busy
<1>9. CASE p.pc = "write" /\ q.pc = "find" /\ q.todo = Tail(p.todo)
  <2>1. p.pc \in Busy
    BY <1>9 DEF Busy
  <2>2. /\ 1 \in DOMAIN p.todo /\ Head(p.todo) = p.todo[1]
        /\ \A n \in DOMAIN q.todo : n + 1 \in DOMAIN p.todo /\ q.todo[n] = p.todo[n + 1]
    BY <1>9, <2>1, TodoTypes
  <2>3. \A n \in DOMAIN q.todo : q.todo[n].val <= epoch[q.todo[n].onu]
    BY <1>3, <2>1, <2>2 DEF PollTrue
  <2>4. \A m, n \in DOMAIN q.todo : q.todo[m].onu = q.todo[n].onu => q.todo[m].val = q.todo[n].val
    BY <1>3, <2>1, <2>2 DEF PollTrue
  <2>5. ASSUME <<r, o>> \notin beside', NEW n \in DOMAIN q.todo, NEW i \in DOMAIN rows',
               rows'[i].olt = o, rows'[i].onu = q.todo[n].onu, q.todo[n].val # Empty
        PROVE  rows'[i].val <= q.todo[n].val
    <3>1. CASE \E j \in DOMAIN rows : rows'[i] = rows[j]
      BY <1>2, <1>3, <2>1, <2>2, <2>5, <3>1 DEF PollTrue
    <3>2. CASE rows'[i].onu = p.todo[1].onu /\ rows'[i].val = p.todo[1].val
      <4>1. rows'[i].val = q.todo[n].val
        <5>1. n + 1 \in DOMAIN p.todo /\ q.todo[n] = p.todo[n + 1] /\ 1 \in DOMAIN p.todo
          BY <2>2, <2>5
        <5>2. p.todo[1].onu = p.todo[n + 1].onu
          BY <2>5, <3>2, <5>1
        <5>3. \A l, m \in DOMAIN p.todo :
                  p.todo[l].onu = p.todo[m].onu => p.todo[l].val = p.todo[m].val
          BY <1>3, <2>1 DEF PollTrue
        <5> QED
          BY <3>2, <5>1, <5>2, <5>3
      <4>2. q.todo[n].val \in Int
        BY <1>4, <2>2, ValueNumbers
      <4> QED
        BY <4>1, <4>2
    <3> QED
      BY <1>1, <2>2, <3>1, <3>2 DEF Wrote
  <2> QED
    BY <1>1, <1>9, <2>3, <2>4, <2>5 DEF PollTrue
<1> QED
  BY <1>5, <1>6, <1>7, <1>8, <1>9, OwnTodo

LEMMA RowsRest ==
    ASSUME TypeOK, RowsTrue, Part, \A u \in Onu : epoch'[u] \in Nat /\ epoch[u] <= epoch'[u]
    PROVE  RowsTrue'
<1>1. \A i \in DOMAIN rows : rows[i].onu \in Onu /\ rows[i].val <= epoch'[rows[i].onu]
  BY RowTypes, ValueNumbers DEF RowsTrue
<1> QED
  BY <1>1 DEF RowsTrue, Part

LEMMA AgeStep ==
    ASSUME TypeOK, TypeOK', HasTodo, BesideInv, AgeInv, [Next]_vars
    PROVE  AgeInv'
<1>1. ASSUME Part, lastId' = lastId, UNCHANGED <<poll, beside>>,
             \A u \in Onu : epoch'[u] \in Nat /\ epoch[u] <= epoch'[u]
      PROVE  AgeInv'
  BY <1>1, RestTrue, RowsRest DEF AgeInv
<1>2. ASSUME UNCHANGED epoch
      PROVE  \A u \in Onu : epoch'[u] \in Nat /\ epoch[u] <= epoch'[u]
  BY <1>2, ValueNumbers
<1>3. ASSUME UNCHANGED rows
      PROVE  Part
  BY <1>3 DEF Part
<1>4. ASSUME NEW r \in Round, PollAll(r)
      PROVE  AgeInv'
  <2>1. /\ UNCHANGED <<rows, lastId, epoch>> /\ beside \subseteq beside'
        /\ \A a \in Round, o \in Olt : a # r => poll'[a][o] = poll[a][o]
        /\ \A o \in Olt : poll'[r][o] = IF Present(o)
                THEN [Idle EXCEPT !.pc = "test", !.address = olts[o].address] ELSE Idle
    BY <1>4 DEF PollAll, table, network, TypeOK
  <2>2. \A o \in Olt : poll'[r][o].pc \notin Busy
    <3>1. \A d : [Idle EXCEPT !.pc = "test", !.address = d].pc = "test"
      BY DEF Idle
    <3> QED
      BY <2>1, <3>1, IdleType DEF Busy
  <2>3. \A o \in Olt : PollTrue(r, o)'
    BY <2>2 DEF PollTrue
  <2>4. \A a \in Round, o \in Olt : a # r => PollTrue(a, o)'
    BY <1>2, <1>3, <2>1, RestTrue DEF AgeInv
  <2>5. RowsTrue'
    BY <1>2, <1>3, <2>1, RowsRest DEF AgeInv
  <2> QED
    BY <2>3, <2>4, <2>5 DEF AgeInv
<1>5. ASSUME NEW r \in Round, NEW o \in Olt, PollStep(r, o)
      PROVE  AgeInv'
  <2>1. PICK p \in Poll : Moved(r, o, p)
    BY <1>5, PollStepMoves
  <2>2. /\ poll'[r][o] = p /\ poll[r][o].pc # "idle"
        /\ \A a \in Round, c \in Olt : <<a, c>> # <<r, o>> => poll'[a][c] = poll[a][c]
    <3>1. poll' = [poll EXCEPT ![r][o] = p] /\ poll \in [Round -> [Olt -> Poll]]
      BY <2>1 DEF Moved, TypeOK
    <3> QED
      BY <2>1, <3>1 DEF Moved
  <2>3. /\ beside' = beside \/ poll'[r][o].pc = "idle"
        /\ \A a \in Round, c \in Olt :
              <<a, c>> # <<r, o>> /\ <<a, c>> \in beside => <<a, c>> \in beside'
    BY <2>1, <2>2 DEF Moved
  <2>4. PollTrue(r, o)'
    BY <1>5, <2>3, OwnTrue
  <2>5. ASSUME NEW a \in Round, NEW c \in Olt, <<a, c>> # <<r, o>>
        PROVE  PollTrue(a, c)'
    <3>1. poll'[a][c] = poll[a][c] /\ (<<a, c>> \in beside => <<a, c>> \in beside')
      BY <2>2, <2>3, <2>5
    <3>2. PollStep(r, o) /\ poll[r][o].pc # "idle"
      BY <1>5, <2>2
    <3> QED
      BY <2>5, <3>1, <3>2, OtherTrue, SMTT(60)
  <2>6. RowsTrue'
    <3>1. Wrote(r, o) /\ epoch' = epoch /\ (poll[r][o].pc # "write" => Part)
      BY <1>5, PollWrites
    <3>2. CASE poll[r][o].pc # "write"
      BY <1>2, <3>1, <3>2, RowsRest DEF AgeInv
    <3>3. CASE poll[r][o].pc = "write"
      <4>1. /\ 1 \in DOMAIN poll[r][o].todo
            /\ Head(poll[r][o].todo) = poll[r][o].todo[1]
        BY <3>3, TodoTypes DEF Busy
      <4>2. Head(poll[r][o].todo).val <= epoch[Head(poll[r][o].todo).onu]
        BY <3>3, <4>1 DEF AgeInv, PollTrue, Busy
      <4> QED
        BY <3>1, <4>2 DEF Wrote, RowsTrue, AgeInv
    <3> QED
      BY <3>2, <3>3
  <2> QED
    BY <2>4, <2>5, <2>6 DEF AgeInv
<1>6. CASE Operator
  <2>1. UNCHANGED <<poll, beside, epoch, lastId>>
    BY <1>6 DEF Operator, Add, UpdateOlt, DeleteOnus, FailDeleteOnus, DeleteOlt,
                FailDeleteOlt, table, network
  <2>2. Part
    BY <1>3, <1>6, DeleteRows
       DEF Operator, Add, UpdateOlt, FailDeleteOnus, DeleteOlt, FailDeleteOlt, table
  <2> QED
    BY <1>1, <1>2, <2>1, <2>2
<1>7. CASE Network \/ UNCHANGED vars
  <2>1. UNCHANGED <<rows, lastId, poll, beside>>
    BY <1>7 DEF Network, Move, ChangeState, Power, table, vars
  <2>2. UNCHANGED epoch \/ \E u \in Onu : epoch' = [epoch EXCEPT ![u] = @ + 1]
    BY <1>7 DEF Network, Move, ChangeState, Power, vars
  <2>3. \A u \in Onu : epoch'[u] \in Nat /\ epoch[u] <= epoch'[u]
    <3>1. CASE UNCHANGED epoch
      BY <1>2, <3>1
    <3>2. CASE \E u \in Onu : epoch' = [epoch EXCEPT ![u] = @ + 1]
      <4>1. PICK u \in Onu : epoch' = [epoch EXCEPT ![u] = @ + 1]
        BY <3>2
      <4>2. \A w \in Onu : epoch'[w] = IF w = u THEN epoch[w] + 1 ELSE epoch[w]
        BY <4>1 DEF TypeOK
      <4> QED
        BY <4>2, ValueNumbers
    <3> QED
      BY <2>2, <3>1, <3>2
  <2> QED
    BY <1>1, <1>3, <2>1, <2>3
<1>8. CASE Crash
  <2>1. \A a \in Round, c \in Olt : poll'[a][c].pc \notin Busy
    BY <1>8, IdleType DEF Crash, Busy
  <2>2. RowsTrue'
    BY <1>8 DEF Crash, table, network, AgeInv, RowsTrue
  <2> QED
    BY <2>1, <2>2 DEF AgeInv, PollTrue
<1> QED
  BY <1>4, <1>5, <1>6, <1>7, <1>8 DEF Next, Poller

LEMMA AgeIsInvariant == Spec => [](TypeOK /\ HasTodo /\ BesideInv /\ AgeInv)
<1>1. Init => BesideInv /\ AgeInv
  BY IdleType DEF Init, BesideInv, AgeInv, RowsTrue, PollTrue, Busy
<1>2. TypeOK /\ HasTodo /\ BesideInv /\ [Next]_vars => BesideInv'
  BY BesideStep
<1>3. TypeOK /\ TypeOK' /\ HasTodo /\ BesideInv /\ AgeInv /\ [Next]_vars => AgeInv'
  BY AgeStep
<1> QED
  BY <1>1, <1>2, <1>3, IsPolls, PTL DEF Spec

\* Polls of one OLT may overlap, so a row can go back to what an older walk has seen; a poll
\* that ran alone never writes anything older than what is there.
THEOREM RowsGoForwardAlone == Spec => RowsGoForward
<1> DEFINE A == \A i \in DOMAIN rows, j \in DOMAIN rows' :
                  (rows[i].id = rows'[j].id /\ rows'[j].val # Empty /\ rows'[j].val < rows[i].val)
                      => Ran(rows[i].olt)
<1>1. TypeOK /\ HasTodo /\ AgeInv /\ [Next]_vars => [A]_vars
  <2> SUFFICES ASSUME TypeOK, HasTodo, AgeInv, [Next]_vars,
                      NEW i \in DOMAIN rows, NEW j \in DOMAIN rows', rows[i].id = rows'[j].id,
                      rows'[j].val # Empty, rows'[j].val < rows[i].val
               PROVE  Ran(rows[i].olt)
    OBVIOUS
  <2>1. rows[i].id \in Nat /\ rows[i].id <= lastId /\ lastId \in Nat /\ rows[i].val \in Int
    BY RowTypes, ValueNumbers DEF TypeOK
  <2>2. ASSUME NEW k \in DOMAIN rows, rows'[j] = rows[k]
        PROVE  FALSE
    <3>1. k = i
      BY <2>2 DEF TypeOK
    <3> QED
      BY <2>1, <2>2, <3>1
  <2>3. ~Part
    BY <2>2 DEF Part
  <2>4. PICK r \in Round, o \in Olt : PollStep(r, o)
    <3>1. (\E r \in Round : PollAll(r)) \/ Network \/ Crash \/ UNCHANGED vars => UNCHANGED rows
      BY DEF PollAll, Network, Move, ChangeState, Power, Crash, table, vars
    <3>2. Operator => Part
      BY DeleteRows DEF Operator, Add, UpdateOlt, FailDeleteOnus, DeleteOlt, FailDeleteOlt,
                        table, Part
    <3>3. UNCHANGED rows => Part
      BY DEF Part
    <3> QED
      BY <2>3, <3>1, <3>2, <3>3 DEF Next, Poller
  <2>5. Update(r, o)
    <3>1. Insert(r, o) => FALSE
      BY <2>1, <2>2, InsertRows
    <3>2. ~Insert(r, o) /\ ~Update(r, o) => UNCHANGED rows
      BY <2>4 DEF PollStep, Test, RecordStatus, WalkSerials, WalkStates, Find, table
    <3> QED
      BY <2>3, <3>1, <3>2 DEF Part
  <2>6. rows[i].id = poll[r][o].row /\ rows'[j].val = Head(poll[r][o].todo).val
    <3>1. PICK k \in DOMAIN rows : /\ Same(rows'[j], rows[k]) /\ rows[k].id = poll[r][o].row
                                   /\ rows'[j].val = Head(poll[r][o].todo).val
      BY <2>2, <2>5, UpdateRows
    <3> QED
      BY <3>1 DEF Same
  <2>7. poll[r][o].pc = "write" /\ poll[r][o].row # 0 /\ poll[r][o].pc \in Busy
    BY <2>5 DEF Update, Busy
  <2>8. rows[i].olt = o /\ rows[i].onu = Head(poll[r][o].todo).onu
    BY <2>6, <2>7 DEF AgeInv, PollTrue
  <2>9. /\ 1 \in DOMAIN poll[r][o].todo /\ Head(poll[r][o].todo) = poll[r][o].todo[1]
        /\ poll[r][o].todo[1].val \in Int
    BY <2>7, TodoTypes, ValueNumbers
  <2>10. <<r, o>> \notin beside => rows[i].val <= rows'[j].val
    BY <2>6, <2>7, <2>8, <2>9 DEF AgeInv, PollTrue
  <2>11. <<r, o>> \in beside
    BY <2>1, <2>6, <2>9, <2>10
  <2> QED
    BY <2>8, <2>11 DEF Ran
<1> QED
  BY <1>1, AgeIsInvariant, PTL DEF Spec, RowsGoForward

-----------------------------------------------------------------------------
(* The table.                                                              *)

Items(s) == {s[n] : n \in DOMAIN s}

\* A walk gives every ONU once, and a poll that is not between a walk and its last row has
\* nothing found.
TodoInv ==
    \A r \in Round, o \in Olt :
        /\ poll[r][o].pc \notin Busy => poll[r][o].todo = <<>>
        /\ \A m, n \in DOMAIN poll[r][o].todo :
              poll[r][o].todo[m].onu = poll[r][o].todo[n].onu => m = n

\* What is left when the first is taken off.
LEMMA TailItems ==
    ASSUME NEW s \in Seq(Found), s # <<>>, \A m, n \in DOMAIN s : s[m].onu = s[n].onu => m = n
    PROVE  /\ Items(Tail(s)) = Items(s) \ {Head(s)} /\ Head(s) \in Items(s)
           /\ Len(s) = 1 => Items(s) \ {Head(s)} = {}
           /\ \A m, n \in DOMAIN Tail(s) : Tail(s)[m].onu = Tail(s)[n].onu => m = n
<1>1. /\ Len(s) \in Nat \ {0} /\ DOMAIN s = 1..Len(s) /\ Head(s) = s[1] /\ 1 \in DOMAIN s
      /\ DOMAIN Tail(s) = 1..Len(s) - 1 /\ \A n \in DOMAIN Tail(s) : Tail(s)[n] = s[n + 1]
  OBVIOUS
<1>2. ASSUME NEW x \in Items(Tail(s)) PROVE x \in Items(s) \ {Head(s)}
  <2>1. PICK n \in DOMAIN Tail(s) : x = Tail(s)[n]
    BY DEF Items
  <2>2. n + 1 \in DOMAIN s /\ x = s[n + 1] /\ n + 1 # 1
    BY <1>1, <2>1
  <2>3. x # s[1]
    BY <1>1, <2>2
  <2> QED
    BY <1>1, <2>2, <2>3 DEF Items
<1>3. ASSUME NEW x \in Items(s) \ {Head(s)}
      PROVE  x \in Items(Tail(s)) /\ Len(s) # 1
  <2>1. PICK n \in DOMAIN s : x = s[n]
    BY DEF Items
  <2>2. n # 1
    BY <1>1, <1>3, <2>1
  <2>3. n - 1 \in DOMAIN Tail(s) /\ (n - 1) + 1 = n /\ Len(s) # 1
    BY <1>1, <2>1, <2>2
  <2>4. Tail(s)[n - 1] = s[(n - 1) + 1]
    BY <1>1, <2>3
  <2>5. Tail(s)[n - 1] = x
    BY <2>1, <2>3, <2>4
  <2> QED
    BY <2>3, <2>5 DEF Items
<1>4. \A m, n \in DOMAIN Tail(s) : Tail(s)[m].onu = Tail(s)[n].onu => m = n
  <2>1. \A n \in DOMAIN Tail(s) : n + 1 \in DOMAIN s /\ n \in Nat
    BY <1>1
  <2>2. ASSUME NEW m \in DOMAIN Tail(s), NEW n \in DOMAIN Tail(s), Tail(s)[m].onu = Tail(s)[n].onu
        PROVE  m = n
    <3>1. m + 1 = n + 1
      BY <1>1, <2>1, <2>2
    <3> QED
      BY <2>1, <3>1
  <2> QED
    BY <2>2
<1> QED
  BY <1>1, <1>2, <1>3, <1>4 DEF Items

\* A step of a poll that leaves what it has found alone.
Rests(r, o) ==
    /\ ~Insert(r, o) /\ ~Update(r, o)
    /\ poll'[r][o].todo = poll[r][o].todo

\* The walk over the serial numbers.
Lists(r, o) ==
    /\ ~Insert(r, o) /\ ~Update(r, o)
    /\ Items(poll[r][o].todo) = {}
    /\ \E onus \in (SUBSET Onu) \ {{}} :
          Items(poll'[r][o].todo) = {[onu |-> u, val |-> Empty] : u \in onus}

\* The walks over the other columns.
Looks(r, o) ==
    /\ ~Insert(r, o) /\ ~Update(r, o)
    /\ LET seen == {u \in {f.onu : f \in Items(poll[r][o].todo)} : where[u] = poll[r][o].address}
       IN  Items(poll'[r][o].todo) =
              {[onu |-> f.onu, val |-> IF f.onu \in seen THEN epoch[f.onu] ELSE Empty]
                  : f \in Items(poll[r][o].todo)}

\* A row is written.
Writes(r, o) ==
    /\ Insert(r, o) \/ Update(r, o)
    /\ Head(poll[r][o].todo) \in Items(poll[r][o].todo)
    /\ Items(poll'[r][o].todo) = Items(poll[r][o].todo) \ {Head(poll[r][o].todo)}

\* The list of the poll of a step: it says every ONU once, and is gone when the poll has ended.
ListOK(p) ==
    /\ p.pc \notin Busy => p.todo = <<>>
    /\ \A m, n \in DOMAIN p.todo : p.todo[m].onu = p.todo[n].onu => m = n

LEMMA SerialsList ==
    ASSUME TypeOK, HasTodo, TodoInv, NEW r \in Round, NEW o \in Olt, WalkSerials(r, o)
    PROVE  (Rests(r, o) \/ Lists(r, o)) /\ ListOK(poll'[r][o])
<1> DEFINE d == poll[r][o].address
<1>1. /\ poll[r][o].pc = "serials" /\ poll[r][o].todo = <<>> /\ poll[r][o] \in Poll
      /\ ~Insert(r, o) /\ ~Update(r, o)
  BY FoundTypes DEF WalkSerials, TodoInv, Busy, Insert, Update
<1>2. CASE Finish(r, o)
  <2>1. poll'[r][o] = Idle
    BY <1>2 DEF Finish, TypeOK
  <2> QED
    BY <1>1, <2>1 DEF Idle, Rests, ListOK
<1>3. CASE ~Finish(r, o)
  <2>1. /\ Attached(d) # {}
        /\ \E order \in [1..Cardinality(Attached(d)) -> Attached(d)] :
              /\ \A m, n \in DOMAIN order : order[m] = order[n] => m = n
              /\ poll' = [poll EXCEPT ![r][o].pc = "states",
                              ![r][o].todo = [n \in DOMAIN order |->
                                  [onu |-> order[n], val |-> Empty]]]
    BY <1>3 DEF WalkSerials
  <2>2. PICK order \in [1..Cardinality(Attached(d)) -> Attached(d)] :
              /\ \A m, n \in DOMAIN order : order[m] = order[n] => m = n
              /\ poll' = [poll EXCEPT ![r][o].pc = "states",
                              ![r][o].todo = [n \in DOMAIN order |->
                                  [onu |-> order[n], val |-> Empty]]]
    BY <2>1
  <2>3. Attached(d) \subseteq Onu /\ Cardinality(Attached(d)) \in Nat \ {0}
    <3>1. Attached(d) \subseteq Onu
      BY DEF Attached
    <3>2. IsFiniteSet(Attached(d))
      BY <3>1, ConstantsAssumption, FS_Subset
    <3> QED
      BY <2>1, <3>1, <3>2, FS_CardinalityType, FS_EmptySet
  <2> DEFINE q == [n \in DOMAIN order |-> [onu |-> order[n], val |-> Empty]]
             onus == {order[n] : n \in DOMAIN order}
  <2>4. /\ DOMAIN order # {} /\ \A n \in DOMAIN order : order[n] \in Onu
    BY <2>2, <2>3
  <2>5. onus \in (SUBSET Onu) \ {{}}
    <3>1. \E n \in DOMAIN order : order[n] \in onus
      BY <2>4
    <3>2. onus \subseteq Onu
      BY <2>4
    <3> HIDE DEF onus
    <3>3. onus # {}
      BY <3>1
    <3> QED
      BY <3>2, <3>3, Zenon
  <2>6. poll' = [poll EXCEPT ![r][o].pc = "states", ![r][o].todo = q]
    BY <2>2
  <2>7. DOMAIN q = DOMAIN order /\ \A n \in DOMAIN order : q[n] = [onu |-> order[n], val |-> Empty]
    OBVIOUS
  <2> HIDE DEF q
  <2>8. poll'[r][o].pc = "states" /\ poll'[r][o].todo = q
    BY <1>1, <2>6 DEF Poll, TypeOK
  <2>9. Items(q) = {[onu |-> u, val |-> Empty] : u \in onus}
    BY <2>7 DEF Items
  <2>10. \A m, n \in DOMAIN q : q[m].onu = q[n].onu => m = n
    BY <2>2, <2>7
  <2>11. Items(poll[r][o].todo) = {}
    BY <1>1 DEF Items
  <2> HIDE DEF onus
  <2> QED
    BY <1>1, <2>5, <2>8, <2>9, <2>10, <2>11 DEF Lists, ListOK, Busy
<1> QED
  BY <1>2, <1>3

LEMMA StatesLook ==
    ASSUME TypeOK, HasTodo, TodoInv, NEW r \in Round, NEW o \in Olt, WalkStates(r, o)
    PROVE  (Rests(r, o) \/ Looks(r, o)) /\ ListOK(poll'[r][o])
<1> DEFINE d == poll[r][o].address
           todo == poll[r][o].todo
           q == [n \in DOMAIN todo |-> [todo[n] EXCEPT !.val = Seen(d, todo[n].onu)]]
           seen == {u \in {f.onu : f \in Items(todo)} : where[u] = d}
<1>1. /\ poll[r][o].pc = "states" /\ poll[r][o] \in Poll
      /\ \A n \in DOMAIN todo : todo[n] \in Found
      /\ \A m, n \in DOMAIN todo : todo[m].onu = todo[n].onu => m = n
      /\ ~Insert(r, o) /\ ~Update(r, o)
  <2>1. poll[r][o] \in Poll /\ todo \in Seq(Found)
    BY FoundTypes
  <2>2. \A n \in DOMAIN todo : todo[n] \in Found
    <3> HIDE DEF todo
    <3> QED
      BY <2>1
  <2>3. poll[r][o].pc = "states" /\ ~Insert(r, o) /\ ~Update(r, o)
    BY DEF WalkStates, Insert, Update
  <2>4. \A m, n \in DOMAIN todo : todo[m].onu = todo[n].onu => m = n
    BY DEF TodoInv
  <2> QED
    BY <2>1, <2>2, <2>3, <2>4
<1>2. CASE Goto(r, o, "find")
  <2>1. poll'[r][o].pc = "find" /\ poll'[r][o].todo = todo
    BY <1>1, <1>2 DEF Goto, Poll, TypeOK
  <2> QED
    BY <1>1, <2>1 DEF Rests, ListOK, Busy
<1>3. CASE ~Goto(r, o, "find")
  <2>1. poll' = [poll EXCEPT ![r][o].pc = "find", ![r][o].todo = q]
    BY <1>3 DEF WalkStates
  <2>2. DOMAIN q = DOMAIN todo
    OBVIOUS
  <2>3. \A n \in DOMAIN todo : q[n] = [onu |-> todo[n].onu, val |-> Seen(d, todo[n].onu)]
    <3> HIDE DEF todo, d
    <3> QED
      BY <1>1 DEF Found
  <2> HIDE DEF q
  <2>4. poll'[r][o].pc = "find" /\ poll'[r][o].todo = q
    BY <1>1, <2>1 DEF Poll, TypeOK
  <2> HIDE DEF todo, d
  <2>5. \A n \in DOMAIN todo : todo[n].onu \in {f.onu : f \in Items(todo)}
    BY DEF Items
  <2>6. \A n \in DOMAIN todo :
            q[n] = [onu |-> todo[n].onu, val |-> IF todo[n].onu \in seen THEN epoch[todo[n].onu] ELSE Empty]
    BY <2>3, <2>5 DEF Seen
  <2>7. \A m, n \in DOMAIN q : q[m].onu = q[n].onu => m = n
    BY <1>1, <2>2, <2>3
  <2> HIDE DEF seen
  <2>8. Items(q) = {[onu |-> f.onu, val |-> IF f.onu \in seen THEN epoch[f.onu] ELSE Empty]
                      : f \in Items(todo)}
    BY <2>2, <2>6 DEF Items
  <2> QED
    BY <1>1, <2>4, <2>7, <2>8 DEF Looks, ListOK, Busy, todo, d, seen
<1> QED
  BY <1>2, <1>3

LEMMA NextOnuWrites ==
    ASSUME TypeOK, HasTodo, TodoInv, NEW r \in Round, NEW o \in Olt, Insert(r, o) \/ Update(r, o)
    PROVE  Writes(r, o) /\ ListOK(poll'[r][o])
<1> DEFINE todo == poll[r][o].todo
<1>1. poll[r][o].pc \in Busy /\ NextOnu(r, o) /\ poll[r][o] \in Poll
  BY FoundTypes DEF Insert, Update, Busy
<1>2. /\ todo \in Seq(Found) /\ todo # <<>>
      /\ \A m, n \in DOMAIN todo : todo[m].onu = todo[n].onu => m = n
  BY <1>1, FoundTypes DEF TodoInv
<1> HIDE DEF todo
<1>3. /\ Items(Tail(todo)) = Items(todo) \ {Head(todo)} /\ Head(todo) \in Items(todo)
      /\ Len(todo) = 1 => Items(todo) \ {Head(todo)} = {}
      /\ \A m, n \in DOMAIN Tail(todo) : Tail(todo)[m].onu = Tail(todo)[n].onu => m = n
  BY <1>2, TailItems
<1>4. CASE Len(todo) = 1
  <2>1. poll'[r][o] = Idle
    BY <1>1, <1>4 DEF NextOnu, Finish, TypeOK, todo
  <2>2. poll'[r][o].todo = <<>> /\ Items(<<>>) = {}
    BY <2>1 DEF Idle, Items
  <2> QED
    BY <1>3, <1>4, <2>2 DEF Writes, ListOK, todo
<1>5. CASE Len(todo) # 1
  <2>1. poll' = [poll EXCEPT ![r][o].pc = "find", ![r][o].row = 0, ![r][o].todo = Tail(@)]
    BY <1>1, <1>5 DEF NextOnu, todo
  <2>2. poll'[r][o].pc = "find" /\ poll'[r][o].todo = Tail(todo)
    BY <1>1, <2>1 DEF Poll, TypeOK, todo
  <2> QED
    BY <1>3, <2>2 DEF Writes, ListOK, Busy, todo
<1> QED
  BY <1>4, <1>5

\* What a step of a poll is for the table.
LEMMA PollStepItems ==
    ASSUME TypeOK, HasTodo, TodoInv, NEW r \in Round, NEW o \in Olt, PollStep(r, o)
    PROVE  /\ Rests(r, o) \/ Lists(r, o) \/ Looks(r, o) \/ Writes(r, o)
           /\ ListOK(poll'[r][o])
<1>1. /\ poll[r][o] \in Poll /\ poll \in [Round -> [Olt -> Poll]]
      /\ ListOK(poll[r][o])
  BY DEF TypeOK, TodoInv, ListOK
<1>2. ASSUME NEW pc, Goto(r, o, pc)
      PROVE  poll'[r][o].pc = pc /\ poll'[r][o].todo = poll[r][o].todo
  BY <1>1, <1>2 DEF Goto, Poll
<1>3. ASSUME poll[r][o].pc \notin Busy, Insert(r, o) \/ Update(r, o)
      PROVE  FALSE
  BY <1>3 DEF Insert, Update, Busy
<1>4. CASE Test(r, o)
  <2>1. poll[r][o].pc \notin Busy /\ (Goto(r, o, "online") \/ Goto(r, o, "offline"))
    BY <1>4 DEF Test, Busy
  <2> QED
    BY <1>1, <1>2, <1>3, <2>1 DEF Rests, ListOK, Busy
<1>5. CASE RecordStatus(r, o)
  <2>1. poll[r][o].pc \notin Busy /\ (Goto(r, o, "serials") \/ Finish(r, o))
    BY <1>5 DEF RecordStatus, Busy
  <2>2. CASE Goto(r, o, "serials")
    BY <1>1, <1>2, <1>3, <2>1, <2>2 DEF Rests, ListOK, Busy
  <2>3. CASE Finish(r, o)
    <3>1. poll'[r][o] = Idle
      BY <1>1, <2>3 DEF Finish
    <3>2. poll[r][o].todo = <<>> /\ poll'[r][o].todo = <<>>
      BY <2>1, <3>1 DEF TodoInv, Idle
    <3> QED
      BY <1>3, <2>1, <3>2 DEF Rests, ListOK
  <2> QED
    BY <2>1, <2>2, <2>3
<1>6. CASE Find(r, o)
  <2>1. ASSUME NEW k, poll' = [poll EXCEPT ![r][o].pc = "write", ![r][o].row = k]
        PROVE  poll'[r][o].pc = "write" /\ poll'[r][o].todo = poll[r][o].todo
    BY <1>1, <2>1 DEF Poll
  <2>2. poll'[r][o].pc = "write" /\ poll'[r][o].todo = poll[r][o].todo
    <3>1. CASE Matches(o, Head(poll[r][o].todo).onu) = {}
      BY <1>6, <2>1, <3>1 DEF Find
    <3>2. CASE Matches(o, Head(poll[r][o].todo).onu) # {}
      <4>1. PICK i \in Matches(o, Head(poll[r][o].todo).onu) :
                poll' = [poll EXCEPT ![r][o].pc = "write", ![r][o].row = rows[i].id]
        BY <1>6, <3>2 DEF Find
      <4> QED
        BY <2>1, <4>1
    <3> QED
      BY <3>1, <3>2
  <2>3. ~Insert(r, o) /\ ~Update(r, o)
    BY <1>6 DEF Find, Insert, Update
  <2> QED
    BY <1>1, <2>2, <2>3 DEF Rests, ListOK, Busy
<1> QED
  BY <1>4, <1>5, <1>6, SerialsList, StatesLook, NextOnuWrites DEF PollStep

LEMMA TodoStep ==
    ASSUME TypeOK, HasTodo, TodoInv, [Next]_vars
    PROVE  TodoInv'
<1>1. ASSUME UNCHANGED poll PROVE TodoInv'
  BY <1>1 DEF TodoInv
<1>2. TodoInv' <=> \A r \in Round, o \in Olt : ListOK(poll'[r][o])
  BY DEF TodoInv, ListOK
<1>3. \A r \in Round, o \in Olt : ListOK(poll[r][o])
  BY DEF TodoInv, ListOK
<1>4. ListOK(Idle)
  BY DEF ListOK, Idle
<1>5. ASSUME NEW r \in Round, PollAll(r) PROVE TodoInv'
  <2>1. \A a \in Round, o \in Olt :
            \/ poll'[a][o] = poll[a][o]
            \/ poll'[a][o] = Idle
            \/ poll'[a][o] = [Idle EXCEPT !.pc = "test", !.address = olts[o].address]
    BY <1>5 DEF PollAll, TypeOK
  <2>2. ASSUME NEW a \in Round, NEW o \in Olt PROVE ListOK(poll'[a][o])
    <3>1. CASE poll'[a][o] = poll[a][o]
      BY <1>3, <3>1
    <3>2. CASE poll'[a][o] = Idle
      BY <1>4, <3>2
    <3>3. CASE poll'[a][o] = [Idle EXCEPT !.pc = "test", !.address = olts[o].address]
      <4>1. ListOK([Idle EXCEPT !.pc = "test", !.address = olts[o].address])
        BY DEF ListOK, Idle
      <4> QED
        BY <3>3, <4>1
    <3> QED
      BY <2>1, <3>1, <3>2, <3>3
  <2> QED
    BY <1>2, <2>2
<1>6. ASSUME NEW r \in Round, NEW o \in Olt, PollStep(r, o) PROVE TodoInv'
  <2>1. PICK p \in Poll : Moved(r, o, p)
    BY <1>6, PollStepMoves
  <2>2. \A a \in Round, c \in Olt : <<a, c>> # <<r, o>> => poll'[a][c] = poll[a][c]
    BY <2>1 DEF Moved, TypeOK
  <2>3. ListOK(poll'[r][o])
    BY <1>6, PollStepItems
  <2> QED
    BY <1>2, <1>3, <2>2, <2>3
<1>7. CASE Operator \/ Network \/ UNCHANGED vars
  BY <1>1, <1>7 DEF Operator, Add, UpdateOlt, DeleteOnus, FailDeleteOnus, DeleteOlt, FailDeleteOlt,
                    Network, Move, ChangeState, Power, vars
<1>8. CASE Crash
  BY <1>2, <1>4, <1>8 DEF Crash
<1> QED
  BY <1>5, <1>6, <1>7, <1>8 DEF Next, Poller

\* The rows as a set.
LEMMA InsertItems ==
    ASSUME TypeOK, HasTodo, NEW r \in Round, NEW o \in Olt, Insert(r, o)
    PROVE  LET f == Head(poll[r][o].todo)
               x == [id |-> lastId + 1, olt |-> o, onu |-> f.onu, val |-> f.val]
           IN  /\ Items(rows') = Items(rows) \cup {x}
               /\ \A y \in Items(rows) : y.id < x.id
<1> DEFINE f == Head(poll[r][o].todo)
           x == [id |-> lastId + 1, olt |-> o, onu |-> f.onu, val |-> f.val]
<1>1. rows' = Append(rows, x) /\ rows \in Seq(Row) /\ lastId \in Nat
  BY DEF Insert, TypeOK
<1>2. \A i \in DOMAIN rows : rows[i].id \in Nat /\ rows[i].id <= lastId
  BY RowTypes DEF TypeOK
<1>3. x.id = lastId + 1
  OBVIOUS
<1>4. \A y \in Items(rows) : y.id < x.id
  BY <1>1, <1>2, <1>3 DEF Items
<1> HIDE DEF x
<1>5. /\ DOMAIN rows = 1..Len(rows) /\ Len(rows) \in Nat
      /\ DOMAIN rows' = 1..Len(rows) + 1
      /\ \A i \in DOMAIN rows : rows'[i] = rows[i]
      /\ rows'[Len(rows) + 1] = x
  BY <1>1
<1>6. Items(rows') = Items(rows) \cup {x}
  BY <1>5 DEF Items
<1> QED
  BY <1>4, <1>6 DEF x

LEMMA UpdateItems ==
    ASSUME TypeOK, HasTodo, NEW r \in Round, NEW o \in Olt, Update(r, o)
    PROVE  \/ rows' = rows
           \/ \E x \in Items(rows) :
                 /\ x.id = poll[r][o].row
                 /\ Items(rows') = (Items(rows) \ {x}) \cup
                                      {[x EXCEPT !.val = Head(poll[r][o].todo).val]}
<1> SUFFICES ASSUME rows' # rows
             PROVE  \E x \in Items(rows) :
                       /\ x.id = poll[r][o].row
                       /\ Items(rows') = (Items(rows) \ {x}) \cup
                                            {[x EXCEPT !.val = Head(poll[r][o].todo).val]}
  OBVIOUS
<1> DEFINE v == Head(poll[r][o].todo).val
<1>1. PICK k \in DOMAIN rows : /\ rows[k].id = poll[r][o].row
                                /\ rows' = Touched(k, [rows[k] EXCEPT !.val = v])
  BY DEF Update
<1> DEFINE y == [rows[k] EXCEPT !.val = v]
           q == Without(k)
<1>2. /\ Len(rows) \in Nat /\ DOMAIN rows = 1..Len(rows) /\ k \in 1..Len(rows)
      /\ \A i \in DOMAIN rows : rows[i] \in Row
      /\ \A i, j \in DOMAIN rows : rows[i].id = rows[j].id => i = j
  BY RowTypes DEF TypeOK
<1>3. /\ DOMAIN q = 1..Len(rows) - 1 /\ Len(rows) - 1 \in Nat
      /\ \A j \in DOMAIN q : q[j] = IF j < k THEN rows[j] ELSE rows[j + 1]
  BY <1>2 DEF Without
<1>4. q \in Seq(Row) /\ Len(q) = Len(rows) - 1
  <2>1. q \in [1..Len(rows) - 1 -> Row]
    BY <1>2, <1>3 DEF Without
  <2> QED
    BY <1>3, <2>1
<1> HIDE DEF q
<1>5. Items(q) = Items(rows) \ {rows[k]}
  <2>1. ASSUME NEW z \in Items(q) PROVE z \in Items(rows) \ {rows[k]}
    <3>1. PICK j \in DOMAIN q : z = q[j]
      BY DEF Items
    <3>2. \E i \in DOMAIN rows : i # k /\ z = rows[i]
      <4>1. CASE j < k
        BY <1>2, <1>3, <3>1, <4>1
      <4>2. CASE ~(j < k)
        <5>1. j + 1 \in DOMAIN rows /\ j + 1 # k /\ z = rows[j + 1]
          BY <1>2, <1>3, <3>1, <4>2
        <5> QED
          BY <5>1
      <4> QED
        BY <4>1, <4>2
    <3> QED
      BY <1>2, <3>2 DEF Items
  <2>2. ASSUME NEW z \in Items(rows) \ {rows[k]} PROVE z \in Items(q)
    <3>1. PICK i \in DOMAIN rows : z = rows[i] /\ i # k
      BY DEF Items
    <3>2. CASE i < k
      BY <1>2, <1>3, <3>1, <3>2 DEF Items
    <3>3. CASE ~(i < k)
      <4>1. i - 1 \in DOMAIN q /\ ~(i - 1 < k) /\ (i - 1) + 1 = i
        BY <1>2, <1>3, <3>1, <3>3
      <4>2. q[i - 1] = z
        BY <1>3, <3>1, <4>1
      <4> QED
        BY <4>1, <4>2 DEF Items
    <3> QED
      BY <3>2, <3>3
  <2> QED
    BY <2>1, <2>2
<1>6. rows' = Append(q, y)
  BY <1>1 DEF Touched, q
<1> HIDE DEF y
<1>7. /\ DOMAIN rows' = 1..Len(q) + 1 /\ DOMAIN q = 1..Len(q) /\ Len(q) \in Nat
      /\ \A j \in DOMAIN q : rows'[j] = q[j]
      /\ rows'[Len(q) + 1] = y
  BY <1>4, <1>6
<1>8. Items(rows') = Items(q) \cup {y}
  BY <1>7 DEF Items
<1>9. rows[k] \in Items(rows)
  BY DEF Items
<1> QED
  BY <1>1, <1>5, <1>8, <1>9 DEF y

LEMMA DeleteItems ==
    ASSUME TypeOK, NEW o \in Olt, DeleteOnus(o)
    PROVE  Items(rows') = {x \in Items(rows) : x.olt # o}
<1> DEFINE rest == DOMAIN rows \ OfOlt(o)
           K == 1..Cardinality(rest)
<1>1. PICK kept \in [K -> rest] :
          /\ \A m, n \in DOMAIN kept : m < n => kept[m] < kept[n]
          /\ rows' = [n \in DOMAIN kept |-> rows[kept[n]]]
  BY DEF DeleteOnus
<1>2. Len(rows) \in Nat /\ DOMAIN rows = 1..Len(rows)
      /\ rest = {i \in DOMAIN rows : rows[i].olt # o}
  BY RowTypes DEF OfOlt
<1>3. IsFiniteSet(rest) /\ Cardinality(rest) \in Nat
  <2>1. IsFiniteSet(DOMAIN rows) /\ rest \subseteq DOMAIN rows
    BY <1>2, FS_Interval
  <2> QED
    BY <2>1, FS_Subset, FS_CardinalityType
<1>4. DOMAIN kept = K /\ \A n \in K : kept[n] \in rest /\ kept[n] \in Nat
  <2>1. DOMAIN kept = K /\ \A n \in K : kept[n] \in rest
    BY <1>1
  <2>2. \A i \in rest : i \in Nat
    BY <1>2
  <2> QED
    BY <2>1, <2>2
<1> HIDE DEF rest
<1>5. \A m, n \in K : m # n => kept[m] # kept[n]
  <2> SUFFICES ASSUME NEW m \in K, NEW n \in K, m # n PROVE kept[m] # kept[n]
    OBVIOUS
  <2>1. m < n \/ n < m
    BY <1>3
  <2> QED
    BY <1>1, <1>4, <2>1
<1>6. kept \in Surjection(K, rest)
  <2>1. kept \in Injection(K, rest)
    BY <1>5 DEF Injection, IsInjective
  <2>2. Cardinality(K) = Cardinality(rest)
    BY <1>3, FS_Interval
  <2> QED
    BY <1>3, <2>1, <2>2, FS_Injection
<1>7. \A i \in rest : \E n \in K : kept[n] = i
  BY <1>6 DEF Surjection
<1>8. DOMAIN rows' = K /\ \A n \in K : rows'[n] = rows[kept[n]]
  BY <1>1, <1>4
<1> HIDE DEF K
<1>9. Items(rows') = {rows[i] : i \in rest}
  BY <1>4, <1>7, <1>8 DEF Items
<1> QED
  BY <1>2, <1>9 DEF Items

\* What T takes for found.
Finds == [r \in Round |-> [o \in Olt |-> Items(poll[r][o].todo)]]

LEMMA FindsStep ==
    ASSUME TypeOK, HasTodo, NEW r \in Round, NEW o \in Olt, PollStep(r, o)
    PROVE  Finds' = [Finds EXCEPT ![r][o] = Items(poll'[r][o].todo)]
<1>1. PICK p \in Poll : Moved(r, o, p)
  BY PollStepMoves
<1>2. \A a \in Round, c \in Olt : <<a, c>> # <<r, o>> => poll'[a][c] = poll[a][c]
  BY <1>1 DEF Moved, TypeOK
<1>3. poll \in [Round -> [Olt -> Poll]] /\ poll' \in [Round -> [Olt -> Poll]]
  BY <1>1 DEF Moved, TypeOK
<1>4. \A q \in Poll : Items(q.todo) \in SUBSET Found
  <2> SUFFICES ASSUME NEW q \in Poll PROVE Items(q.todo) \in SUBSET Found
    OBVIOUS
  <2>1. q.todo \in Seq(Found)
    BY DEF Poll
  <2> QED
    BY <2>1 DEF Items
<1>5. Finds \in [Round -> [Olt -> SUBSET Found]] /\ Finds' \in [Round -> [Olt -> SUBSET Found]]
  BY <1>3, <1>4 DEF Finds, Items
<1>6. \A a \in Round, c \in Olt : /\ Finds[a][c] = Items(poll[a][c].todo)
                                  /\ Finds'[a][c] = Items(poll'[a][c].todo)
  BY DEF Finds, Items
<1> DEFINE F == Finds
           G == Finds'
           new == Items(poll'[r][o].todo)
<1>7. /\ \A a \in Round, c \in Olt : <<a, c>> # <<r, o>> => G[a][c] = F[a][c]
      /\ G[r][o] = new
      /\ F \in [Round -> [Olt -> SUBSET Found]] /\ G \in [Round -> [Olt -> SUBSET Found]]
  BY <1>2, <1>5, <1>6
<1> HIDE DEF F, G, new
<1>8. G = [F EXCEPT ![r][o] = new]
  BY <1>7
<1> QED
  BY <1>8 DEF F, G, new

\* The steps of OnuTable in the terms of this module.
LEMMA ToStutter ==
    ASSUME UNCHANGED <<epoch, Finds, Items(rows)>>
    PROVE  [T!Next]_(T!vars)
BY DEF T!vars, Finds, Items

LEMMA ToList ==
    ASSUME NEW r \in Round, NEW o \in Olt, NEW onus \in (SUBSET Onu) \ {{}},
           Finds[r][o] = {},
           Finds' = [Finds EXCEPT ![r][o] = {[onu |-> u, val |-> Empty] : u \in onus}],
           UNCHANGED <<epoch, Items(rows)>>
    PROVE  T!Next
<1>1. T!List(r, o)
  BY Zenon DEF T!List, Finds, Items
<1> QED
  BY <1>1 DEF T!Next

LEMMA ToLook ==
    ASSUME NEW r \in Round, NEW o \in Olt, NEW seen \in SUBSET {f.onu : f \in Finds[r][o]},
           Finds' = [Finds EXCEPT ![r][o] =
                      {[onu |-> f.onu, val |-> IF f.onu \in seen THEN epoch[f.onu] ELSE Empty]
                          : f \in @}],
           UNCHANGED <<epoch, Items(rows)>>
    PROVE  T!Next
<1>1. T!Look(r, o)
  BY Zenon DEF T!Look, Finds, Items
<1> QED
  BY <1>1 DEF T!Next

LEMMA ToWrite ==
    ASSUME NEW r \in Round, NEW o \in Olt, NEW f \in Finds[r][o],
           Finds' = [Finds EXCEPT ![r][o] = @ \ {f}],
           UNCHANGED epoch,
           \/ UNCHANGED Items(rows)
           \/ \E x \in Items(rows) :
                 /\ x.olt = o
                 /\ x.onu = f.onu
                 /\ Items(rows)' = (Items(rows) \ {x}) \cup {[x EXCEPT !.val = f.val]}
           \/ \E x \in Items(rows)' :
                 /\ x = [id |-> x.id, olt |-> o, onu |-> f.onu, val |-> f.val]
                 /\ \A y \in Items(rows) : y.id < x.id
                 /\ Items(rows)' = Items(rows) \cup {x}
    PROVE  T!Next
<1>1. T!Write(r, o, f)
  BY Zenon DEF T!Write, Finds, Items
<1> QED
  BY <1>1 DEF T!Next, Finds, Items

LEMMA PollStepMaps ==
    ASSUME TypeOK, HasTodo, TodoInv, AgeInv, NEW r \in Round, NEW o \in Olt, PollStep(r, o)
    PROVE  [T!Next]_(T!vars)
<1>1. Finds' = [Finds EXCEPT ![r][o] = Items(poll'[r][o].todo)] /\ epoch' = epoch
  BY FindsStep, PollWrites
<1>2. /\ Finds[r][o] = Items(poll[r][o].todo)
      /\ Finds = [Finds EXCEPT ![r][o] = Finds[r][o]]
  BY DEF Finds
<1>3. ASSUME ~Insert(r, o), ~Update(r, o)
      PROVE  UNCHANGED <<epoch, Items(rows)>>
  <2>1. rows' = rows
    BY <1>3 DEF PollStep, Test, RecordStatus, WalkSerials, WalkStates, Find, table
  <2> QED
    BY <1>1, <2>1 DEF Items
<1>4. CASE Rests(r, o)
  <2>1. Finds' = Finds
    BY <1>1, <1>2, <1>4 DEF Rests
  <2>2. UNCHANGED <<epoch, Finds, Items(rows)>>
    BY <1>3, <1>4, <2>1 DEF Rests
  <2> QED
    BY <2>2, ToStutter
<1>5. CASE Lists(r, o)
  <2>1. PICK onus \in (SUBSET Onu) \ {{}} :
            Items(poll'[r][o].todo) = {[onu |-> u, val |-> Empty] : u \in onus}
    BY <1>5 DEF Lists
  <2>2. Finds' = [Finds EXCEPT ![r][o] = {[onu |-> u, val |-> Empty] : u \in onus}]
    BY <1>1, <2>1
  <2>3. Finds[r][o] = {} /\ UNCHANGED <<epoch, Items(rows)>>
    BY <1>2, <1>3, <1>5 DEF Lists
  <2> QED
    BY <2>2, <2>3, ToList
<1>6. CASE Looks(r, o)
  <2> DEFINE seen == {u \in {f.onu : f \in Finds[r][o]} : where[u] = poll[r][o].address}
  <2>1. Items(poll'[r][o].todo) =
           {[onu |-> f.onu, val |-> IF f.onu \in seen THEN epoch[f.onu] ELSE Empty]
               : f \in Finds[r][o]}
    BY <1>2, <1>6 DEF Looks
  <2>2. seen \in SUBSET {f.onu : f \in Finds[r][o]}
    OBVIOUS
  <2> HIDE DEF seen
  <2>3. Finds' = [Finds EXCEPT ![r][o] =
                    {[onu |-> f.onu, val |-> IF f.onu \in seen THEN epoch[f.onu] ELSE Empty]
                        : f \in @}]
    BY <1>1, <2>1
  <2>4. UNCHANGED <<epoch, Items(rows)>>
    BY <1>3, <1>6 DEF Looks
  <2> QED
    BY <2>2, <2>3, <2>4, ToLook
<1>7. CASE Writes(r, o)
  <2> DEFINE f == Head(poll[r][o].todo)
  <2>1. f \in Finds[r][o] /\ Finds' = [Finds EXCEPT ![r][o] = @ \ {f}]
    BY <1>1, <1>2, <1>7 DEF Writes
  <2>2. \/ Items(rows)' = Items(rows)
        \/ \E x \in Items(rows) :
              /\ x.olt = o
              /\ x.onu = f.onu
              /\ Items(rows)' = (Items(rows) \ {x}) \cup {[x EXCEPT !.val = f.val]}
        \/ \E x \in Items(rows)' :
              /\ x = [id |-> x.id, olt |-> o, onu |-> f.onu, val |-> f.val]
              /\ \A y \in Items(rows) : y.id < x.id
              /\ Items(rows)' = Items(rows) \cup {x}
    <3>1. Items(rows)' = Items(rows')
      BY DEF Items
    <3>2. CASE Insert(r, o)
      <4> DEFINE x == [id |-> lastId + 1, olt |-> o, onu |-> f.onu, val |-> f.val]
      <4>1. Items(rows') = Items(rows) \cup {x} /\ \A y \in Items(rows) : y.id < x.id
        BY <3>2, InsertItems
      <4>2. x = [id |-> x.id, olt |-> o, onu |-> f.onu, val |-> f.val]
        OBVIOUS
      <4>3. x \in Items(rows)' /\ Items(rows)' = Items(rows) \cup {x}
        BY <3>1, <4>1
      <4> HIDE DEF x, f
      <4> QED
        BY <4>1, <4>2, <4>3
    <3>3. CASE Update(r, o)
      <4>1. ASSUME NEW x \in Items(rows), x.id = poll[r][o].row
            PROVE  x.olt = o /\ x.onu = f.onu
        <5>1. PollTrue(r, o) /\ poll[r][o].pc = "write" /\ poll[r][o].row # 0
          BY <3>3 DEF Update, AgeInv
        <5>2. PICK i \in DOMAIN rows : x = rows[i]
          BY DEF Items
        <5> QED
          BY <4>1, <5>1, <5>2 DEF PollTrue, Busy
      <4>2. CASE rows' = rows
        BY <3>1, <4>2
      <4>3. CASE rows' # rows
        <5>1. PICK x \in Items(rows) :
                  /\ x.id = poll[r][o].row
                  /\ Items(rows') = (Items(rows) \ {x}) \cup {[x EXCEPT !.val = f.val]}
          BY <3>3, <4>3, UpdateItems
        <5> QED
          BY <3>1, <4>1, <5>1
      <4> QED
        BY <4>2, <4>3
    <3> QED
      BY <1>7, <3>2, <3>3 DEF Writes
  <2> HIDE DEF f
  <2> QED
    BY <1>1, <2>1, <2>2, ToWrite
<1> QED
  BY <1>4, <1>5, <1>6, <1>7, PollStepItems

LEMMA NextMaps ==
    ASSUME TypeOK, HasTodo, TodoInv, AgeInv, [Next]_vars
    PROVE  [T!Next]_(T!vars)
<1>1. ASSUME UNCHANGED <<epoch, rows>>, Finds' = Finds PROVE [T!Next]_(T!vars)
  BY <1>1, ToStutter DEF Items
<1>2. ASSUME UNCHANGED poll PROVE Finds' = Finds
  BY <1>2 DEF Finds
<1>3. ASSUME NEW r \in Round, PollAll(r) PROVE [T!Next]_(T!vars)
  <2>1. UNCHANGED <<epoch, rows>>
    BY <1>3 DEF PollAll, table, network
  <2>2. \A a \in Round, o \in Olt : poll'[a][o].todo = poll[a][o].todo
    <3>1. \A o \in Olt : poll[r][o] = Idle
      BY <1>3 DEF PollAll
    <3>2. \A a \in Round, o \in Olt :
              \/ poll'[a][o] = poll[a][o]
              \/ a = r /\ (poll'[a][o] = Idle \/
                   poll'[a][o] = [Idle EXCEPT !.pc = "test", !.address = olts[o].address])
      BY <1>3 DEF PollAll, TypeOK
    <3>3. \A o \in Olt :
              [Idle EXCEPT !.pc = "test", !.address = olts[o].address].todo = Idle.todo
      BY DEF Idle
    <3>4. ASSUME NEW a \in Round, NEW o \in Olt PROVE poll'[a][o].todo = poll[a][o].todo
      <4>1. CASE poll'[a][o] = poll[a][o]
        BY <4>1
      <4>2. CASE a = r /\ poll'[a][o] = Idle
        BY <3>1, <4>2
      <4>3. CASE a = r /\ poll'[a][o] = [Idle EXCEPT !.pc = "test", !.address = olts[o].address]
        <5>1. poll'[a][o].todo = Idle.todo
          BY <3>3, <4>3
        <5>2. poll[a][o] = Idle
          BY <3>1, <4>3
        <5> QED
          BY <5>1, <5>2
      <4> QED
        BY <3>2, <4>1, <4>2, <4>3
    <3> QED
      BY <3>4
  <2>3. Finds' = Finds
    BY <2>2, Zenon DEF Finds
  <2> QED
    BY <1>1, <2>1, <2>3
<1>4. ASSUME NEW o \in Olt, DeleteOnus(o) PROVE [T!Next]_(T!vars)
  <2>1. UNCHANGED <<epoch, poll>> /\ Items(rows') = {x \in Items(rows) : x.olt # o}
    BY <1>4, DeleteItems DEF DeleteOnus, network
  <2>2. Finds' = Finds
    BY <1>2, <2>1
  <2>3. T!Clear(o)
    BY <2>1, <2>2 DEF T!Clear, Finds, Items
  <2> QED
    BY <2>3 DEF T!Next
<1>5. ASSUME NEW o \in Olt, NEW d \in Device, Add(o, d) \/ UpdateOlt(o, d) \/ DeleteOlt(o)
      PROVE  [T!Next]_(T!vars)
  BY <1>1, <1>2, <1>5 DEF Add, UpdateOlt, DeleteOlt, network
<1>6. ASSUME NEW u \in Onu, epoch' = [epoch EXCEPT ![u] = @ + 1], UNCHANGED <<poll, rows>>
      PROVE  [T!Next]_(T!vars)
  <2>1. Finds' = Finds
    BY <1>2, <1>6
  <2>2. T!Happen(u)
    BY <1>6, <2>1 DEF T!Happen, Finds, Items
  <2> QED
    BY <2>2 DEF T!Next
<1>7. CASE Network
  <2>1. ASSUME NEW u \in Onu, NEW d \in Device \cup {NoDevice}, Move(u, d)
        PROVE  [T!Next]_(T!vars)
    BY <1>6, <2>1 DEF Move, table
  <2>2. ASSUME NEW u \in Onu, ChangeState(u) PROVE [T!Next]_(T!vars)
    BY <1>6, <2>2 DEF ChangeState, table
  <2>3. ASSUME NEW d \in Device, Power(d) PROVE [T!Next]_(T!vars)
    BY <1>1, <1>2, <2>3 DEF Power, table
  <2> QED
    BY <1>7, <2>1, <2>2, <2>3 DEF Network
<1>8. CASE Crash
  <2>1. UNCHANGED <<epoch, rows>> /\ \A r \in Round, o \in Olt : poll'[r][o].todo = <<>>
    BY <1>8 DEF Crash, table, network, Idle
  <2>2. Finds' = [r \in Round |-> [o \in Olt |-> {}]]
    BY <2>1 DEF Finds, Items
  <2>3. T!Forget
    BY <2>1, <2>2 DEF T!Forget, T!Nothing, Finds, Items
  <2> QED
    BY <2>3 DEF T!Next
<1>9. CASE UNCHANGED vars
  BY <1>1, <1>2, <1>9 DEF vars
<1>10. ASSUME NEW o \in Olt, FailDeleteOnus(o) \/ DeleteOlt(o) \/ FailDeleteOlt(o)
       PROVE  [T!Next]_(T!vars)
  BY <1>1, <1>2, <1>10 DEF FailDeleteOnus, DeleteOlt, FailDeleteOlt, table, network
<1>11. CASE Operator
  BY <1>4, <1>5, <1>10, <1>11 DEF Operator
<1> QED
  BY <1>3, <1>7, <1>8, <1>9, <1>11, PollStepMaps DEF Next, Poller

\* However polls, walks that fail, changes of the network, deletions and restarts interleave,
\* a row of olt_onu_data changes only to what a poll of its OLT has found of its ONU or to
\* empty, a new one gets a new id, and rows go only with all rows of their OLT.
THEOREM ImplementsOnuTable == Spec => IsOnuTable
<1>1. Init => TodoInv /\ T!Init
  <2> SUFFICES ASSUME Init PROVE TodoInv /\ T!Init
    OBVIOUS
  <2>1. TodoInv /\ \A r \in Round, o \in Olt : poll[r][o].todo = <<>>
    BY DEF Init, TodoInv, Idle
  <2>2. Finds = [r \in Round |-> [o \in Olt |-> {}]]
    BY <2>1 DEF Finds, Items
  <2>3. Items(rows) = {} /\ epoch = [u \in Onu |-> 0]
    BY DEF Init, Items
  <2>4. T!Init
    BY <2>2, <2>3 DEF T!Init, T!Nothing, Finds, Items
  <2> QED
    BY <2>1, <2>4
<1>2. TypeOK /\ HasTodo /\ TodoInv /\ [Next]_vars => TodoInv'
  BY TodoStep
<1>3. TypeOK /\ HasTodo /\ TodoInv /\ AgeInv /\ [Next]_vars => [T!Next]_(T!vars)
  BY NextMaps
<1> QED
  BY <1>1, <1>2, <1>3, AgeIsInvariant, PTL DEF Spec, IsOnuTable, T!Spec
=============================================================================
