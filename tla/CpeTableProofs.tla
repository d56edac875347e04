---------------------------- MODULE CpeTableProofs ----------------------------
(***************************************************************************)
(* Theorems of CpeTable, for any number of goroutines and operators.        *)
(***************************************************************************)
EXTENDS CpeTable, TLAPS

LEMMA ConstantsAreNat == /\ Quiet \in Nat /\ MaxInform \in Nat
                         /\ MaxRow \in Nat /\ MaxEntry \in Nat
                         /\ NoTags \notin Tags /\ AutoRegister \in BOOLEAN
BY ConstantsAssumption

-----------------------------------------------------------------------------
(* Types.                                                                  *)

LEMMA GetCwmpCpeType ==
    ASSUME TypeOK, GetCwmpCpe
    PROVE  /\ made' \in 0..MaxEntry /\ entry' \in 1..made' /\ made <= made'
           /\ cpe' \in [Entry -> CwmpCpe]
<1>1. CASE entry # 0
  BY <1>1 DEF TypeOK, GetCwmpCpe
<1>2. CASE entry = 0
  <2>1. /\ made < MaxEntry /\ made' = made + 1 /\ entry' = made + 1
        /\ cpe' = [cpe EXCEPT ![made + 1].isRegister = row.id # 0]
    BY <1>2 DEF GetCwmpCpe
  <2>2. made + 1 \in Entry
    BY <2>1, ConstantsAreNat DEF TypeOK, Entry
  <2>3. cpe[made + 1] \in CwmpCpe
    BY <2>2 DEF TypeOK
  <2>4. (row.id # 0) \in BOOLEAN
    OBVIOUS
  <2>5. [cpe[made + 1] EXCEPT !.isRegister = row.id # 0] \in CwmpCpe
    BY <2>3, <2>4 DEF CwmpCpe
  <2>6. cpe' = [cpe EXCEPT ![made + 1] = [cpe[made + 1] EXCEPT !.isRegister = row.id # 0]]
    BY <2>1
  <2>7. cpe' \in [Entry -> CwmpCpe]
    BY <2>5, <2>6 DEF TypeOK
  <2> QED
    BY <2>1, <2>7, ConstantsAreNat DEF TypeOK
<1> QED
  BY <1>1, <1>2

\* One field of an entry, a row or a goroutine changes.
LEMMA EntryField ==
    ASSUME NEW c \in CwmpCpe
    PROVE  /\ \A b \in BOOLEAN : [c EXCEPT !.isRegister = b] \in CwmpCpe
           /\ \A t \in Tags \cup {NoTags} : [c EXCEPT !.tags = t] \in CwmpCpe
           /\ \A m \in Inform : [c EXCEPT !.inform = m] \in CwmpCpe
           /\ \A a \in Age : [c EXCEPT !.age = a] \in CwmpCpe
BY DEF CwmpCpe

LEMMA ThreadField ==
    ASSUME NEW t \in Thread
    PROVE  /\ \A pc \in {"idle", "register", "insert", "mark", "status", "notify", "online",
                            "read", "write", "stamp"} :
                  [t EXCEPT !.pc = pc] \in Thread
           /\ \A m \in Inform : [t EXCEPT !.snap = m] \in Thread
           /\ \A b \in BOOLEAN : [t EXCEPT !.again = b] \in Thread
           /\ \A b \in BOOLEAN : [t EXCEPT !.calm = b] \in Thread
BY DEF Thread

LEMMA Ages == /\ 0 \in Age /\ Quiet + 1 \in Age
              /\ \A a \in Age : Older(a) \in Age
BY ConstantsAreNat DEF Age, Older

\* A goroutine only moves on.
LEMMA GotoType ==
    ASSUME TypeOK, NEW h \in Handler, handler[h].pc # "idle",
           NEW pc \in {"idle", "register", "insert", "mark", "status", "notify", "online", "read",
                   "write", "stamp"},
           Goto(h, pc)
    PROVE  /\ handler' \in [Handler -> Thread]
           /\ \A g \in Handler : /\ handler'[g].at = handler[g].at
                                 /\ handler'[g].pc # "idle" => handler[g].pc # "idle"
<1> DEFINE new == [handler[h] EXCEPT !.pc = pc]
<1>1. handler[h] \in Thread
  BY DEF TypeOK
<1>2. new \in Thread
  BY <1>1, ThreadField
<1>3. new.at = handler[h].at
  BY <1>1 DEF Thread
<1>4. handler' = [handler EXCEPT ![h] = new]
  BY DEF Goto
<1> HIDE DEF new
<1> QED
  BY <1>2, <1>3, <1>4 DEF TypeOK

\* A goroutine whose INSERT fails goes on as it is, calm only if there is a row.
LEMMA FailCreateNew ==
    ASSUME TypeOK, NEW h \in Handler, FailCreate(h)
    PROVE  /\ handler[h].pc = "insert" /\ handler'[h].pc = "status"
           /\ handler' \in [Handler -> Thread]
           /\ \A g \in Handler : /\ handler'[g].at = handler[g].at
                                 /\ handler'[g].msg = handler[g].msg
                                 /\ handler'[g].beside = handler[g].beside
                                 /\ g # h => handler'[g] = handler[g]
           /\ handler'[h].calm <=> (handler[h].calm /\ row.id # 0)
<1> DEFINE c == handler[h].calm /\ row.id # 0
           new == [handler[h] EXCEPT !.pc = "status", !.calm = c]
<1>1. handler[h] \in Thread /\ handler \in [Handler -> Thread] /\ c \in BOOLEAN
  BY DEF TypeOK, Thread
<1>2. handler[h].pc = "insert" /\ handler' = [handler EXCEPT ![h] = new]
  BY DEF FailCreate
<1> HIDE DEF c
<1>3. /\ new \in Thread /\ new.pc = "status" /\ new.calm = c /\ new.at = handler[h].at
      /\ new.msg = handler[h].msg /\ new.beside = handler[h].beside
  BY <1>1 DEF Thread
<1> HIDE DEF new
<1>4. handler'[h].calm = c
  BY <1>1, <1>2, <1>3
<1> QED
  BY <1>1, <1>2, <1>3, <1>4 DEF c

\* OnInformUpdate begins: the goroutine takes the LastInform of its entry.
LEMMA TakeInformType ==
    ASSUME TypeOK, NEW h \in Handler, TakeInform(h)
    PROVE  /\ handler' \in [Handler -> Thread]
           /\ \A g \in Handler : /\ handler'[g].at = handler[g].at
                                 /\ handler'[g].pc # "idle" => handler[g].pc # "idle"
<1> DEFINE x == cpe[handler[h].at].inform
           new == [handler[h] EXCEPT !.pc = "write", !.snap = x]
<1>1. handler[h] \in Thread /\ handler[h].at \in Entry /\ handler[h].pc = "read"
  BY DEF TypeOK, Thread, TakeInform
<1>2. x \in Inform
  BY <1>1 DEF TypeOK, CwmpCpe
<1>3. handler' = [handler EXCEPT ![h] = new]
  BY DEF TakeInform
<1> HIDE DEF x
<1>4. new \in Thread /\ new.at = handler[h].at
  BY <1>1, <1>2 DEF Thread
<1> HIDE DEF new
<1> QED
  BY <1>1, <1>3, <1>4 DEF TypeOK

LEMMA RoundOverType ==
    ASSUME TypeOK, NEW h \in Handler, handler[h].pc # "idle", RoundOver(h)
    PROVE  /\ handler' \in [Handler -> Thread]
           /\ \A g \in Handler : /\ handler'[g].at <= made
                                 /\ handler'[g].pc # "idle" => handler'[g].at # 0
<1>1. CASE handler[h].again
  <2> DEFINE new == [handler[h] EXCEPT !.pc = "read", !.again = FALSE]
  <2>1. handler' = [handler EXCEPT ![h] = new]
    BY <1>1 DEF RoundOver
  <2>2. handler[h] \in Thread
    BY DEF TypeOK
  <2>3. new \in Thread /\ new.at = handler[h].at
    BY <2>2 DEF Thread
  <2> HIDE DEF new
  <2> QED
    BY <2>1, <2>3 DEF TypeOK
<1>2. CASE ~handler[h].again
  <2>1. handler' = [handler EXCEPT ![h] = Idle]
    BY <1>2 DEF RoundOver
  <2>2. Idle \in Thread
    BY ConstantsAreNat DEF Idle, Thread, Inform
  <2> QED
    BY <2>1, <2>2 DEF TypeOK, Idle
<1> QED
  BY <1>1, <1>2

\* The fillers learn that the tags they hold are out of date.
LEMMA OvertakeType ==
    ASSUME TypeOK, OvertakeFills
    PROVE  /\ filler' \in [Filler -> Fill]
           /\ \A f \in Filler : filler'[f].at = filler[f].at /\ filler'[f].pc = filler[f].pc
           /\ \A f \in Filler : /\ filler'[f].tags = filler[f].tags
                                /\ filler'[f].pc = "store" => filler'[f].late
<1> SUFFICES ASSUME NEW f \in Filler
             PROVE  /\ filler'[f] \in Fill
                    /\ filler'[f].at = filler[f].at /\ filler'[f].pc = filler[f].pc
                    /\ filler'[f].tags = filler[f].tags
                    /\ filler'[f].pc = "store" => filler'[f].late
  BY DEF OvertakeFills
<1>1. filler[f] \in Fill
  BY DEF TypeOK
<1>2. CASE filler[f].late \/ filler[f].pc = "store"
  <2>1. filler'[f] = [filler[f] EXCEPT !.late = TRUE]
    BY <1>2 DEF OvertakeFills
  <2> QED
    BY <1>1, <2>1 DEF Fill
<1>3. CASE ~(filler[f].late \/ filler[f].pc = "store")
  <2>1. filler'[f] = [filler[f] EXCEPT !.late = FALSE]
    BY <1>3 DEF OvertakeFills
  <2> QED
    BY <1>1, <1>3, <2>1 DEF Fill
<1> QED
  BY <1>2, <1>3

LEMMA OnlineType ==
    ASSUME TypeOK, NEW data \in Inform, Online(data)
    PROVE  row' \in Row /\ row'.id = row.id
<1>1. row \in Row /\ 0 \in Age
  BY Ages DEF TypeOK
<1> QED
  BY <1>1 DEF Online, Row

LEMMA InsertType ==
    ASSUME TypeOK, row.id = 0, NEW t \in Tags \cup {NoTags}, NEW data \in Inform, Insert(t, data)
    PROVE  row' \in Row /\ inserted' \in row'.id..MaxRow
<1>1. inserted \in 0..MaxRow /\ inserted < MaxRow
  BY DEF TypeOK, Row, Insert
<1>2. Quiet + 1 \in Age
  BY Ages
<1>3. row' = [id |-> inserted + 1, tags |-> t, status |-> "", age |-> Quiet + 1, data |-> data]
  BY DEF Insert
<1>4. inserted + 1 \in 0..MaxRow
  BY <1>1, ConstantsAreNat
<1>5. row' \in Row
  BY <1>2, <1>3, <1>4 DEF Row
<1>6. row'.id = inserted + 1
  BY <1>1, <1>3
<1>7. inserted' = inserted + 1
  BY DEF Insert
<1>8. inserted + 1 \in (inserted + 1)..MaxRow
  BY <1>4, ConstantsAreNat
<1> QED
  BY <1>5, <1>6, <1>7, <1>8

\* What a step may do to the goroutines without changing their type: they keep
\* their entries, and the entries stay made.
LEMMA StillMade ==
    ASSUME TypeOK, made' \in Nat, made <= made'
    PROVE  /\ \A h \in Handler : /\ handler[h].at <= made'
                                 /\ handler[h].pc # "idle" => handler[h].at # 0
           /\ \A f \in Filler : /\ filler[f].at <= made'
                                /\ filler[f].pc # "idle" => filler[f].at # 0
BY ConstantsAreNat DEF TypeOK, Thread, Fill, Entry

LEMMA HandlerStepType ==
    ASSUME TypeOK, NEW h \in Handler, HandlerStep(h)
    PROVE  TypeOK'
<1> USE ConstantsAreNat
<1>1. handler[h] \in Thread /\ handler[h].msg \in Inform /\ handler[h].snap \in Inform
  BY DEF TypeOK, Thread
<1>2. ASSUME handler[h].pc # "idle"
      PROVE  handler[h].at \in Entry /\ cpe[handler[h].at] \in CwmpCpe
  BY <1>1, <1>2 DEF TypeOK, Thread
<1>3. CASE CheckRegister(h)
  <2>1. /\ handler[h].pc = "register"
        /\ Goto(h, "insert") \/ Goto(h, "status")
        /\ UNCHANGED <<row, inserted, informs, entry, made, cpe, filler, edits, doomed, suspect>>
    BY <1>3 DEF CheckRegister, database, table
  <2>2. handler' \in [Handler -> Thread]
        /\ \A g \in Handler : /\ handler'[g].at = handler[g].at
                              /\ handler'[g].pc # "idle" => handler[g].pc # "idle"
    BY <2>1, GotoType
  <2> QED
    BY <2>1, <2>2 DEF TypeOK
<1>10. CASE CreateCpe(h)
  <2>1. /\ handler[h].pc = "insert" /\ Goto(h, "mark")
        /\ row.id = 0 /\ Insert(NoTags, handler[h].msg)
        /\ UNCHANGED <<informs, entry, made, cpe, filler, edits, doomed, suspect>>
    BY <1>10 DEF CreateCpe, table
  <2>2. handler' \in [Handler -> Thread]
        /\ \A g \in Handler : /\ handler'[g].at = handler[g].at
                              /\ handler'[g].pc # "idle" => handler[g].pc # "idle"
    BY <2>1, GotoType
  <2>3. row' \in Row /\ inserted' \in row'.id..MaxRow
    BY <1>1, <2>1, InsertType
  <2> QED
    BY <2>1, <2>2, <2>3 DEF TypeOK
<1>11. CASE FailCreate(h)
  <2>1. UNCHANGED <<row, inserted, informs, entry, made, cpe, filler, edits, doomed, suspect>>
    BY <1>11 DEF FailCreate, database, table
  <2>2. \A g \in Handler : /\ handler'[g].at = handler[g].at
                          /\ handler'[g].pc # "idle" => handler[g].pc # "idle"
    BY <1>11, FailCreateNew
  <2> QED
    BY <1>11, <2>1, <2>2, FailCreateNew DEF TypeOK
<1>12. CASE MarkRegister(h)
  <2>1. /\ handler[h].pc = "mark" /\ Goto(h, "status")
        /\ UNCHANGED <<row, inserted, informs, entry, made, filler, edits, doomed, suspect>>
        /\ cpe' = [cpe EXCEPT ![handler[h].at] = [@ EXCEPT !.isRegister = TRUE]]
    BY <1>12 DEF MarkRegister, database, table
  <2>2. handler' \in [Handler -> Thread]
        /\ \A g \in Handler : /\ handler'[g].at = handler[g].at
                              /\ handler'[g].pc # "idle" => handler[g].pc # "idle"
    BY <2>1, GotoType
  <2>3. [cpe[handler[h].at] EXCEPT !.isRegister = TRUE] \in CwmpCpe
    BY <1>2, <2>1, EntryField
  <2>4. cpe' \in [Entry -> CwmpCpe]
    BY <1>2, <2>1, <2>3 DEF TypeOK
  <2> QED
    BY <2>1, <2>2, <2>4 DEF TypeOK
<1>4. CASE UpdateStatus(h)
  <2>1. /\ handler[h].pc = "status" /\ Goto(h, "notify")
        /\ UNCHANGED <<row, inserted, informs, entry, made, filler, edits, doomed, suspect>>
        /\ cpe' = [cpe EXCEPT ![handler[h].at] = [@ EXCEPT !.inform = handler[h].msg]]
    BY <1>4 DEF UpdateStatus, database, table, Latest
  <2>2. handler' \in [Handler -> Thread]
        /\ \A g \in Handler : /\ handler'[g].at = handler[g].at
                              /\ handler'[g].pc # "idle" => handler[g].pc # "idle"
    BY <2>1, GotoType
  <2>3. [cpe[handler[h].at] EXCEPT !.inform = handler[h].msg] \in CwmpCpe
    BY <1>1, <1>2, <2>1, EntryField
  <2>4. cpe' \in [Entry -> CwmpCpe]
    BY <1>2, <2>1, <2>3 DEF TypeOK
  <2> QED
    BY <2>1, <2>2, <2>4 DEF TypeOK
<1>5. CASE NotifyDataUpdate(h)
  <2>1. /\ handler[h].pc = "notify"
        /\ Goto(h, "read") \/ Goto(h, "online")
        /\ UNCHANGED <<row, inserted, informs, entry, made, cpe, filler, edits, doomed, suspect>>
    BY <1>5 DEF NotifyDataUpdate, database, table
  <2>3. handler' \in [Handler -> Thread]
        /\ \A g \in Handler : /\ handler'[g].at = handler[g].at
                              /\ handler'[g].pc # "idle" => handler[g].pc # "idle"
    BY <2>1, GotoType
  <2> QED
    BY <2>1, <2>3 DEF TypeOK
<1>6. CASE OnInformUpdateOnline(h)
  <2>1. /\ handler[h].pc = "online" /\ Online(row.data) /\ RoundOver(h)
        /\ UNCHANGED <<inserted, informs, entry, made, cpe, filler, edits, doomed, suspect>>
    BY <1>6 DEF OnInformUpdateOnline, table
  <2>2. row.data \in Inform
    BY DEF TypeOK, Row
  <2>3. row' \in Row /\ row'.id = row.id
    BY <2>1, <2>2, OnlineType
  <2>4. handler' \in [Handler -> Thread]
        /\ \A g \in Handler : /\ handler'[g].at <= made
                              /\ handler'[g].pc # "idle" => handler'[g].at # 0
    BY <2>1, RoundOverType
  <2> QED
    BY <2>1, <2>3, <2>4 DEF TypeOK
<1>7. CASE OnInformUpdate(h)
  <2>1. /\ handler[h].pc = "write" /\ Online(handler[h].snap) /\ Goto(h, "stamp")
        /\ UNCHANGED <<inserted, informs, entry, made, cpe, filler, edits, doomed, suspect>>
    BY <1>7 DEF OnInformUpdate, table
  <2>2. row' \in Row /\ row'.id = row.id
    BY <1>1, <2>1, OnlineType
  <2>3. handler' \in [Handler -> Thread]
        /\ \A g \in Handler : /\ handler'[g].at = handler[g].at
                              /\ handler'[g].pc # "idle" => handler[g].pc # "idle"
    BY <2>1, GotoType
  <2> QED
    BY <2>1, <2>2, <2>3 DEF TypeOK
<1>8. CASE Stamp(h)
  <2>1. /\ handler[h].pc = "stamp" /\ RoundOver(h)
        /\ UNCHANGED <<row, inserted, informs, entry, made, filler, edits, doomed, suspect>>
        /\ cpe' = [cpe EXCEPT ![handler[h].at] = [@ EXCEPT !.age = 0]]
    BY <1>8 DEF Stamp, database, table
  <2>2. [cpe[handler[h].at] EXCEPT !.age = 0] \in CwmpCpe
    BY <1>2, <2>1, EntryField, Ages
  <2>3. cpe' \in [Entry -> CwmpCpe]
    BY <1>2, <2>1, <2>2 DEF TypeOK
  <2>4. handler' \in [Handler -> Thread]
        /\ \A g \in Handler : /\ handler'[g].at <= made
                              /\ handler'[g].pc # "idle" => handler'[g].at # 0
    BY <2>1, RoundOverType
  <2> QED
    BY <2>1, <2>3, <2>4 DEF TypeOK
<1>9. CASE TakeInform(h)
  <2>1. UNCHANGED <<row, inserted, informs, entry, made, cpe, filler, edits, doomed, suspect>>
    BY <1>9 DEF TakeInform, database, table
  <2> QED
    BY <1>9, <2>1, TakeInformType DEF TypeOK
<1> QED
  BY <1>3, <1>4, <1>5, <1>6, <1>7, <1>8, <1>9, <1>10, <1>11, <1>12 DEF HandlerStep

LEMMA NoRowType == NoRow \in Row /\ NoRow.id = 0 /\ NoRow.tags = NoTags
<1>1. 0 \in Inform /\ 0 \in 0..MaxRow
  BY ConstantsAreNat DEF Inform
<1>2. 0 \in Age
  BY Ages
<1> QED
  BY <1>1, <1>2 DEF NoRow, Row

LEMMA TypeInit == Init => TypeOK
<1> SUFFICES ASSUME Init PROVE TypeOK
  OBVIOUS
<1>1. 0 \in Inform
  BY ConstantsAreNat DEF Inform
<1>2. NoRow \in Row /\ NoRow.id = 0
  BY NoRowType
<1>3. Unused \in CwmpCpe
  BY <1>1, Ages DEF Unused, CwmpCpe
<1>4. Idle \in Thread
  BY <1>1 DEF Idle, Thread
<1>5. NoFill \in Fill
  BY DEF NoFill, Fill
<1>6. row \in Row /\ inserted \in row.id..MaxRow
  BY <1>2, ConstantsAreNat DEF Init
<1>7. /\ handler \in [Handler -> Thread]
      /\ \A h \in Handler : handler[h].at = 0 /\ handler[h].pc = "idle"
      /\ filler \in [Filler -> Fill]
      /\ \A f \in Filler : filler[f].at = 0 /\ filler[f].pc = "idle"
  BY <1>4, <1>5 DEF Init, Idle, NoFill
<1>8. /\ informs = 0 /\ made = 0 /\ entry = 0 /\ edits = {} /\ suspect = {}
      /\ cpe \in [Entry -> CwmpCpe]
      /\ doomed \in [Deleter -> 0..MaxRow]
  BY <1>3, ConstantsAreNat DEF Init
<1> QED
  BY <1>1, <1>6, <1>7, <1>8, ConstantsAreNat DEF TypeOK

LEMMA ReceiveType ==
    ASSUME TypeOK, NEW h \in Handler, NEW change \in BOOLEAN, Receive(h, change)
    PROVE  TypeOK'
<1> DEFINE new == [pc |-> "register", at |-> entry', msg |-> informs + 1, snap |-> 0,
                   again |-> change, calm |-> ~Deleting, beside |-> Running]
<1>1. /\ made' \in 0..MaxEntry /\ entry' \in 1..made' /\ made <= made'
      /\ cpe' \in [Entry -> CwmpCpe]
  BY GetCwmpCpeType DEF Receive
<1>2. informs + 1 \in Inform /\ 0 \in Inform /\ informs' = informs + 1
  BY ConstantsAreNat DEF Receive, TypeOK, Inform
<1>3. Running \subseteq Inform
  BY DEF Running, TypeOK, Thread
<1>4. entry' \in Entry
  BY <1>1, ConstantsAreNat DEF Entry
<1>5. new \in Thread
  BY <1>2, <1>3, <1>4 DEF Thread
<1>6. handler' = [handler EXCEPT ![h] = new]
  BY DEF Receive
<1>7. new.at = entry' /\ new.pc = "register"
  OBVIOUS
<1> HIDE DEF new
<1>8. handler' \in [Handler -> Thread]
  BY <1>5, <1>6 DEF TypeOK
<1>9. made' \in Nat
  BY <1>1, ConstantsAreNat
<1>10. \A g \in Handler : /\ handler'[g].at <= made'
                          /\ handler'[g].pc # "idle" => handler'[g].at # 0
  <2> SUFFICES ASSUME NEW g \in Handler
               PROVE  /\ handler'[g].at <= made'
                      /\ handler'[g].pc # "idle" => handler'[g].at # 0
    OBVIOUS
  <2>1. CASE g = h
    BY <2>1, <1>1, <1>6, <1>7, <1>9 DEF TypeOK
  <2>2. CASE g # h
    <3>1. handler'[g] = handler[g]
      BY <2>2, <1>6 DEF TypeOK
    <3> QED
      BY <3>1, <1>1, <1>9, StillMade
  <2> QED
    BY <2>1, <2>2
<1>11. UNCHANGED <<row, inserted, filler, edits, doomed, suspect>>
  BY DEF Receive, database
<1>12. \A f \in Filler : filler[f].at <= made' /\ (filler[f].pc # "idle" => filler[f].at # 0)
  BY <1>1, <1>9, StillMade
<1> QED
  BY <1>1, <1>2, <1>8, <1>10, <1>11, <1>12 DEF TypeOK

LEMMA FillerStepType ==
    ASSUME TypeOK, NEW f \in Filler, ReadTags(f) \/ StoreTags(f)
    PROVE  TypeOK'
<1>1. CASE ReadTags(f)
  <2> DEFINE new == [pc |-> "store", at |-> entry', tags |-> row.tags, late |-> FALSE]
  <2>1. /\ made' \in 0..MaxEntry /\ entry' \in 1..made' /\ made <= made'
        /\ cpe' \in [Entry -> CwmpCpe]
    BY <1>1, GetCwmpCpeType DEF ReadTags
  <2>2. entry' \in Entry
    BY <2>1, ConstantsAreNat DEF Entry
  <2>3. new \in Fill
    BY <2>2 DEF Fill, TypeOK, Row
  <2>4. filler' = [filler EXCEPT ![f] = new]
    BY <1>1 DEF ReadTags
  <2>5. new.at = entry' /\ new.pc = "store"
    OBVIOUS
  <2> HIDE DEF new
  <2>6. filler' \in [Filler -> Fill]
    BY <2>3, <2>4 DEF TypeOK
  <2>7. made' \in Nat
    BY <2>1, ConstantsAreNat
  <2>8. \A g \in Filler : filler'[g].at <= made' /\ (filler'[g].pc # "idle" => filler'[g].at # 0)
    <3> SUFFICES ASSUME NEW g \in Filler
                 PROVE  filler'[g].at <= made' /\ (filler'[g].pc # "idle" => filler'[g].at # 0)
      OBVIOUS
    <3>1. CASE g = f
      BY <3>1, <2>1, <2>4, <2>5, <2>7 DEF TypeOK
    <3>2. CASE g # f
      <4>1. filler'[g] = filler[g]
        BY <3>2, <2>4 DEF TypeOK
      <4> QED
        BY <4>1, <2>1, <2>7, StillMade
    <3> QED
      BY <3>1, <3>2
  <2>9. UNCHANGED <<row, inserted, informs, handler, edits, doomed, suspect>>
    BY <1>1 DEF ReadTags, database
  <2>10. \A h \in Handler : handler[h].at <= made' /\ (handler[h].pc # "idle" => handler[h].at # 0)
    BY <2>1, <2>7, StillMade
  <2> QED
    BY <2>1, <2>6, <2>8, <2>9, <2>10 DEF TypeOK
<1>2. CASE StoreTags(f)
  <2>1. filler[f] \in Fill /\ filler[f].at \in Entry
    BY <1>2 DEF StoreTags, TypeOK, Fill
  <2>2. [cpe[filler[f].at] EXCEPT !.tags = filler[f].tags] \in CwmpCpe
    <3>1. filler[f].tags \in Tags \cup {NoTags} /\ cpe[filler[f].at] \in CwmpCpe
      BY <2>1 DEF Fill, TypeOK
    <3> QED
      BY <3>1, EntryField
  <2>3. cpe' = [cpe EXCEPT ![filler[f].at] = [@ EXCEPT !.tags = filler[f].tags]]
    BY <1>2 DEF StoreTags
  <2>4. cpe' \in [Entry -> CwmpCpe]
    BY <2>1, <2>2, <2>3 DEF TypeOK
  <2>5. NoFill \in Fill
    BY DEF NoFill, Fill
  <2>6. filler' = [filler EXCEPT ![f] = NoFill] /\ suspect' \subseteq Entry
    BY <1>2, <2>1 DEF StoreTags, TypeOK
  <2>7. /\ filler' \in [Filler -> Fill]
        /\ \A g \in Filler : filler'[g].at <= made /\ (filler'[g].pc # "idle" => filler'[g].at # 0)
    BY <2>5, <2>6, ConstantsAreNat DEF TypeOK, NoFill
  <2>8. UNCHANGED <<row, inserted, informs, entry, made, handler, edits, doomed>>
    BY <1>2 DEF StoreTags, database, table
  <2> QED
    BY <2>4, <2>6, <2>7, <2>8 DEF TypeOK
<1> QED
  BY <1>1, <1>2

LEMMA OperatorStepType ==
    ASSUME TypeOK, OperatorStep
    PROVE  TypeOK'
<1>1. ASSUME NEW t \in Tags \cup {NoTags}, AddCpe(t)
      PROVE  TypeOK'
  <2>1. 0 \in Inform
    BY ConstantsAreNat DEF Inform
  <2>2. row' \in Row /\ inserted' \in row'.id..MaxRow
    BY <1>1, <2>1, InsertType DEF AddCpe
  <2> QED
    BY <1>1, <2>2 DEF AddCpe, table, TypeOK
<1>2. ASSUME NEW o \in Editor, NEW t \in Tags \cup {NoTags}, UpdateCpe(o, t)
      PROVE  TypeOK'
  <2>1. CASE t \in {NoTags, row.tags}
    BY <1>2, <2>1 DEF UpdateCpe, table, TypeOK
  <2>2. CASE t \notin {NoTags, row.tags}
    <3>1. row' = [row EXCEPT !.tags = t] /\ OvertakeFills
      BY <1>2, <2>2 DEF UpdateCpe
    <3>2. row' \in Row /\ row'.id = row.id
      BY <3>1 DEF TypeOK, Row
    <3>3. /\ filler' \in [Filler -> Fill]
          /\ \A f \in Filler : filler'[f].at = filler[f].at /\ filler'[f].pc = filler[f].pc
      BY <3>1, OvertakeType
    <3>4. /\ edits' \subseteq Editor
          /\ UNCHANGED <<inserted, informs, entry, made, cpe, handler, doomed, suspect>>
      BY <1>2 DEF UpdateCpe, table, TypeOK
    <3> QED
      BY <3>2, <3>3, <3>4 DEF TypeOK
  <2> QED
    BY <2>1, <2>2
<1>3. ASSUME NEW o \in Editor, ClearCwmpCpeCache(o)
      PROVE  TypeOK'
  <2>1. /\ made' \in 0..MaxEntry /\ entry' \in 0..made' /\ made <= made'
        /\ cpe' \in [Entry -> CwmpCpe]
    <3>1. CASE entry # 0
      <4>1. entry \in Entry /\ cpe[entry] \in CwmpCpe
        BY <3>1, ConstantsAreNat DEF TypeOK, Entry
      <4>2. Uncached(cpe[entry]) \in CwmpCpe
        BY <4>1, EntryField DEF Uncached
      <4>3. cpe' = [cpe EXCEPT ![entry] = Uncached(@)] /\ UNCHANGED <<entry, made>>
        BY <1>3, <3>1 DEF ClearCwmpCpeCache, table
      <4> QED
        BY <4>1, <4>2, <4>3, ConstantsAreNat DEF TypeOK
    <3>2. CASE entry = 0
      <4>1. GetCwmpCpe
        BY <1>3, <3>2 DEF ClearCwmpCpeCache
      <4> QED
        BY <4>1, GetCwmpCpeType, ConstantsAreNat
    <3> QED
      BY <3>1, <3>2
  <2>2. made' \in Nat
    BY <2>1, ConstantsAreNat
  <2>3. /\ edits' \subseteq Editor /\ suspect' \subseteq Entry
        /\ UNCHANGED <<row, inserted, informs, handler, filler, doomed>>
    BY <1>3 DEF ClearCwmpCpeCache, database, TypeOK
  <2> QED
    BY <2>1, <2>2, <2>3, StillMade DEF TypeOK
<1>4. ASSUME NEW d \in Deleter, ClearCwmpCpe(d)
      PROVE  TypeOK'
  <2>1. \A h \in Handler : /\ handler'[h] = [handler[h] EXCEPT !.calm = FALSE]
                           /\ handler[h] \in Thread
    BY <1>4 DEF ClearCwmpCpe, TypeOK
  <2>2. \A h \in Handler : /\ handler'[h] \in Thread
                           /\ handler'[h].at = handler[h].at
                           /\ handler'[h].pc = handler[h].pc
    <3>1. \A t \in Thread : LET u == [t EXCEPT !.calm = FALSE]
                           IN  u \in Thread /\ u.at = t.at /\ u.pc = t.pc
      BY DEF Thread
    <3> QED
      BY <2>1, <3>1
  <2>3. handler' \in [Handler -> Thread]
    BY <1>4, <2>2 DEF ClearCwmpCpe
  <2>4. doomed' \in [Deleter -> 0..MaxRow] /\ entry' = 0
    BY <1>4 DEF ClearCwmpCpe, TypeOK, Row
  <2>5. UNCHANGED <<row, inserted, informs, made, cpe, filler, edits, suspect>>
    BY <1>4 DEF ClearCwmpCpe, database
  <2> QED
    BY <2>2, <2>3, <2>4, <2>5, ConstantsAreNat DEF TypeOK
<1>5. ASSUME NEW d \in Deleter, DeleteCpe(d)
      PROVE  TypeOK'
  <2>1. doomed' \in [Deleter -> 0..MaxRow]
    BY <1>5, ConstantsAreNat DEF DeleteCpe, TypeOK
  <2>2. UNCHANGED <<inserted, informs, entry, made, cpe, handler, edits>>
    BY <1>5 DEF DeleteCpe, table
  <2>3. CASE doomed[d] = row.id
    <3>1. /\ row' = NoRow /\ OvertakeFills
          /\ suspect' = suspect \cup ({entry} \ {0})
      BY <1>5, <2>3 DEF DeleteCpe
    <3>2. row' \in Row /\ row'.id = 0
      BY <3>1, NoRowType
    <3>3. inserted \in 0..MaxRow
      <4>1. row.id \in 0..MaxRow /\ inserted \in row.id..MaxRow
        BY DEF TypeOK, Row
      <4> QED
        BY <4>1, ConstantsAreNat
    <3>4. suspect' \subseteq Entry
      BY <3>1, ConstantsAreNat DEF TypeOK, Entry
    <3>5. /\ filler' \in [Filler -> Fill]
          /\ \A f \in Filler : filler'[f].at = filler[f].at /\ filler'[f].pc = filler[f].pc
      BY <3>1, OvertakeType
    <3> QED
      BY <2>1, <2>2, <3>2, <3>3, <3>4, <3>5 DEF TypeOK
  <2>4. CASE doomed[d] # row.id
    <3>1. UNCHANGED <<row, filler, suspect>>
      BY <1>5, <2>4 DEF DeleteCpe
    <3> QED
      BY <2>1, <2>2, <3>1 DEF TypeOK
  <2> QED
    BY <2>3, <2>4
<1> QED
  BY <1>1, <1>2, <1>3, <1>4, <1>5 DEF OperatorStep

LEMMA TypeStep == TypeOK /\ [Next]_vars => TypeOK'
<1> SUFFICES ASSUME TypeOK, [Next]_vars PROVE TypeOK'
  OBVIOUS
<1>1. CASE \E h \in Handler, change \in BOOLEAN : Receive(h, change)
  BY <1>1, ReceiveType
<1>2. CASE \E h \in Handler : HandlerStep(h)
  BY <1>2, HandlerStepType
<1>3. CASE OnParamsUpdate
  <2>1. row.data \in Inform
    BY DEF TypeOK, Row
  <2>2. row' \in Row /\ row'.id = row.id
    BY <1>3, <2>1, OnlineType DEF OnParamsUpdate
  <2>3. informs' \in Inform
    BY <1>3, ConstantsAreNat DEF OnParamsUpdate, TypeOK, Inform
  <2> QED
    BY <1>3, <2>2, <2>3 DEF OnParamsUpdate, table, TypeOK
<1>4. CASE \E f \in Filler : ReadTags(f) \/ StoreTags(f)
  BY <1>4, FillerStepType
<1>5. CASE OperatorStep
  BY <1>5, OperatorStepType
<1>6. CASE SchedUpdateBatchCwmpStatus
  <2>1. row' \in Row /\ row'.id = row.id
    BY <1>6 DEF SchedUpdateBatchCwmpStatus, TypeOK, Row
  <2> QED
    BY <1>6, <2>1 DEF SchedUpdateBatchCwmpStatus, table, TypeOK
<1>7. CASE Tick
  <2>1. row' \in Row /\ row'.id = row.id
    <3>1. row.age \in Age
      BY DEF TypeOK, Row
    <3>2. Older(row.age) \in Age
      BY <3>1, Ages
    <3> QED
      BY <1>7, <3>2 DEF Tick, TypeOK, Row
  <2>2. cpe' \in [Entry -> CwmpCpe]
    <3>1. \A e \in Entry : cpe[e] \in CwmpCpe /\ cpe[e].age \in Age
      BY DEF TypeOK, CwmpCpe
    <3>2. \A e \in Entry : [cpe[e] EXCEPT !.age = Older(cpe[e].age)] \in CwmpCpe
      BY <3>1, Ages, EntryField
    <3>3. cpe' = [e \in Entry |-> [cpe[e] EXCEPT !.age = Older(cpe[e].age)]]
      BY <1>7 DEF Tick
    <3> QED
      BY <3>2, <3>3
  <2> QED
    BY <1>7, <2>1, <2>2 DEF Tick, table, TypeOK
<1>8. CASE Crash
  <2>1. Idle \in Thread /\ NoFill \in Fill
    BY ConstantsAreNat DEF Idle, Thread, Inform, NoFill, Fill
  <2>2. /\ handler' \in [Handler -> Thread]
        /\ \A h \in Handler : handler'[h].at = 0 /\ handler'[h].pc = "idle"
        /\ filler' \in [Filler -> Fill]
        /\ \A f \in Filler : filler'[f].at = 0 /\ filler'[f].pc = "idle"
    BY <1>8, <2>1 DEF Crash, Idle, NoFill
  <2>3. /\ entry' = 0 /\ edits' = {} /\ doomed' \in [Deleter -> 0..MaxRow]
        /\ UNCHANGED <<row, inserted, informs, made, cpe, suspect>>
    BY <1>8, ConstantsAreNat DEF Crash, database
  <2> QED
    BY <2>2, <2>3, ConstantsAreNat DEF TypeOK
<1>9. CASE UNCHANGED vars
  BY <1>9 DEF vars, TypeOK
<1> QED
  BY <1>1, <1>2, <1>3, <1>4, <1>5, <1>6, <1>7, <1>8, <1>9 DEF Next

\* Row, entries and goroutines keep their types; the ages and numbers stay within
\* their bounds.
THEOREM TypeCorrect == Spec => []TypeOK
<1> QED
  BY TypeInit, TypeStep, PTL DEF Spec

-----------------------------------------------------------------------------
(* The cached task tags.                                                   *)

\* A goroutine that is about to store tags read them from the row as it is now, or
\* knows better; an entry that is not made yet has no tags.
TagsInv ==
    /\ row.id = 0 => row.tags = NoTags
    /\ \A f \in Filler : filler[f].pc = "store" =>
            filler[f].tags # NoTags /\ (filler[f].late \/ filler[f].tags = row.tags)
    /\ \A e \in Entry : e > made => cpe[e].tags = NoTags
    /\ StaleTagsHaveCause

\* A step that changes neither the tags of the row nor those of an entry.
LEMMA TagsInvQuiet ==
    ASSUME TypeOK, TypeOK', TagsInv,
           row'.tags = row.tags, row'.id = 0 => row.id = 0,
           \A f \in Filler : filler'[f] = filler[f] \/ filler'[f].pc = "idle",
           \A e \in Entry : cpe'[e].tags = cpe[e].tags,
           made <= made',
           \/ entry' = 0
           \/ cpe'[entry'].tags = NoTags
           \/ entry' = entry /\ edits' = edits /\ suspect' = suspect
    PROVE  TagsInv'
<1>1. row'.id = 0 => row'.tags = NoTags
  BY DEF TagsInv
<1>2. \A f \in Filler : filler'[f].pc = "store" =>
        filler'[f].tags # NoTags /\ (filler'[f].late \/ filler'[f].tags = row'.tags)
  BY Zenon DEF TagsInv
<1>3. \A e \in Entry : e > made' => cpe'[e].tags = NoTags
  BY ConstantsAreNat DEF TagsInv, TypeOK, Entry
<1>4. StaleTagsHaveCause'
  <2> SUFFICES ASSUME entry' # 0, cpe'[entry'].tags \notin {NoTags, row'.tags}
               PROVE  edits' # {} \/ entry' \in suspect'
    BY DEF StaleTagsHaveCause
  <2>1. entry' = entry /\ edits' = edits /\ suspect' = suspect
    OBVIOUS
  <2>2. entry \in Entry
    BY <2>1, ConstantsAreNat DEF TypeOK, Entry
  <2>3. cpe[entry].tags \notin {NoTags, row.tags}
    BY <2>1, <2>2
  <2> QED
    BY <2>1, <2>3 DEF TagsInv, StaleTagsHaveCause
<1> QED
  BY <1>1, <1>2, <1>3, <1>4 DEF TagsInv

LEMMA GetCwmpCpeTags ==
    ASSUME TypeOK, TagsInv, GetCwmpCpe
    PROVE  /\ \A e \in Entry : cpe'[e].tags = cpe[e].tags
           /\ made <= made'
           /\ entry' = entry \/ cpe'[entry'].tags = NoTags
<1>1. CASE entry # 0
  BY <1>1, ConstantsAreNat DEF GetCwmpCpe, TypeOK
<1>2. CASE entry = 0
  <2> DEFINE b == row.id # 0
  <2>1. /\ made < MaxEntry /\ made' = made + 1 /\ entry' = made + 1
        /\ cpe' = [cpe EXCEPT ![made + 1] = [@ EXCEPT !.isRegister = b]]
    BY <1>2 DEF GetCwmpCpe
  <2>2. made + 1 \in Entry /\ made + 1 > made /\ made <= made + 1
    BY <2>1, ConstantsAreNat DEF TypeOK, Entry
  <2>3. cpe[made + 1].tags = NoTags
    BY <2>2 DEF TagsInv
  <2>4. cpe[made + 1] \in CwmpCpe /\ b \in BOOLEAN
    BY <2>2 DEF TypeOK
  <2> HIDE DEF b
  <2>5. [cpe[made + 1] EXCEPT !.isRegister = b].tags = cpe[made + 1].tags
    BY <2>4 DEF CwmpCpe
  <2>6. \A e \in Entry : cpe'[e].tags = cpe[e].tags
    BY <2>1, <2>2, <2>5 DEF TypeOK
  <2> QED
    BY <2>1, <2>2, <2>3, <2>6
<1> QED
  BY <1>1, <1>2

LEMMA HandlerStepTags ==
    ASSUME TypeOK, TypeOK', TagsInv, NEW h \in Handler, HandlerStep(h)
    PROVE  TagsInv'
<1>1. /\ row'.tags = row.tags /\ (row'.id = 0 => row.id = 0)
      /\ \A e \in Entry : cpe'[e].tags = cpe[e].tags
      /\ UNCHANGED <<entry, made, filler, edits, suspect>>
  <2>1. \A e \in Entry : cpe[e] \in CwmpCpe
    BY DEF TypeOK
  <2>2. \A data : Online(data) => row'.tags = row.tags /\ row'.id = row.id
    BY DEF Online, TypeOK, Row
  <2>3. CASE CheckRegister(h) \/ FailCreate(h)
    BY <2>3 DEF CheckRegister, FailCreate, database, table
  <2>10. CASE CreateCpe(h)
    <3>1. row'.tags = NoTags /\ row.tags = NoTags
      BY <2>10 DEF CreateCpe, Insert, TagsInv
    <3>2. row.id = 0 /\ UNCHANGED <<entry, made, cpe, filler, edits, suspect>>
      BY <2>10 DEF CreateCpe, table
    <3> QED
      BY <3>1, <3>2
  <2>11. CASE MarkRegister(h)
    <3>1. cpe' = [cpe EXCEPT ![handler[h].at] = [@ EXCEPT !.isRegister = TRUE]]
      BY <2>11 DEF MarkRegister
    <3>2. \A e \in Entry : cpe'[e].tags = cpe[e].tags
      BY <2>1, <3>1 DEF TypeOK, CwmpCpe
    <3> QED
      BY <2>11, <3>2 DEF MarkRegister, database, table
  <2>4. CASE UpdateStatus(h)
    <3>1. cpe' = [cpe EXCEPT ![handler[h].at] = [@ EXCEPT !.inform = handler[h].msg]]
      BY <2>4 DEF UpdateStatus, Latest
    <3>2. \A e \in Entry : cpe'[e].tags = cpe[e].tags
      BY <2>1, <3>1 DEF TypeOK, CwmpCpe
    <3> QED
      BY <2>4, <3>2 DEF UpdateStatus, database, table
  <2>5. CASE NotifyDataUpdate(h)
    BY <2>5 DEF NotifyDataUpdate, database, table
  <2>6. CASE OnInformUpdateOnline(h)
    BY <2>2, <2>6 DEF OnInformUpdateOnline, table
  <2>7. CASE OnInformUpdate(h)
    BY <2>2, <2>7 DEF OnInformUpdate, table
  <2>8. CASE Stamp(h)
    <3>1. cpe' = [cpe EXCEPT ![handler[h].at] = [@ EXCEPT !.age = 0]]
      BY <2>8 DEF Stamp
    <3>2. \A e \in Entry : cpe'[e].tags = cpe[e].tags
      BY <2>1, <3>1 DEF TypeOK, CwmpCpe
    <3> QED
      BY <2>8, <3>2 DEF Stamp, database, table
  <2>9. CASE TakeInform(h)
    BY <2>9 DEF TakeInform, database, table
  <2> QED
    BY <2>3, <2>4, <2>5, <2>6, <2>7, <2>8, <2>9, <2>10, <2>11 DEF HandlerStep
<1>2. made <= made'
  BY <1>1, ConstantsAreNat DEF TypeOK
<1> QED
  BY <1>1, <1>2, TagsInvQuiet

\* The fillers' own steps.
LEMMA FillerStepTags ==
    ASSUME TypeOK, TypeOK', TagsInv, NEW f \in Filler, ReadTags(f) \/ StoreTags(f)
    PROVE  TagsInv'
<1>1. CASE ReadTags(f)
  <2>1. /\ \A e \in Entry : cpe'[e].tags = cpe[e].tags
        /\ cpe'[entry'].tags = NoTags /\ row.tags # NoTags
        /\ filler' = [filler EXCEPT ![f] = [pc |-> "store", at |-> entry', tags |-> row.tags,
                                            late |-> FALSE]]
        /\ row' = row /\ made <= made'
    BY <1>1, GetCwmpCpeTags DEF ReadTags, database
  <2>2. filler'[f].tags = row.tags
    BY <2>1 DEF TypeOK
  <2>3. \A g \in Filler \ {f} : filler'[g] = filler[g]
    BY <2>1 DEF TypeOK
  <2>4. \A g \in Filler : filler'[g].pc = "store" =>
          filler'[g].tags # NoTags /\ (filler'[g].late \/ filler'[g].tags = row'.tags)
    <3> SUFFICES ASSUME NEW g \in Filler, filler'[g].pc = "store"
                 PROVE  filler'[g].tags # NoTags /\ (filler'[g].late \/ filler'[g].tags = row'.tags)
      OBVIOUS
    <3>1. CASE g = f
      BY <2>1, <2>2, <3>1
    <3>2. CASE g # f
      <4>1. filler'[g] = filler[g]
        BY <2>3, <3>2
      <4> QED
        BY <2>1, <4>1, Zenon DEF TagsInv
    <3> QED
      BY <3>1, <3>2
  <2>5. \A e \in Entry : e > made' => cpe'[e].tags = NoTags
    <3>1. made \in Nat /\ made' \in Nat /\ made <= made'
      BY <2>1, ConstantsAreNat DEF TypeOK
    <3>2. \A e \in Entry : e \in Nat /\ cpe'[e].tags = cpe[e].tags
      BY <2>1, ConstantsAreNat DEF Entry
    <3> QED
      BY <3>1, <3>2 DEF TagsInv
  <2>6. StaleTagsHaveCause'
    BY <2>1 DEF StaleTagsHaveCause
  <2> QED
    BY <2>1, <2>4, <2>5, <2>6 DEF TagsInv
<1>2. CASE StoreTags(f)
  <2> DEFINE a == filler[f].at
             t == filler[f].tags
  <2>1. /\ filler[f].pc = "store"
        /\ cpe' = [cpe EXCEPT ![a] = [@ EXCEPT !.tags = t]]
        /\ filler' = [filler EXCEPT ![f] = NoFill]
        /\ UNCHANGED <<row, entry, made, edits>>
    BY <1>2 DEF StoreTags, database, table
  <2>2. a \in Entry /\ a <= made /\ made \in Nat
    BY <2>1, ConstantsAreNat DEF TypeOK, Fill
  <2>3. \A e \in Entry : cpe[e] \in CwmpCpe
    BY DEF TypeOK
  <2>4. filler[f].late \/ t = row.tags
    BY <2>1, Zenon DEF TagsInv
  <2>5. suspect' = IF filler[f].late THEN suspect \cup {a} ELSE suspect \ {a}
    BY <1>2 DEF StoreTags
  <2> HIDE DEF a, t
  <2>6. \A e \in Entry : cpe'[e].tags = IF e = a THEN t ELSE cpe[e].tags
    BY <2>1, <2>2, <2>3 DEF TypeOK, CwmpCpe
  <2>7. \A g \in Filler : filler'[g].pc = "store" => filler'[g] = filler[g]
    BY <2>1 DEF TypeOK, NoFill
  <2>8. \A g \in Filler : filler'[g].pc = "store" =>
          filler'[g].tags # NoTags /\ (filler'[g].late \/ filler'[g].tags = row'.tags)
    BY <2>1, <2>7, Zenon DEF TagsInv
  <2>9. \A e \in Entry : e > made' => cpe'[e].tags = NoTags
    BY <2>1, <2>2, <2>6 DEF TagsInv, Entry
  <2>10. StaleTagsHaveCause'
    <3> SUFFICES ASSUME entry # 0, cpe'[entry].tags \notin {NoTags, row.tags}
                 PROVE  edits # {} \/ entry \in suspect'
      BY <2>1 DEF StaleTagsHaveCause
    <3>1. entry \in Entry
      BY ConstantsAreNat DEF TypeOK, Entry
    <3>2. CASE entry = a
      BY <2>4, <2>5, <2>6, <3>1, <3>2
    <3>3. CASE entry # a
      BY <2>5, <2>6, <3>1, <3>3 DEF TagsInv, StaleTagsHaveCause
    <3> QED
      BY <3>2, <3>3
  <2>11. row'.id = 0 => row'.tags = NoTags
    BY <2>1 DEF TagsInv
  <2> QED
    BY <2>8, <2>9, <2>10, <2>11 DEF TagsInv
<1> QED
  BY <1>1, <1>2

\* The operators' steps.
LEMMA OperatorStepTags ==
    ASSUME TypeOK, TypeOK', TagsInv, OperatorStep
    PROVE  TagsInv'
<1>0. /\ entry \in 0..made /\ made \in 0..MaxEntry
      /\ entry # 0 => entry \in Entry
  BY ConstantsAreNat DEF TypeOK, Entry
<1>1. ASSUME NEW t \in Tags \cup {NoTags}, AddCpe(t)
      PROVE  TagsInv'
  <2>1. /\ row.id = 0 /\ row.tags = NoTags
        /\ UNCHANGED <<entry, made, cpe, filler, edits, suspect>>
    BY <1>1 DEF AddCpe, table, TagsInv
  <2>2. row'.id # 0
    <3>1. inserted \in Nat
      <4>1. row.id \in 0..MaxRow /\ inserted \in row.id..MaxRow
        BY DEF TypeOK, Row
      <4> QED
        BY <4>1, ConstantsAreNat
    <3>2. row' = [id |-> inserted + 1, tags |-> t, status |-> "", age |-> Quiet + 1, data |-> 0]
      BY <1>1 DEF AddCpe, Insert
    <3>3. row'.id = inserted + 1
      BY <3>1, <3>2
    <3> QED
      BY <3>1, <3>3
  <2>3. \A f \in Filler : filler[f].pc = "store" => filler[f].tags # NoTags /\ filler[f].late
    BY <2>1, Zenon DEF TagsInv
  <2>4. StaleTagsHaveCause'
    BY <2>1 DEF TagsInv, StaleTagsHaveCause
  <2>5. \A e \in Entry : e > made' => cpe'[e].tags = NoTags
    BY <2>1 DEF TagsInv
  <2>6. \A f \in Filler : filler'[f].pc = "store" =>
          filler'[f].tags # NoTags /\ (filler'[f].late \/ filler'[f].tags = row'.tags)
    BY <2>1, <2>3, Zenon
  <2> QED
    BY <2>2, <2>4, <2>5, <2>6 DEF TagsInv
<1>2. ASSUME NEW o \in Editor, NEW t \in Tags \cup {NoTags}, UpdateCpe(o, t)
      PROVE  TagsInv'
  <2>1. /\ edits' = edits \cup {o} /\ row.id # 0
        /\ UNCHANGED <<entry, made, cpe, suspect>>
    BY <1>2 DEF UpdateCpe, table
  <2>2. StaleTagsHaveCause'
    BY <2>1 DEF StaleTagsHaveCause
  <2>3. \A e \in Entry : e > made' => cpe'[e].tags = NoTags
    BY <2>1 DEF TagsInv
  <2>4. CASE t \in {NoTags, row.tags}
    <3>1. row' = row /\ filler' = filler
      BY <1>2, <2>4 DEF UpdateCpe
    <3> QED
      BY <2>2, <2>3, <3>1 DEF TagsInv
  <2>5. CASE t \notin {NoTags, row.tags}
    <3>1. row' = [row EXCEPT !.tags = t] /\ OvertakeFills
      BY <1>2, <2>5 DEF UpdateCpe
    <3>2. row'.id = row.id
      BY <3>1 DEF TypeOK, Row
    <3>3. \A f \in Filler : filler'[f].pc = "store" => filler'[f].tags # NoTags /\ filler'[f].late
      BY <3>1, OvertakeType, Zenon DEF TagsInv
    <3> QED
      BY <2>1, <2>2, <2>3, <3>2, <3>3, Zenon DEF TagsInv
  <2> QED
    BY <2>4, <2>5
<1>3. ASSUME NEW o \in Editor, ClearCwmpCpeCache(o)
      PROVE  TagsInv'
  <2>1. /\ row' = row /\ filler' = filler
        /\ \A e \in Entry : cpe'[e].tags \in {cpe[e].tags, NoTags}
        /\ made <= made' /\ cpe'[entry'].tags = NoTags
    <3>1. row' = row /\ filler' = filler
      BY <1>3 DEF ClearCwmpCpeCache, database
    <3>2. CASE entry # 0
      <4>1. cpe' = [cpe EXCEPT ![entry] = Uncached(@)] /\ entry' = entry /\ made' = made
        BY <1>3, <3>2 DEF ClearCwmpCpeCache, table
      <4>2. \A e \in Entry : cpe[e] \in CwmpCpe
        BY DEF TypeOK
      <4>3. /\ \A e \in Entry : cpe'[e].tags = IF e = entry THEN NoTags ELSE cpe[e].tags
            /\ made <= made'
        BY <1>0, <3>2, <4>1, <4>2, ConstantsAreNat DEF Uncached, TypeOK, CwmpCpe
      <4> QED
        BY <1>0, <3>1, <3>2, <4>1, <4>3
    <3>3. CASE entry = 0
      <4>1. GetCwmpCpe
        BY <1>3, <3>3 DEF ClearCwmpCpeCache
      <4>2. entry' # 0
        BY <4>1, GetCwmpCpeType, ConstantsAreNat
      <4> QED
        BY <3>1, <3>3, <4>1, <4>2, GetCwmpCpeTags
    <3> QED
      BY <3>2, <3>3
  <2>2. StaleTagsHaveCause'
    BY <2>1 DEF StaleTagsHaveCause
  <2>3. \A e \in Entry : e > made' => cpe'[e].tags = NoTags
    <3>1. made \in Nat /\ made' \in Nat /\ made <= made'
      BY <2>1, ConstantsAreNat DEF TypeOK
    <3>2. \A e \in Entry : e \in Nat /\ cpe'[e].tags \in {cpe[e].tags, NoTags}
      BY <2>1, ConstantsAreNat DEF Entry
    <3>3. \A e \in Entry : e > made => cpe[e].tags = NoTags
      BY DEF TagsInv
    <3> QED
      BY <3>1, <3>2, <3>3
  <2> QED
    BY <2>1, <2>2, <2>3 DEF TagsInv
<1>4. ASSUME NEW d \in Deleter, ClearCwmpCpe(d)
      PROVE  TagsInv'
  <2>1. entry' = 0 /\ UNCHANGED <<row, made, cpe, filler>>
    BY <1>4 DEF ClearCwmpCpe, database
  <2> QED
    BY <1>0, <2>1, TagsInvQuiet, ConstantsAreNat
<1>5. ASSUME NEW d \in Deleter, DeleteCpe(d)
      PROVE  TagsInv'
  <2>1. UNCHANGED <<entry, made, cpe, edits>>
    BY <1>5 DEF DeleteCpe, table
  <2>2. CASE doomed[d] = row.id
    <3>1. row' = NoRow /\ OvertakeFills /\ suspect' = suspect \cup ({entry} \ {0})
      BY <1>5, <2>2 DEF DeleteCpe
    <3>2. row'.tags = NoTags
      BY <3>1, NoRowType
    <3>3. \A f \in Filler : filler'[f].pc = "store" => filler'[f].tags # NoTags /\ filler'[f].late
      BY <3>1, OvertakeType, Zenon DEF TagsInv
    <3>4. StaleTagsHaveCause'
      BY <2>1, <3>1 DEF StaleTagsHaveCause
    <3>5. \A e \in Entry : e > made' => cpe'[e].tags = NoTags
      BY <2>1 DEF TagsInv
    <3> QED
      BY <3>2, <3>3, <3>4, <3>5, Zenon DEF TagsInv
  <2>3. CASE doomed[d] # row.id
    <3>1. UNCHANGED <<row, filler, suspect>>
      BY <1>5, <2>3 DEF DeleteCpe
    <3> QED
      BY <2>1, <3>1 DEF TagsInv, StaleTagsHaveCause
  <2> QED
    BY <2>2, <2>3
<1> QED
  BY <1>1, <1>2, <1>3, <1>4, <1>5 DEF OperatorStep

LEMMA TagsInvStep == TypeOK /\ TypeOK' /\ TagsInv /\ [Next]_vars => TagsInv'
<1> SUFFICES ASSUME TypeOK, TypeOK', TagsInv, [Next]_vars PROVE TagsInv'
  OBVIOUS
<1>0. made \in Nat /\ row \in Row /\ \A e \in Entry : cpe[e] \in CwmpCpe
  BY ConstantsAreNat DEF TypeOK
<1>1. ASSUME NEW h \in Handler, NEW change \in BOOLEAN, Receive(h, change)
      PROVE  TagsInv'
  <2>1. GetCwmpCpe /\ UNCHANGED <<row, filler, edits, suspect>>
    BY <1>1 DEF Receive, database
  <2> QED
    BY <2>1, GetCwmpCpeTags, TagsInvQuiet
<1>2. CASE \E h \in Handler : HandlerStep(h)
  BY <1>2, HandlerStepTags
<1>3. CASE OnParamsUpdate
  <2>1. /\ UNCHANGED <<entry, made, cpe, filler, edits, suspect>>
        /\ row'.tags = row.tags /\ row'.id = row.id
    BY <1>0, <1>3 DEF OnParamsUpdate, table, Online, Row
  <2> QED
    BY <1>0, <2>1, TagsInvQuiet
<1>4. CASE \E f \in Filler : ReadTags(f) \/ StoreTags(f)
  BY <1>4, FillerStepTags
<1>5. CASE OperatorStep
  BY <1>5, OperatorStepTags
<1>6. CASE SchedUpdateBatchCwmpStatus
  <2>1. /\ UNCHANGED <<entry, made, cpe, filler, edits, suspect>>
        /\ row'.tags = row.tags /\ row'.id = row.id
    BY <1>0, <1>6 DEF SchedUpdateBatchCwmpStatus, table, Row
  <2> QED
    BY <1>0, <2>1, TagsInvQuiet
<1>7. CASE Tick
  <2>1. /\ UNCHANGED <<entry, made, filler, edits, suspect>>
        /\ row'.tags = row.tags /\ row'.id = row.id
    BY <1>0, <1>7 DEF Tick, table, Row
  <2>2. \A e \in Entry : cpe'[e].tags = cpe[e].tags
    BY <1>0, <1>7 DEF Tick, CwmpCpe
  <2> QED
    BY <1>0, <2>1, <2>2, TagsInvQuiet
<1>8. CASE Crash
  <2>1. entry' = 0 /\ UNCHANGED <<row, made, cpe>>
    BY <1>8 DEF Crash, database
  <2>2. \A f \in Filler : filler'[f].pc = "idle"
    BY <1>8 DEF Crash, NoFill
  <2> QED
    BY <1>0, <2>1, <2>2, TagsInvQuiet
<1>9. CASE UNCHANGED vars
  <2>1. UNCHANGED <<row, entry, made, cpe, filler, edits, suspect>>
    BY <1>9 DEF vars
  <2> QED
    BY <1>0, <2>1, TagsInvQuiet
<1> QED
  BY <1>1, <1>2, <1>3, <1>4, <1>5, <1>6, <1>7, <1>8, <1>9 DEF Next

\* Tags that are not those of the row stay cached only where an update has yet to
\* clear them or a reader or a deletion overlapped the change.
THEOREM StaleTagsAreExplained == Spec => []StaleTagsHaveCause
<1>1. Init => TagsInv
  <2> SUFFICES ASSUME Init PROVE TagsInv
    OBVIOUS
  <2>1. row.tags = NoTags /\ entry = 0
    BY NoRowType DEF Init
  <2>2. /\ \A f \in Filler : filler[f].pc = "idle"
        /\ \A e \in Entry : cpe[e].tags = NoTags
    BY DEF Init, NoFill, Unused
  <2> QED
    BY <2>1, <2>2 DEF TagsInv, StaleTagsHaveCause
<1>2. TagsInv => StaleTagsHaveCause
  BY DEF TagsInv
<1> QED
  BY <1>1, <1>2, TagsInvStep, TypeCorrect, PTL DEF Spec

-----------------------------------------------------------------------------
(* The data of the row.                                                    *)

Runs(h) == handler[h].pc # "idle"

\* The goroutine has stored its Inform in its entry.
Stored(h) == handler[h].pc \in {"notify", "online", "read", "write", "stamp"}

Timely(h, m) == m \in handler[h].beside \/ m >= handler[h].msg

\* A goroutine began beside every running one with an earlier Inform; so whatever
\* another one stores in its entry meanwhile is timely for it.
DataInv ==
    /\ \A h \in Handler : Runs(h) => handler[h].msg <= informs
    /\ \A g, h \in Handler : (Runs(g) /\ Runs(h) /\ handler[g].msg < handler[h].msg)
            => handler[g].msg \in handler[h].beside
    /\ \A h \in Handler : Stored(h) => Timely(h, cpe[handler[h].at].inform)
    /\ \A h \in Handler : handler[h].pc = "write" => Timely(h, handler[h].snap)

\* The goroutine ends, or goes on with the same Inform; what it is about to write
\* it had already, or has just read from its entry.
Follows(h) ==
    \/ handler'[h].pc = "idle"
    \/ /\ Runs(h)
       /\ handler'[h].msg = handler[h].msg
       /\ handler'[h].beside = handler[h].beside
       /\ handler'[h].at = handler[h].at
       /\ Stored(h)' => Stored(h)
       /\ handler'[h].pc = "write" =>
            \/ Stored(h) /\ handler'[h].snap = cpe[handler[h].at].inform
            \/ handler[h].pc = "write" /\ handler'[h].snap = handler[h].snap

LEMMA DataInvFollows ==
    ASSUME TypeOK, TypeOK', DataInv, \A h \in Handler : Follows(h), informs <= informs',
           \A e \in Entry : cpe'[e].inform = cpe[e].inform
    PROVE  DataInv'
<1>0. \A h \in Handler : /\ handler[h].msg \in Nat /\ handler'[h].msg \in Nat
                         /\ Runs(h) => handler[h].at \in Entry
      /\ informs \in Nat /\ informs' \in Nat
  BY ConstantsAreNat DEF TypeOK, Thread, Inform, Runs
<1>1. \A h \in Handler : Runs(h)' => /\ Runs(h)
                                     /\ handler'[h].msg = handler[h].msg
                                     /\ handler'[h].beside = handler[h].beside
                                     /\ handler'[h].at = handler[h].at
  BY DEF Follows, Runs
<1>2. \A h \in Handler : Runs(h)' => handler'[h].msg <= informs'
  BY <1>0, <1>1 DEF DataInv
<1>3. \A g, h \in Handler : (Runs(g)' /\ Runs(h)' /\ handler'[g].msg < handler'[h].msg)
        => handler'[g].msg \in handler'[h].beside
  BY <1>1 DEF DataInv
<1>4. \A h \in Handler : Stored(h)' => Timely(h, cpe[handler[h].at].inform)' 
  <2> SUFFICES ASSUME NEW h \in Handler, Stored(h)'
               PROVE  Timely(h, cpe[handler[h].at].inform)'
    OBVIOUS
  <2>1. Runs(h)' /\ Stored(h)
    BY DEF Stored, Runs, Follows
  <2>2. cpe'[handler'[h].at].inform = cpe[handler[h].at].inform
    BY <1>0, <1>1, <2>1
  <2>3. Timely(h, cpe[handler[h].at].inform)
    BY <2>1 DEF DataInv
  <2> QED
    BY <1>1, <2>1, <2>2, <2>3 DEF Timely
<1>5. \A h \in Handler : handler'[h].pc = "write" => Timely(h, handler[h].snap)'
  <2> SUFFICES ASSUME NEW h \in Handler, handler'[h].pc = "write"
               PROVE  Timely(h, handler[h].snap)'
    OBVIOUS
  <2>1. \/ Stored(h) /\ handler'[h].snap = cpe[handler[h].at].inform
        \/ handler[h].pc = "write" /\ handler'[h].snap = handler[h].snap
    BY DEF Follows
  <2>2. Timely(h, handler'[h].snap)
    BY <2>1 DEF DataInv
  <2>3. Runs(h)'
    BY DEF Runs
  <2> QED
    BY <1>1, <2>2, <2>3 DEF Timely
<1> QED
  BY <1>2, <1>3, <1>4, <1>5 DEF DataInv

\* A step of one goroutine, by a change that Follows allows.
LEMMA OneFollows ==
    ASSUME TypeOK, NEW h \in Handler, Runs(h), NEW x \in Thread,
           handler' = [handler EXCEPT ![h] = x], Follows(h)
    PROVE  \A g \in Handler : Follows(g)
<1> SUFFICES ASSUME NEW g \in Handler, g # h PROVE Follows(g)
  OBVIOUS
<1>1. handler'[g] = handler[g]
  BY DEF TypeOK
<1> QED
  BY <1>1 DEF Follows, Runs, Stored

LEMMA StillFollows ==
    ASSUME \A h \in Handler : handler'[h] = handler[h]
    PROVE  \A h \in Handler : Follows(h)
BY DEF Follows, Runs, Stored

LEMMA GotoFollows ==
    ASSUME TypeOK, NEW h \in Handler, Runs(h),
           NEW pc \in {"insert", "mark", "status", "online", "read", "stamp"}, Goto(h, pc),
           pc \in {"online", "read", "stamp"} => Stored(h)
    PROVE  \A g \in Handler : Follows(g)
<1> DEFINE x == [handler[h] EXCEPT !.pc = pc]
<1>1. handler[h] \in Thread
  BY DEF TypeOK
<1>2. x \in Thread /\ x.pc = pc /\ x.msg = handler[h].msg /\ x.at = handler[h].at
      /\ x.beside = handler[h].beside
  BY <1>1 DEF Thread
<1>3. handler' = [handler EXCEPT ![h] = x] /\ handler'[h] = x
  BY DEF Goto, TypeOK
<1> HIDE DEF x
<1>4. Follows(h)
  BY <1>2, <1>3 DEF Follows, Stored, Runs
<1> QED
  BY <1>2, <1>3, <1>4, OneFollows

LEMMA TakeInformFollows ==
    ASSUME TypeOK, NEW h \in Handler, TakeInform(h)
    PROVE  \A g \in Handler : Follows(g)
<1> DEFINE m == cpe[handler[h].at].inform
           x == [handler[h] EXCEPT !.pc = "write", !.snap = m]
<1>1. handler[h] \in Thread /\ handler[h].at \in Entry /\ Runs(h) /\ Stored(h)
  BY DEF TypeOK, Thread, Stored, Runs, TakeInform
<1>2. m \in Inform
  BY <1>1 DEF TypeOK, CwmpCpe
<1>3. handler' = [handler EXCEPT ![h] = x] /\ handler'[h] = x
  BY DEF TakeInform, TypeOK
<1> HIDE DEF m
<1>4. x \in Thread /\ x.pc = "write" /\ x.msg = handler[h].msg /\ x.at = handler[h].at
      /\ x.beside = handler[h].beside /\ x.snap = m
  BY <1>1, <1>2 DEF Thread
<1> HIDE DEF x
<1>5. Follows(h)
  BY <1>1, <1>3, <1>4 DEF Follows, m
<1> QED
  BY <1>1, <1>3, <1>4, <1>5, OneFollows

LEMMA RoundOverFollows ==
    ASSUME TypeOK, NEW h \in Handler, Stored(h), RoundOver(h)
    PROVE  \A g \in Handler : Follows(g)
<1>1. CASE handler[h].again
  <2> DEFINE x == [handler[h] EXCEPT !.pc = "read", !.again = FALSE]
  <2>1. handler[h] \in Thread /\ Runs(h)
    BY DEF TypeOK, Stored, Runs
  <2>2. handler' = [handler EXCEPT ![h] = x] /\ handler'[h] = x
    BY <1>1 DEF RoundOver, TypeOK
  <2>3. x \in Thread /\ x.pc = "read" /\ x.msg = handler[h].msg /\ x.at = handler[h].at
        /\ x.beside = handler[h].beside
    BY <2>1 DEF Thread
  <2> HIDE DEF x
  <2>4. Follows(h)
    BY <2>1, <2>2, <2>3 DEF Follows
  <2> QED
    BY <2>1, <2>2, <2>3, <2>4, OneFollows
<1>2. CASE ~handler[h].again
  <2>1. handler' = [handler EXCEPT ![h] = Idle] /\ handler'[h] = Idle
    BY <1>2 DEF RoundOver, TypeOK
  <2>2. Idle \in Thread /\ Idle.pc = "idle"
    BY ConstantsAreNat DEF Idle, Thread, Inform
  <2>3. Follows(h) /\ Runs(h)
    BY <2>1, <2>2 DEF Follows, Stored, Runs
  <2> QED
    BY <2>1, <2>2, <2>3, OneFollows
<1> QED
  BY <1>1, <1>2

LEMMA GetCwmpCpeInforms ==
    ASSUME TypeOK, GetCwmpCpe
    PROVE  \A e \in Entry : cpe'[e].inform = cpe[e].inform
<1>1. CASE entry # 0
  BY <1>1 DEF GetCwmpCpe
<1>2. CASE entry = 0
  <2> DEFINE b == row.id # 0
  <2>1. /\ made < MaxEntry
        /\ cpe' = [cpe EXCEPT ![made + 1] = [@ EXCEPT !.isRegister = b]]
    BY <1>2 DEF GetCwmpCpe
  <2>2. cpe[made + 1] \in CwmpCpe /\ b \in BOOLEAN
    BY <2>1, ConstantsAreNat DEF TypeOK, Entry
  <2> HIDE DEF b
  <2>3. [cpe[made + 1] EXCEPT !.isRegister = b].inform = cpe[made + 1].inform
    BY <2>2 DEF CwmpCpe
  <2> QED
    BY <2>1, <2>3 DEF TypeOK
<1> QED
  BY <1>1, <1>2

LEMMA ReceiveData ==
    ASSUME TypeOK, TypeOK', DataInv, NEW h \in Handler, NEW change \in BOOLEAN, Receive(h, change)
    PROVE  DataInv'
<1> DEFINE x == [pc |-> "register", at |-> entry', msg |-> informs + 1, snap |-> 0,
                 again |-> change, calm |-> ~Deleting, beside |-> Running]
<1>1. /\ x.pc = "register" /\ x.msg = informs + 1 /\ x.beside = Running
      /\ handler' = [handler EXCEPT ![h] = x]
      /\ informs' = informs + 1
  BY DEF Receive
<1> HIDE DEF x
<1>2. handler'[h] = x /\ \A g \in Handler \ {h} : handler'[g] = handler[g]
  BY <1>1 DEF TypeOK
<1>3. \A e \in Entry : cpe'[e].inform = cpe[e].inform
  BY GetCwmpCpeInforms DEF Receive
<1>4. informs \in Nat /\ \A g \in Handler : handler[g].msg \in Nat
  BY ConstantsAreNat DEF TypeOK, Thread, Inform
<1>5. \A g \in Handler : Runs(g)' => handler'[g].msg <= informs'
  BY <1>1, <1>2, <1>4 DEF DataInv, Runs
<1>6. \A g, k \in Handler : (Runs(g)' /\ Runs(k)' /\ handler'[g].msg < handler'[k].msg)
        => handler'[g].msg \in handler'[k].beside
  <2> SUFFICES ASSUME NEW g \in Handler, NEW k \in Handler, Runs(g)', Runs(k)',
                      handler'[g].msg < handler'[k].msg
               PROVE  handler'[g].msg \in handler'[k].beside
    OBVIOUS
  <2>1. CASE g = h
    <3>1. handler'[k].msg <= informs + 1 /\ handler'[g].msg = informs + 1
      BY <1>1, <1>2, <1>5, <2>1
    <3>2. handler'[k].msg \in Nat
      BY <1>1, <1>2, <1>4
    <3> QED
      BY <1>4, <3>1, <3>2
  <2>2. CASE g # h
    <3>1. handler'[g] = handler[g] /\ Runs(g)
      BY <1>2, <2>2 DEF Runs
    <3>2. CASE k = h
      <4>1. handler[g].msg \in Running
        BY <3>1 DEF Running, Runs
      <4> QED
        BY <1>1, <1>2, <3>1, <3>2, <4>1
    <3>3. CASE k # h
      <4>1. handler'[k] = handler[k] /\ Runs(k)
        BY <1>2, <3>3 DEF Runs
      <4> QED
        BY <3>1, <4>1 DEF DataInv
    <3> QED
      BY <3>2, <3>3
  <2> QED
    BY <2>1, <2>2
<1>7. \A g \in Handler : Stored(g)' => /\ g # h /\ handler'[g] = handler[g] /\ Stored(g)
                                       /\ handler[g].at \in Entry
  BY <1>1, <1>2 DEF Stored, TypeOK, Thread
<1>8. \A g \in Handler : Stored(g)' => Timely(g, cpe[handler[g].at].inform)'
  <2> SUFFICES ASSUME NEW g \in Handler, Stored(g)'
               PROVE  Timely(g, cpe[handler[g].at].inform)'
    OBVIOUS
  <2>1. handler'[g] = handler[g] /\ cpe'[handler'[g].at].inform = cpe[handler[g].at].inform
    BY <1>3, <1>7
  <2>2. Timely(g, cpe[handler[g].at].inform)
    BY <1>7 DEF DataInv
  <2> QED
    BY <2>1, <2>2 DEF Timely
<1>9. \A g \in Handler : handler'[g].pc = "write" => Timely(g, handler[g].snap)'
  <2> SUFFICES ASSUME NEW g \in Handler, handler'[g].pc = "write"
               PROVE  Timely(g, handler[g].snap)'
    OBVIOUS
  <2>1. handler'[g] = handler[g]
    BY <1>7 DEF Stored
  <2>2. Timely(g, handler[g].snap)
    BY <2>1 DEF DataInv
  <2> QED
    BY <2>1, <2>2 DEF Timely
<1> QED
  BY <1>5, <1>6, <1>8, <1>9 DEF DataInv

LEMMA UpdateStatusData ==
    ASSUME TypeOK, TypeOK', DataInv, NEW h \in Handler, UpdateStatus(h)
    PROVE  DataInv'
<1> DEFINE a == handler[h].at
           n == handler[h].msg
           x == [handler[h] EXCEPT !.pc = "notify"]
<1>1. /\ handler[h].pc = "status" /\ informs' = informs
      /\ handler' = [handler EXCEPT ![h] = x]
      /\ cpe' = [cpe EXCEPT ![a] = [@ EXCEPT !.inform = n]]
  BY DEF UpdateStatus, Goto, Latest
<1>2. handler[h] \in Thread /\ a \in Entry /\ cpe[a] \in CwmpCpe
  BY <1>1 DEF TypeOK, Thread
<1>3. x.pc = "notify" /\ x.msg = n /\ x.at = a /\ x.beside = handler[h].beside
  BY <1>2 DEF Thread
<1>4. \A g \in Handler : handler[g].msg \in Nat
  BY ConstantsAreNat DEF TypeOK, Thread, Inform
<1> HIDE DEF a, n, x
<1>5. \A e \in Entry : cpe'[e].inform = IF e = a THEN n ELSE cpe[e].inform
  BY <1>1, <1>2 DEF TypeOK, CwmpCpe
<1>6. \A g \in Handler : /\ handler'[g].msg = handler[g].msg
                         /\ handler'[g].at = handler[g].at
                         /\ handler'[g].beside = handler[g].beside
                         /\ g # h => handler'[g] = handler[g]
  BY <1>1, <1>3 DEF TypeOK, n, a
<1>7. \A g \in Handler : Runs(g)' => Runs(g)
  BY <1>1, <1>6 DEF Runs
<1>8. \A g \in Handler : Stored(g)' => Timely(g, cpe[handler[g].at].inform)'
  <2> SUFFICES ASSUME NEW g \in Handler, Stored(g)'
               PROVE  Timely(g, cpe[handler[g].at].inform)'
    OBVIOUS
  <2>1. Runs(g) /\ Runs(h) /\ handler[g].at \in Entry
    <3>1. Runs(g) /\ Runs(h)
      BY <1>1, <1>7 DEF Stored, Runs
    <3> QED
      BY <3>1 DEF Runs, TypeOK, Thread
  <2>2. CASE handler[g].at = a
    <3>1. Timely(g, n)
      <4>1. CASE n < handler[g].msg
        BY <2>1, <4>1 DEF DataInv, Timely, n
      <4>2. CASE ~(n < handler[g].msg)
        BY <1>4, <4>2 DEF Timely, n
      <4> QED
        BY <4>1, <4>2
    <3>2. cpe'[handler'[g].at].inform = n
      BY <1>5, <1>6, <2>1, <2>2
    <3> QED
      BY <1>6, <3>1, <3>2 DEF Timely
  <2>3. CASE handler[g].at # a
    <3>1. g # h
      BY <2>3 DEF a
    <3>2. handler'[g] = handler[g] /\ Stored(g)
      BY <1>6, <3>1 DEF Stored
    <3>3. cpe'[handler'[g].at].inform = cpe[handler[g].at].inform
      BY <1>5, <2>1, <2>3, <3>2
    <3>4. Timely(g, cpe[handler[g].at].inform)
      BY <3>2 DEF DataInv
    <3> QED
      BY <3>2, <3>3, <3>4 DEF Timely
  <2> QED
    BY <2>2, <2>3
<1>9. \A g \in Handler : handler'[g].pc = "write" => Timely(g, handler[g].snap)'
  <2> SUFFICES ASSUME NEW g \in Handler, handler'[g].pc = "write"
               PROVE  Timely(g, handler[g].snap)'
    OBVIOUS
  <2>1. handler'[h].pc = "notify"
    BY <1>1, <1>3 DEF TypeOK
  <2>2. handler'[g] = handler[g]
    BY <1>6, <2>1
  <2>3. Timely(g, handler[g].snap)
    BY <2>2 DEF DataInv
  <2> QED
    BY <2>2, <2>3 DEF Timely
<1>10. \A g \in Handler : Runs(g)' => handler'[g].msg <= informs'
  BY <1>1, <1>6, <1>7 DEF DataInv
<1>11. \A g, k \in Handler : (Runs(g)' /\ Runs(k)' /\ handler'[g].msg < handler'[k].msg)
        => handler'[g].msg \in handler'[k].beside
  BY <1>6, <1>7 DEF DataInv
<1> QED
  BY <1>8, <1>9, <1>10, <1>11 DEF DataInv

LEMMA DataInvStep == TypeOK /\ TypeOK' /\ DataInv /\ [Next]_vars => DataInv'
<1> SUFFICES ASSUME TypeOK, TypeOK', DataInv, [Next]_vars PROVE DataInv'
  OBVIOUS
<1>0. informs \in Nat /\ informs <= informs
      /\ \A e \in Entry : cpe[e] \in CwmpCpe
  BY ConstantsAreNat DEF TypeOK, Inform
<1>1. ASSUME NEW h \in Handler, NEW change \in BOOLEAN, Receive(h, change)
      PROVE  DataInv'
  BY <1>1, ReceiveData
<1>2. ASSUME NEW h \in Handler, HandlerStep(h)
      PROVE  DataInv'
  <2>1. CASE CheckRegister(h) \/ CreateCpe(h)
    <3>1. /\ Runs(h) /\ informs' = informs /\ cpe' = cpe
          /\ Goto(h, "insert") \/ Goto(h, "mark") \/ Goto(h, "status")
      BY <2>1 DEF CheckRegister, CreateCpe, Runs
    <3>2. \A g \in Handler : Follows(g)
      BY <3>1, GotoFollows
    <3> QED
      BY <1>0, <3>1, <3>2, DataInvFollows
  <2>8. CASE FailCreate(h)
    <3>1. informs' = informs /\ cpe' = cpe
      BY <2>8 DEF FailCreate
    <3>2. Follows(h)
      BY <2>8, FailCreateNew DEF Follows, Stored, Runs
    <3>3. ASSUME NEW g \in Handler \ {h} PROVE Follows(g)
      BY <2>8, <3>3, FailCreateNew DEF Follows, Stored, Runs
    <3> QED
      BY <1>0, <3>1, <3>2, <3>3, DataInvFollows
  <2>9. CASE MarkRegister(h)
    <3>1. /\ Runs(h) /\ Goto(h, "status") /\ informs' = informs
          /\ cpe' = [cpe EXCEPT ![handler[h].at] = [@ EXCEPT !.isRegister = TRUE]]
      BY <2>9 DEF MarkRegister, Runs
    <3>2. \A e \in Entry : cpe'[e].inform = cpe[e].inform
      BY <1>0, <3>1 DEF TypeOK, CwmpCpe
    <3>3. \A g \in Handler : Follows(g)
      BY <3>1, GotoFollows
    <3> QED
      BY <1>0, <3>1, <3>2, <3>3, DataInvFollows
  <2>2. CASE UpdateStatus(h)
    BY <2>2, UpdateStatusData
  <2>3. CASE NotifyDataUpdate(h)
    <3>1. /\ Stored(h) /\ Runs(h) /\ informs' = informs /\ cpe' = cpe
          /\ Goto(h, "read") \/ Goto(h, "online")
      BY <2>3 DEF NotifyDataUpdate, Stored, Runs
    <3>2. \A g \in Handler : Follows(g)
      BY <3>1, GotoFollows
    <3> QED
      BY <1>0, <3>1, <3>2, DataInvFollows
  <2>4. CASE OnInformUpdateOnline(h)
    <3>1. Stored(h) /\ RoundOver(h) /\ informs' = informs /\ cpe' = cpe
      BY <2>4 DEF OnInformUpdateOnline, Stored
    <3>2. \A g \in Handler : Follows(g)
      BY <3>1, RoundOverFollows
    <3> QED
      BY <1>0, <3>1, <3>2, DataInvFollows
  <2>5. CASE OnInformUpdate(h)
    <3>1. Stored(h) /\ Runs(h) /\ Goto(h, "stamp") /\ informs' = informs /\ cpe' = cpe
      BY <2>5 DEF OnInformUpdate, Stored, Runs
    <3>2. \A g \in Handler : Follows(g)
      BY <3>1, GotoFollows
    <3> QED
      BY <1>0, <3>1, <3>2, DataInvFollows
  <2>6. CASE Stamp(h)
    <3>1. /\ Stored(h) /\ RoundOver(h) /\ informs' = informs
          /\ cpe' = [cpe EXCEPT ![handler[h].at] = [@ EXCEPT !.age = 0]]
      BY <2>6 DEF Stamp, Stored
    <3>2. \A e \in Entry : cpe'[e].inform = cpe[e].inform
      BY <1>0, <3>1 DEF TypeOK, CwmpCpe
    <3>3. \A g \in Handler : Follows(g)
      BY <3>1, RoundOverFollows
    <3> QED
      BY <1>0, <3>1, <3>2, <3>3, DataInvFollows
  <2>7. CASE TakeInform(h)
    <3>1. informs' = informs /\ cpe' = cpe
      BY <2>7 DEF TakeInform
    <3> QED
      BY <1>0, <2>7, <3>1, TakeInformFollows, DataInvFollows
  <2> QED
    BY <1>2, <2>1, <2>2, <2>3, <2>4, <2>5, <2>6, <2>7, <2>8, <2>9 DEF HandlerStep
<1>3. CASE OnParamsUpdate
  <2>1. informs <= informs' /\ cpe' = cpe /\ handler' = handler
    BY <1>0, <1>3 DEF OnParamsUpdate
  <2> QED
    BY <2>1, StillFollows, DataInvFollows
<1>4. ASSUME NEW f \in Filler, ReadTags(f) \/ StoreTags(f)
      PROVE  DataInv'
  <2>1. \A e \in Entry : cpe'[e].inform = cpe[e].inform
    <3>1. CASE ReadTags(f)
      BY <3>1, GetCwmpCpeInforms DEF ReadTags
    <3>2. CASE StoreTags(f)
      <4>1. cpe' = [cpe EXCEPT ![filler[f].at] = [@ EXCEPT !.tags = filler[f].tags]]
        BY <3>2 DEF StoreTags
      <4> QED
        BY <1>0, <4>1 DEF TypeOK, CwmpCpe
    <3> QED
      BY <1>4, <3>1, <3>2
  <2>2. informs' = informs /\ handler' = handler
    BY <1>4 DEF ReadTags, StoreTags
  <2> QED
    BY <1>0, <2>1, <2>2, StillFollows, DataInvFollows
<1>5. CASE OperatorStep
  <2>1. ASSUME NEW t \in Tags \cup {NoTags}, AddCpe(t)
        PROVE  DataInv'
    <3>1. informs' = informs /\ cpe' = cpe /\ handler' = handler
      BY <2>1 DEF AddCpe
    <3> QED
      BY <1>0, <3>1, StillFollows, DataInvFollows
  <2>2. ASSUME NEW o \in Editor, NEW t \in Tags \cup {NoTags}, UpdateCpe(o, t)
        PROVE  DataInv'
    <3>1. informs' = informs /\ cpe' = cpe /\ handler' = handler
      BY <2>2 DEF UpdateCpe
    <3> QED
      BY <1>0, <3>1, StillFollows, DataInvFollows
  <2>3. ASSUME NEW o \in Editor, ClearCwmpCpeCache(o)
        PROVE  DataInv'
    <3>1. informs' = informs /\ handler' = handler
      BY <2>3 DEF ClearCwmpCpeCache
    <3>2. \A e \in Entry : cpe'[e].inform = cpe[e].inform
      <4>1. CASE entry # 0
        <5>1. cpe' = [cpe EXCEPT ![entry] = Uncached(@)]
          BY <2>3, <4>1 DEF ClearCwmpCpeCache
        <5> QED
          BY <1>0, <5>1 DEF Uncached, TypeOK, CwmpCpe
      <4>2. CASE entry = 0
        BY <2>3, <4>2, GetCwmpCpeInforms DEF ClearCwmpCpeCache
      <4> QED
        BY <4>1, <4>2
    <3> QED
      BY <1>0, <3>1, <3>2, StillFollows, DataInvFollows
  <2>4. ASSUME NEW d \in Deleter, ClearCwmpCpe(d)
        PROVE  DataInv'
    <3>1. /\ informs' = informs /\ cpe' = cpe
          /\ \A h \in Handler : /\ handler'[h] = [handler[h] EXCEPT !.calm = FALSE]
                                /\ handler[h] \in Thread
      BY <2>4 DEF ClearCwmpCpe, TypeOK
    <3>2. \A h \in Handler : /\ handler'[h].pc = handler[h].pc
                             /\ handler'[h].msg = handler[h].msg
                             /\ handler'[h].beside = handler[h].beside
                             /\ handler'[h].at = handler[h].at
                             /\ handler'[h].snap = handler[h].snap
      BY <3>1 DEF Thread
    <3>3. \A h \in Handler : Follows(h)
      BY <3>2 DEF Follows, Runs, Stored
    <3> QED
      BY <1>0, <3>1, <3>3, DataInvFollows
  <2>5. ASSUME NEW d \in Deleter, DeleteCpe(d)
        PROVE  DataInv'
    <3>1. informs' = informs /\ cpe' = cpe /\ handler' = handler
      BY <2>5 DEF DeleteCpe
    <3> QED
      BY <1>0, <3>1, StillFollows, DataInvFollows
  <2> QED
    BY <1>5, <2>1, <2>2, <2>3, <2>4, <2>5 DEF OperatorStep
<1>6. CASE SchedUpdateBatchCwmpStatus
  <2>1. informs' = informs /\ cpe' = cpe /\ handler' = handler
    BY <1>6 DEF SchedUpdateBatchCwmpStatus
  <2> QED
    BY <1>0, <2>1, StillFollows, DataInvFollows
<1>7. CASE Tick
  <2>1. informs' = informs /\ handler' = handler
    BY <1>7 DEF Tick
  <2>2. \A e \in Entry : cpe'[e].inform = cpe[e].inform
    BY <1>0, <1>7 DEF Tick, CwmpCpe
  <2> QED
    BY <1>0, <2>1, <2>2, StillFollows, DataInvFollows
<1>8. CASE Crash
  <2>1. informs' = informs /\ cpe' = cpe /\ \A h \in Handler : handler'[h].pc = "idle"
    BY <1>8 DEF Crash, Idle
  <2>2. \A h \in Handler : Follows(h)
    BY <2>1 DEF Follows
  <2> QED
    BY <1>0, <2>1, <2>2, DataInvFollows
<1>9. CASE UNCHANGED vars
  <2>1. informs' = informs /\ cpe' = cpe /\ handler' = handler
    BY <1>9 DEF vars
  <2> QED
    BY <1>0, <2>1, StillFollows, DataInvFollows
<1> QED
  BY <1>1, <1>2, <1>3, <1>4, <1>5, <1>6, <1>7, <1>8, <1>9 DEF Next

\* However many Informs of a device are handled at once, the row never goes back to
\* one whose handling was over.
THEOREM DataStaysTimely == Spec => DataIsNotOld
<1>1. Init => DataInv
  <2> SUFFICES ASSUME Init PROVE DataInv
    OBVIOUS
  <2>1. \A h \in Handler : handler[h].pc = "idle"
    BY DEF Init, Idle
  <2> QED
    BY <2>1 DEF DataInv, Runs, Stored
<1>2. ASSUME TypeOK, DataInv, NEW h \in Handler, OnInformUpdate(h), row.id # 0
      PROVE  row'.data \in handler[h].beside \/ row'.data >= handler[h].msg
  <2>1. handler[h].pc = "write" /\ Online(handler[h].snap)
    BY <1>2 DEF OnInformUpdate
  <2>2. row'.data = handler[h].snap
    BY <1>2, <2>1 DEF Online, TypeOK, Row
  <2> QED
    BY <1>2, <2>1, <2>2 DEF DataInv, Timely
<1>3. TypeOK /\ DataInv /\ [Next]_vars =>
        [\A h \in Handler : (OnInformUpdate(h) /\ row.id # 0) =>
             row'.data \in handler[h].beside \/ row'.data >= handler[h].msg]_vars
  BY <1>2
<1> QED
  BY <1>1, <1>3, DataInvStep, TypeCorrect, PTL DEF Spec, DataIsNotOld

-----------------------------------------------------------------------------
(* Informs that go on without a row.                                       *)

Past(h) == handler[h].pc \notin {"idle", "register", "insert"}

\* A goroutine is calm as long as nobody deletes; one that is past CheckRegister has a row,
\* or an entry that says so.
RegisterInv ==
    /\ \A h \in Handler : handler[h].calm => ~Deleting
    /\ \A h \in Handler : (PastRegister(h) /\ row.id = 0)
            => ~AutoRegister \/ cpe[handler[h].at].isRegister

\* No entry says so, and none is about to, before the first INSERT.
FirstInv ==
    /\ \A e \in Entry : cpe[e].isRegister => inserted # 0
    /\ \A h \in Handler : handler[h].pc = "mark" => inserted # 0

\* A goroutine that stays calm keeps its entry, and does not get past CheckRegister.
Stays(h) ==
    handler'[h].calm => /\ handler[h].calm
                        /\ handler'[h].at = handler[h].at
                        /\ (Past(h)' => Past(h))

LEMMA RegisterQuiet ==
    ASSUME TypeOK, RegisterInv, Deleting' => Deleting,
           \A h \in Handler : Stays(h) \/ (handler'[h].pc = "register" /\ (handler'[h].calm => ~Deleting)),
           row'.id = 0 => row.id = 0,
           \A e \in 1..made : cpe[e].isRegister => cpe'[e].isRegister
    PROVE  RegisterInv'
<1>1. \A h \in Handler : handler'[h].calm => ~Deleting'
  BY DEF RegisterInv, Stays
<1>2. ASSUME NEW h \in Handler, handler'[h].calm, Past(h)',
             row'.id = 0, AutoRegister
      PROVE  cpe'[handler'[h].at].isRegister
  <2>1. handler[h].calm /\ handler'[h].at = handler[h].at /\ Past(h) /\ row.id = 0
    BY <1>2 DEF Stays, Past
  <2>2. cpe[handler[h].at].isRegister
    BY <1>2, <2>1 DEF RegisterInv, PastRegister, Past
  <2>3. handler[h].at \in 1..made
    BY <2>1, ConstantsAreNat DEF TypeOK, Thread, Entry, Past
  <2> QED
    BY <2>1, <2>2, <2>3
<1> QED
  BY <1>1, <1>2 DEF RegisterInv, PastRegister, Past

LEMMA GetCwmpCpeFlags ==
    ASSUME TypeOK, GetCwmpCpe
    PROVE  \A e \in 1..made : cpe'[e].isRegister = cpe[e].isRegister
<1>1. CASE entry # 0
  BY <1>1 DEF GetCwmpCpe
<1>2. CASE entry = 0
  <2>1. made \in Nat /\ cpe' = [cpe EXCEPT ![made + 1] = [@ EXCEPT !.isRegister = row.id # 0]]
    BY <1>2, ConstantsAreNat DEF GetCwmpCpe, TypeOK
  <2>2. ASSUME NEW e \in 1..made PROVE e \in Entry /\ e # made + 1
    BY <2>1, ConstantsAreNat DEF TypeOK, Entry
  <2> QED
    BY <2>1, <2>2 DEF TypeOK
<1> QED
  BY <1>1, <1>2

LEMMA InsertId ==
    ASSUME TypeOK, NEW t, NEW data, Insert(t, data)
    PROVE  row'.id # 0
<1>1. row.id \in 0..MaxRow /\ inserted \in row.id..MaxRow
  BY DEF TypeOK, Row
<1>2. inserted \in Nat
  BY <1>1, ConstantsAreNat
<1>3. row'.id = inserted + 1
  BY DEF Insert
<1> QED
  BY <1>2, <1>3

\* The steps of a goroutine past CheckRegister.
LEMMA HandlerStays ==
    ASSUME TypeOK, NEW h \in Handler,
           \/ \E pc : Goto(h, pc) /\ Past(h)
           \/ RoundOver(h) /\ Past(h)
           \/ TakeInform(h)
    PROVE  \A g \in Handler : Stays(g)
<1>1. handler[h] \in Thread /\ handler \in [Handler -> Thread]
  BY DEF TypeOK
<1>2. ASSUME NEW new, handler' = [handler EXCEPT ![h] = new], Past(h),
             new.calm => handler[h].calm /\ new.at = handler[h].at
      PROVE  \A g \in Handler : Stays(g)
  BY <1>1, <1>2 DEF Stays, Past
<1>3. ASSUME NEW pc, Goto(h, pc), Past(h) PROVE \A g \in Handler : Stays(g)
  <2> DEFINE new == [handler[h] EXCEPT !.pc = pc]
  <2>1. handler' = [handler EXCEPT ![h] = new] /\ new.calm = handler[h].calm
        /\ new.at = handler[h].at
    BY <1>1, <1>3 DEF Goto, Thread
  <2> HIDE DEF new
  <2> QED
    BY <1>2, <1>3, <2>1
<1>4. CASE RoundOver(h) /\ Past(h)
  <2>1. CASE handler[h].again
    <3> DEFINE new == [handler[h] EXCEPT !.pc = "read", !.again = FALSE]
    <3>1. handler' = [handler EXCEPT ![h] = new] /\ new.calm = handler[h].calm
          /\ new.at = handler[h].at
      BY <1>1, <1>4, <2>1 DEF RoundOver, Thread
    <3> HIDE DEF new
    <3> QED
      BY <1>2, <1>4, <3>1
  <2>2. CASE ~handler[h].again
    <3>1. handler' = [handler EXCEPT ![h] = Idle] /\ ~Idle.calm
      BY <1>4, <2>2 DEF RoundOver, Idle
    <3> QED
      BY <1>2, <1>4, <3>1
  <2> QED
    BY <2>1, <2>2
<1>5. CASE TakeInform(h)
  <2> DEFINE x == cpe[handler[h].at].inform
             new == [handler[h] EXCEPT !.pc = "write", !.snap = x]
  <2>1. handler' = [handler EXCEPT ![h] = new] /\ handler[h].pc = "read"
    BY <1>5 DEF TakeInform
  <2> HIDE DEF x
  <2>2. new.calm = handler[h].calm /\ new.at = handler[h].at
    BY <1>1 DEF Thread
  <2> HIDE DEF new
  <2> QED
    BY <1>2, <2>1, <2>2 DEF Past
<1> QED
  BY <1>3, <1>4, <1>5

LEMMA CheckRegisterStep ==
    ASSUME TypeOK, RegisterInv, NEW h \in Handler, CheckRegister(h)
    PROVE  RegisterInv'
<1> DEFINE e == handler[h].at
           pc == IF Unregistered(h) THEN "insert" ELSE "status"
           new == [handler[h] EXCEPT !.pc = pc]
<1>1. /\ handler[h] \in Thread /\ handler \in [Handler -> Thread]
      /\ row' = row /\ cpe' = cpe /\ doomed' = doomed
  BY DEF TypeOK, CheckRegister, database
<1>2. pc = "insert" \/ (pc = "status" /\ (~AutoRegister \/ cpe[e].isRegister))
  BY DEF Unregistered
<1>3. handler' = [handler EXCEPT ![h] = new]
  BY DEF CheckRegister, Goto
<1> HIDE DEF pc
<1>4. new.pc = pc /\ new.calm = handler[h].calm /\ new.at = e
  BY <1>1 DEF Thread
<1> HIDE DEF new
<1>5. \A g \in Handler : handler'[g].calm = handler[g].calm /\ handler'[g].at = handler[g].at
                         /\ (g # h => handler'[g].pc = handler[g].pc)
  BY <1>1, <1>3, <1>4
<1>6. handler'[h].pc = pc
  BY <1>1, <1>3, <1>4
<1>7. \A g \in Handler : handler'[g].calm => ~Deleting'
  BY <1>1, <1>5 DEF RegisterInv, Deleting
<1>8. ASSUME NEW g \in Handler, PastRegister(g)', row'.id = 0, AutoRegister
      PROVE  cpe'[handler'[g].at].isRegister
  <2>1. CASE g = h
    BY <1>1, <1>2, <1>5, <1>6, <1>8, <2>1 DEF PastRegister
  <2>2. CASE g # h
    BY <1>1, <1>5, <1>8, <2>2 DEF RegisterInv, PastRegister
  <2> QED
    BY <2>1, <2>2
<1> QED
  BY <1>7, <1>8 DEF RegisterInv

LEMMA CreateCpeStep ==
    ASSUME TypeOK, RegisterInv, NEW h \in Handler, CreateCpe(h)
    PROVE  RegisterInv'
<1> DEFINE new == [handler[h] EXCEPT !.pc = "mark"]
<1>1. /\ handler[h] \in Thread /\ handler \in [Handler -> Thread] /\ doomed' = doomed
      /\ handler' = [handler EXCEPT ![h] = new] /\ Insert(NoTags, handler[h].msg)
  BY DEF TypeOK, CreateCpe, Goto
<1>2. new.calm = handler[h].calm
  BY <1>1 DEF Thread
<1> HIDE DEF new
<1>3. \A g \in Handler : handler'[g].calm => ~Deleting'
  BY <1>1, <1>2 DEF RegisterInv, Deleting
<1>4. row'.id # 0
  BY <1>1, InsertId
<1> QED
  BY <1>3, <1>4 DEF RegisterInv

LEMMA FailCreateStep ==
    ASSUME TypeOK, RegisterInv, NEW h \in Handler, FailCreate(h)
    PROVE  RegisterInv'
<1>1. row' = row /\ cpe' = cpe /\ doomed' = doomed
  BY DEF FailCreate, database
<1>2. \A g \in Handler : /\ handler'[g].calm => handler[g].calm
                         /\ handler'[g].at = handler[g].at
  BY FailCreateNew
<1>3. \A g \in Handler : handler'[g].calm => ~Deleting'
  BY <1>1, <1>2 DEF RegisterInv, Deleting
<1>4. ASSUME NEW g \in Handler, PastRegister(g)', row'.id = 0, AutoRegister
      PROVE  cpe'[handler'[g].at].isRegister
  <2>1. g # h
    BY <1>1, <1>4, FailCreateNew DEF PastRegister
  <2>2. handler'[g] = handler[g]
    BY <2>1, FailCreateNew
  <2> QED
    BY <1>1, <1>4, <2>2 DEF RegisterInv, PastRegister
<1> QED
  BY <1>3, <1>4 DEF RegisterInv

LEMMA HandlerStepRegister ==
    ASSUME TypeOK, RegisterInv, NEW h \in Handler, HandlerStep(h)
    PROVE  RegisterInv'
<1>1. CASE CheckRegister(h) \/ CreateCpe(h) \/ FailCreate(h)
  BY <1>1, CheckRegisterStep, CreateCpeStep, FailCreateStep
<1>2. CASE ~(CheckRegister(h) \/ CreateCpe(h) \/ FailCreate(h))
  <2>1. \A g \in Handler : Stays(g)
    BY <1>2, HandlerStays DEF HandlerStep, MarkRegister, UpdateStatus, NotifyDataUpdate, OnInformUpdateOnline,
                              OnInformUpdate, Stamp, Past
  <2>2. row'.id = row.id
    <3>1. \A data : Online(data) => row'.id = row.id
      BY DEF Online, TypeOK, Row
    <3> QED
      BY <1>2, <3>1 DEF HandlerStep, MarkRegister, UpdateStatus, NotifyDataUpdate, OnInformUpdateOnline,
                        OnInformUpdate, TakeInform, Stamp, database
  <2>3. \A e \in 1..made : cpe[e].isRegister => cpe'[e].isRegister
    <3>1. \A e \in 1..made : e \in Entry /\ cpe[e] \in CwmpCpe
      BY ConstantsAreNat DEF TypeOK, Entry
    <3>2. CASE UpdateStatus(h)
      <4>1. cpe' = [cpe EXCEPT ![handler[h].at] = [@ EXCEPT !.inform = handler[h].msg]]
        BY <3>2 DEF UpdateStatus, Latest
      <4> QED
        BY <3>1, <4>1 DEF TypeOK, CwmpCpe
    <3>3. CASE Stamp(h)
      <4>1. cpe' = [cpe EXCEPT ![handler[h].at] = [@ EXCEPT !.age = 0]]
        BY <3>3 DEF Stamp
      <4> QED
        BY <3>1, <4>1 DEF TypeOK, CwmpCpe
    <3>5. CASE MarkRegister(h)
      <4>1. cpe' = [cpe EXCEPT ![handler[h].at] = [@ EXCEPT !.isRegister = TRUE]]
        BY <3>5 DEF MarkRegister
      <4> QED
        BY <3>1, <4>1 DEF TypeOK, CwmpCpe
    <3>4. CASE ~UpdateStatus(h) /\ ~Stamp(h) /\ ~MarkRegister(h)
      BY <1>2, <3>4 DEF HandlerStep, NotifyDataUpdate, OnInformUpdateOnline, OnInformUpdate, TakeInform
    <3> QED
      BY <3>2, <3>3, <3>4, <3>5
  <2>4. doomed' = doomed
    BY <1>2 DEF HandlerStep, MarkRegister, UpdateStatus, NotifyDataUpdate, OnInformUpdateOnline,
                OnInformUpdate, TakeInform, Stamp
  <2> QED
    BY <2>1, <2>2, <2>3, <2>4, RegisterQuiet DEF Deleting
<1> QED
  BY <1>1, <1>2

LEMMA RegisterStep == TypeOK /\ RegisterInv /\ [Next]_vars => RegisterInv'
<1> SUFFICES ASSUME TypeOK, RegisterInv, [Next]_vars PROVE RegisterInv'
  OBVIOUS
<1>0. \A h \in Handler : handler'[h] = handler[h] => Stays(h)
  BY DEF Stays, Past
<1>1. ASSUME NEW h \in Handler, NEW change \in BOOLEAN, Receive(h, change)
      PROVE  RegisterInv'
  <2>1. /\ GetCwmpCpe /\ row' = row /\ doomed' = doomed
        /\ \A g \in Handler : \/ handler'[g] = handler[g]
                              \/ handler'[g].pc = "register" /\ handler'[g].calm = ~Deleting
    BY <1>1 DEF Receive, database, TypeOK
  <2>2. \A e \in 1..made : cpe'[e].isRegister = cpe[e].isRegister
    BY <2>1, GetCwmpCpeFlags
  <2>3. \A g \in Handler :
            Stays(g) \/ (handler'[g].pc = "register" /\ (handler'[g].calm => ~Deleting))
    BY <1>0, <2>1
  <2> QED
    BY <2>1, <2>2, <2>3, RegisterQuiet DEF Deleting
<1>2. CASE \E h \in Handler : HandlerStep(h)
  BY <1>2, HandlerStepRegister
<1>3. ASSUME handler' = handler, doomed' = doomed, row'.id = row.id,
             \A e \in 1..made : cpe'[e].isRegister = cpe[e].isRegister
      PROVE  RegisterInv'
  BY <1>0, <1>3, RegisterQuiet DEF Deleting
<1>4. CASE OnParamsUpdate
  <2>1. row'.id = row.id /\ UNCHANGED <<cpe, handler, doomed>>
    BY <1>4 DEF OnParamsUpdate, Online, TypeOK, Row
  <2> QED
    BY <1>3, <2>1
<1>5. ASSUME NEW f \in Filler, ReadTags(f) \/ StoreTags(f)
      PROVE  RegisterInv'
  <2>1. row' = row /\ UNCHANGED <<handler, doomed>>
    BY <1>5 DEF ReadTags, StoreTags, database
  <2>2. \A e \in 1..made : cpe'[e].isRegister = cpe[e].isRegister
    <3>1. CASE ReadTags(f)
      BY <3>1, GetCwmpCpeFlags DEF ReadTags
    <3>2. CASE StoreTags(f)
      <4>1. cpe' = [cpe EXCEPT ![filler[f].at] = [@ EXCEPT !.tags = filler[f].tags]]
        BY <3>2 DEF StoreTags
      <4>2. \A e \in 1..made : e \in Entry /\ cpe[e] \in CwmpCpe
        BY ConstantsAreNat DEF TypeOK, Entry
      <4> QED
        BY <4>1, <4>2 DEF TypeOK, CwmpCpe
    <3> QED
      BY <1>5, <3>1, <3>2
  <2> QED
    BY <1>3, <2>1, <2>2
<1>6. ASSUME NEW t \in Tags \cup {NoTags}, AddCpe(t)
      PROVE  RegisterInv'
  <2>1. row'.id # 0 /\ UNCHANGED <<cpe, handler, doomed>>
    BY <1>6, InsertId DEF AddCpe
  <2> QED
    BY <1>0, <2>1, RegisterQuiet DEF Deleting
<1>7. ASSUME NEW q \in Editor, NEW t \in Tags \cup {NoTags}, UpdateCpe(q, t)
      PROVE  RegisterInv'
  <2>1. row'.id = row.id /\ UNCHANGED <<cpe, handler, doomed>>
    BY <1>7 DEF UpdateCpe, TypeOK, Row
  <2> QED
    BY <1>3, <2>1
<1>8. ASSUME NEW q \in Editor, ClearCwmpCpeCache(q)
      PROVE  RegisterInv'
  <2>1. row' = row /\ UNCHANGED <<handler, doomed>>
    BY <1>8 DEF ClearCwmpCpeCache, database
  <2>2. \A e \in 1..made : cpe'[e].isRegister = cpe[e].isRegister
    <3>1. CASE entry # 0
      <4>1. cpe' = [cpe EXCEPT ![entry] = [@ EXCEPT !.tags = NoTags]]
        BY <1>8, <3>1 DEF ClearCwmpCpeCache, Uncached
      <4>2. \A e \in 1..made : e \in Entry /\ cpe[e] \in CwmpCpe
        BY ConstantsAreNat DEF TypeOK, Entry
      <4> QED
        BY <4>1, <4>2 DEF TypeOK, CwmpCpe
    <3>2. CASE entry = 0
      BY <1>8, <3>2, GetCwmpCpeFlags DEF ClearCwmpCpeCache
    <3> QED
      BY <3>1, <3>2
  <2> QED
    BY <1>3, <2>1, <2>2
<1>9. ASSUME NEW d \in Deleter, ClearCwmpCpe(d)
      PROVE  RegisterInv'
  <2>1. \A h \in Handler : ~handler'[h].calm
    <3>1. \A h \in Handler : handler'[h] = [handler[h] EXCEPT !.calm = FALSE]
      BY <1>9 DEF ClearCwmpCpe
    <3> QED
      BY <3>1 DEF TypeOK, Thread
  <2> QED
    BY <2>1 DEF RegisterInv, PastRegister
<1>10. ASSUME NEW d \in Deleter, DeleteCpe(d)
      PROVE  RegisterInv'
  <2>1. Deleting /\ handler' = handler
    BY <1>10 DEF DeleteCpe, Deleting
  <2> QED
    BY <2>1 DEF RegisterInv, PastRegister
<1>11. CASE SchedUpdateBatchCwmpStatus
  <2>1. row'.id = row.id /\ UNCHANGED <<cpe, handler, doomed>>
    BY <1>11 DEF SchedUpdateBatchCwmpStatus, TypeOK, Row
  <2> QED
    BY <1>3, <2>1
<1>12. CASE Tick
  <2>1. row'.id = row.id /\ UNCHANGED <<handler, doomed>>
    BY <1>12 DEF Tick, TypeOK, Row
  <2>2. \A e \in 1..made : cpe'[e].isRegister = cpe[e].isRegister
    <3>1. \A e \in 1..made : e \in Entry /\ cpe[e] \in CwmpCpe
      BY ConstantsAreNat DEF TypeOK, Entry
    <3>2. \A e \in Entry : cpe'[e] = [cpe[e] EXCEPT !.age = Older(@)]
      BY <1>12 DEF Tick
    <3> QED
      BY <3>1, <3>2 DEF CwmpCpe
  <2> QED
    BY <1>3, <2>1, <2>2
<1>13. CASE Crash
  <2>1. \A h \in Handler : ~handler'[h].calm
    BY <1>13 DEF Crash, Idle
  <2> QED
    BY <2>1 DEF RegisterInv, PastRegister
<1>14. CASE UNCHANGED vars
  BY <1>3, <1>14 DEF vars
<1> QED
  BY <1>1, <1>2, <1>4, <1>5, <1>6, <1>7, <1>8, <1>9, <1>10, <1>11, <1>12, <1>13, <1>14
     DEF Next, OperatorStep

\* Ids count the rows inserted.
LEMMA InsertedIds ==
    ASSUME TypeOK
    PROVE  inserted \in Nat /\ row.id \in 0..inserted
<1>1. row.id \in 0..MaxRow /\ inserted \in row.id..MaxRow
  BY DEF TypeOK, Row
<1> QED
  BY <1>1, ConstantsAreNat

LEMMA FirstQuiet ==
    ASSUME TypeOK, FirstInv, inserted' = inserted,
           \A e \in Entry : cpe'[e].isRegister => cpe[e].isRegister \/ inserted # 0,
           \A h \in Handler : handler'[h].pc = "mark" => handler[h].pc = "mark"
    PROVE  FirstInv'
BY DEF FirstInv

\* A new entry is registered only if there is a row.
LEMMA GetCwmpCpeFirst ==
    ASSUME TypeOK, GetCwmpCpe
    PROVE  \A e \in Entry : cpe'[e].isRegister => cpe[e].isRegister \/ inserted # 0
<1> DEFINE b == row.id # 0
<1>1. CASE entry # 0
  BY <1>1 DEF GetCwmpCpe
<1>2. CASE entry = 0
  <2>1. cpe' = [cpe EXCEPT ![made + 1] = [@ EXCEPT !.isRegister = b]]
    BY <1>2 DEF GetCwmpCpe
  <2>2. b => inserted # 0
    BY InsertedIds
  <2>4. b \in BOOLEAN
    OBVIOUS
  <2> HIDE DEF b
  <2>3. ASSUME NEW e \in Entry, cpe'[e].isRegister, ~b PROVE cpe[e].isRegister
    <3>1. cpe[e] \in CwmpCpe /\ b \in BOOLEAN
      BY <2>3, <2>4 DEF TypeOK
    <3>2. [cpe[e] EXCEPT !.isRegister = b].isRegister = b
      BY <3>1 DEF CwmpCpe
    <3> QED
      BY <2>1, <2>3, <3>2 DEF TypeOK
  <2> QED
    BY <2>2, <2>3
<1> QED
  BY <1>1, <1>2

LEMMA HandlerStepFirst ==
    ASSUME TypeOK, FirstInv, NEW h \in Handler, HandlerStep(h)
    PROVE  FirstInv'
<1>1. handler \in [Handler -> Thread] /\ cpe \in [Entry -> CwmpCpe] /\ inserted \in Nat
  BY InsertedIds DEF TypeOK
<1>2. ASSUME NEW pc, Goto(h, pc)
      PROVE  \A g \in Handler : handler'[g].pc = IF g = h THEN pc ELSE handler[g].pc
  BY <1>1, <1>2 DEF Goto, Thread
<1>3. ASSUME RoundOver(h) PROVE \A g \in Handler : handler'[g].pc = "mark" => handler[g].pc = "mark"
  <2>1. CASE handler[h].again
    <3> DEFINE new == [handler[h] EXCEPT !.pc = "read", !.again = FALSE]
    <3>1. handler' = [handler EXCEPT ![h] = new] /\ new.pc = "read"
      BY <1>1, <1>3, <2>1 DEF RoundOver, Thread
    <3> HIDE DEF new
    <3> QED
      BY <1>1, <3>1
  <2>2. CASE ~handler[h].again
    BY <1>1, <1>3, <2>2 DEF RoundOver, Idle
  <2> QED
    BY <2>1, <2>2
<1>4. CASE CheckRegister(h)
  <2>1. Goto(h, "insert") \/ Goto(h, "status")
    BY <1>4 DEF CheckRegister
  <2>2. \A g \in Handler : handler'[g].pc = "mark" => handler[g].pc = "mark"
    BY <1>2, <2>1
  <2> QED
    BY <1>4, <2>2, FirstQuiet DEF CheckRegister, database
<1>5. CASE CreateCpe(h)
  <2>1. inserted' = inserted + 1
    BY <1>5 DEF CreateCpe, Insert
  <2>2. inserted' # 0
    BY <1>1, <2>1
  <2> QED
    BY <2>2 DEF FirstInv
<1>6. CASE FailCreate(h)
  <2>1. \A g \in Handler : handler'[g].pc = "mark" => handler[g].pc = "mark"
    BY <1>6, FailCreateNew
  <2> QED
    BY <1>6, <2>1, FirstQuiet DEF FailCreate, database
<1>7. CASE MarkRegister(h)
  <2>1. inserted # 0 /\ inserted' = inserted
    BY <1>7 DEF MarkRegister, FirstInv, database
  <2> QED
    BY <2>1 DEF FirstInv
<1>8. CASE UpdateStatus(h) \/ Stamp(h)
  <2>1. \A e \in Entry : cpe'[e].isRegister = cpe[e].isRegister
    <3>1. CASE UpdateStatus(h)
      <4>1. cpe' = [cpe EXCEPT ![handler[h].at] = [@ EXCEPT !.inform = handler[h].msg]]
        BY <3>1 DEF UpdateStatus, Latest
      <4> QED
        BY <1>1, <4>1 DEF CwmpCpe
    <3>2. CASE Stamp(h)
      <4>1. cpe' = [cpe EXCEPT ![handler[h].at] = [@ EXCEPT !.age = 0]]
        BY <3>2 DEF Stamp
      <4> QED
        BY <1>1, <4>1 DEF CwmpCpe
    <3> QED
      BY <1>8, <3>1, <3>2
  <2>2. \A g \in Handler : handler'[g].pc = "mark" => handler[g].pc = "mark"
    BY <1>2, <1>3, <1>8 DEF UpdateStatus, Stamp
  <2> QED
    BY <1>8, <2>1, <2>2, FirstQuiet DEF UpdateStatus, Stamp, database
<1>9. CASE NotifyDataUpdate(h) \/ OnInformUpdateOnline(h) \/ OnInformUpdate(h)
  <2>1. RoundOver(h) \/ Goto(h, "read") \/ Goto(h, "online") \/ Goto(h, "stamp")
    BY <1>9 DEF NotifyDataUpdate, OnInformUpdateOnline, OnInformUpdate
  <2>2. \A g \in Handler : handler'[g].pc = "mark" => handler[g].pc = "mark"
    BY <1>2, <1>3, <2>1
  <2> QED
    BY <1>9, <2>2, FirstQuiet DEF NotifyDataUpdate, OnInformUpdateOnline, OnInformUpdate, database
<1>10. CASE TakeInform(h)
  <2> DEFINE x == cpe[handler[h].at].inform
             new == [handler[h] EXCEPT !.pc = "write", !.snap = x]
  <2>1. handler' = [handler EXCEPT ![h] = new]
    BY <1>10 DEF TakeInform
  <2> HIDE DEF x
  <2>2. new.pc = "write"
    BY <1>1 DEF Thread
  <2> HIDE DEF new
  <2>3. \A g \in Handler : handler'[g].pc = "mark" => handler[g].pc = "mark"
    BY <1>1, <2>1, <2>2
  <2> QED
    BY <1>10, <2>3, FirstQuiet DEF TakeInform, database
<1> QED
  BY <1>4, <1>5, <1>6, <1>7, <1>8, <1>9, <1>10 DEF HandlerStep

LEMMA FirstStep == TypeOK /\ FirstInv /\ [Next]_vars => FirstInv'
<1> SUFFICES ASSUME TypeOK, FirstInv, [Next]_vars PROVE FirstInv'
  OBVIOUS
<1>0. handler \in [Handler -> Thread] /\ cpe \in [Entry -> CwmpCpe] /\ inserted \in Nat
  BY InsertedIds DEF TypeOK
<1>1. ASSUME NEW h \in Handler, NEW change \in BOOLEAN, Receive(h, change)
      PROVE  FirstInv'
  <2>1. \A g \in Handler : handler'[g] = handler[g] \/ handler'[g].pc = "register"
    BY <1>0, <1>1 DEF Receive
  <2>2. inserted' = inserted /\ GetCwmpCpe
    BY <1>1 DEF Receive, database
  <2> QED
    BY <2>1, <2>2, GetCwmpCpeFirst, FirstQuiet
<1>2. CASE \E h \in Handler : HandlerStep(h)
  BY <1>2, HandlerStepFirst
<1>3. ASSUME handler' = handler, inserted' = inserted, cpe' = cpe
      PROVE  FirstInv'
  BY <1>3, FirstQuiet
<1>4. CASE OnParamsUpdate \/ SchedUpdateBatchCwmpStatus \/ UNCHANGED vars
  BY <1>3, <1>4 DEF OnParamsUpdate, SchedUpdateBatchCwmpStatus, vars
<1>5. ASSUME NEW f \in Filler, ReadTags(f) \/ StoreTags(f)
      PROVE  FirstInv'
  <2>1. \A e \in Entry : cpe'[e].isRegister => cpe[e].isRegister \/ inserted # 0
    <3>1. CASE ReadTags(f)
      BY <3>1, GetCwmpCpeFirst DEF ReadTags
    <3>2. CASE StoreTags(f)
      <4>1. cpe' = [cpe EXCEPT ![filler[f].at] = [@ EXCEPT !.tags = filler[f].tags]]
        BY <3>2 DEF StoreTags
      <4> QED
        BY <1>0, <4>1 DEF CwmpCpe
    <3> QED
      BY <1>5, <3>1, <3>2
  <2> QED
    BY <1>5, <2>1, FirstQuiet DEF ReadTags, StoreTags, database
<1>6. ASSUME NEW t \in Tags \cup {NoTags}, AddCpe(t)
      PROVE  FirstInv'
  <2>1. inserted' = inserted + 1
    BY <1>6 DEF AddCpe, Insert
  <2> QED
    BY <1>0, <2>1 DEF FirstInv
<1>7. ASSUME NEW q \in Editor, NEW t \in Tags \cup {NoTags}, UpdateCpe(q, t)
      PROVE  FirstInv'
  BY <1>3, <1>7 DEF UpdateCpe
<1>8. ASSUME NEW q \in Editor, ClearCwmpCpeCache(q)
      PROVE  FirstInv'
  <2>1. \A e \in Entry : cpe'[e].isRegister => cpe[e].isRegister \/ inserted # 0
    <3>1. CASE entry # 0
      <4>1. cpe' = [cpe EXCEPT ![entry] = [@ EXCEPT !.tags = NoTags]]
        BY <1>8, <3>1 DEF ClearCwmpCpeCache, Uncached
      <4> QED
        BY <1>0, <4>1 DEF CwmpCpe
    <3>2. CASE entry = 0
      BY <1>8, <3>2, GetCwmpCpeFirst DEF ClearCwmpCpeCache
    <3> QED
      BY <3>1, <3>2
  <2> QED
    BY <1>8, <2>1, FirstQuiet DEF ClearCwmpCpeCache, database
<1>9. ASSUME NEW d \in Deleter, ClearCwmpCpe(d)
      PROVE  FirstInv'
  <2>1. \A h \in Handler : handler'[h].pc = handler[h].pc
    <3>1. \A h \in Handler : handler'[h] = [handler[h] EXCEPT !.calm = FALSE]
      BY <1>9 DEF ClearCwmpCpe
    <3> QED
      BY <1>0, <3>1 DEF Thread
  <2> QED
    BY <1>9, <2>1, FirstQuiet DEF ClearCwmpCpe, database
<1>10. ASSUME NEW d \in Deleter, DeleteCpe(d)
       PROVE  FirstInv'
  BY <1>3, <1>10 DEF DeleteCpe
<1>11. CASE Tick
  <2>1. \A e \in Entry : cpe'[e] = [cpe[e] EXCEPT !.age = Older(@)]
    BY <1>11 DEF Tick
  <2>2. \A e \in Entry : cpe'[e].isRegister = cpe[e].isRegister
    BY <1>0, <2>1 DEF CwmpCpe
  <2> QED
    BY <1>11, <2>2, FirstQuiet DEF Tick
<1>12. CASE Crash
  <2>1. \A h \in Handler : handler'[h].pc # "mark"
    BY <1>12 DEF Crash, Idle
  <2> QED
    BY <1>12, <2>1, FirstQuiet DEF Crash, database
<1> QED
  BY <1>1, <1>2, <1>4, <1>5, <1>6, <1>7, <1>8, <1>9, <1>10, <1>11, <1>12 DEF Next, OperatorStep

\* An Inform that no deletion overlaps goes on without a row, with registration enabled,
\* only where its entry in the table still says that the CPE has one, and there was one.
THEOREM UnregisteredIsExplained == Spec => []UnregisteredHasCause
<1>1. Init => RegisterInv /\ FirstInv
  BY DEF Init, RegisterInv, FirstInv, PastRegister, Idle, Unused
<1>2. TypeOK /\ RegisterInv /\ FirstInv => UnregisteredHasCause
  <2> SUFFICES ASSUME TypeOK, RegisterInv, FirstInv, NEW h \in Handler, PastRegister(h),
                      row.id = 0, AutoRegister
               PROVE  cpe[handler[h].at].isRegister /\ inserted # 0
    BY DEF UnregisteredHasCause
  <2>1. cpe[handler[h].at].isRegister
    BY DEF RegisterInv
  <2>2. handler[h].at \in Entry
    BY ConstantsAreNat DEF TypeOK, Thread, PastRegister
  <2> QED
    BY <2>1, <2>2 DEF FirstInv
<1> QED
  BY <1>1, <1>2, RegisterStep, FirstStep, TypeCorrect, PTL DEF Spec
=============================================================================
