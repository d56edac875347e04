-------------------------- MODULE CwmpDeliveryProofs --------------------------
(***************************************************************************)
(* Nothing of a command gets lost in CwmpSession: the safety half of        *)
(* CommandIsSent, and the books of Delivery, for every set of commands and  *)
(* parts, every capacity of the lanes, every timeout and window and any     *)
(* number of faults.                                                       *)
(***************************************************************************)
EXTENDS CwmpOrderProofs

-----------------------------------------------------------------------------
(* A row is there until its request is sent or it is too old.              *)

LEMMA InsertedMoves ==
    ASSUME TypeOK, AtPart, [Next]_vars, NEW c \in Command, NEW n \in DOMAIN Parts[c],
           Inserted(c, n)', ~Inserted(c, n)
    PROVE  InsertPart(c) /\ n = op[c].n
<1>0. op \in [Command -> Handler] /\ op[c] \in Handler /\ op[c].n \in Nat
      /\ n \in Nat /\ n >= 1 /\ op[c].n <= n /\ op[c].pc # "done"
  BY PartTypes DEF TypeOK, Handler, Inserted
<1>1. op' # op
  BY DEF Inserted
<1>2. ASSUME NEW x \in Command, CommandStep(x)
      PROVE  InsertPart(c) /\ n = op[c].n
  <2>1. op[x] \in Handler
    BY <1>0
  <2>2. CASE Begin(x)
    BY <1>0, <2>1, <2>2 DEF Begin, Handler, Inserted
  <2>3. CASE SendPart(x) \/ GiveUpPart(x)
    <3>1. op' = [op EXCEPT ![x] = [pc |-> "insert", n |-> op[x].n, waited |-> 0]]
      BY <2>3, ToInsertMoves DEF SendPart, GiveUpPart
    <3>2. op'[c].pc # "done" /\ op'[c].n = op[c].n
      BY <1>0, <3>1
    <3> QED
      BY <3>2 DEF Inserted
  <2>4. CASE InsertPart(x)
    <3>1. x = c
      BY <1>0, <2>4 DEF InsertPart, Inserted
    <3>2. \/ op'[c].pc = "done" /\ op[c].n = Len(Parts[c])
          \/ op'[c].pc = "send" /\ op'[c].n = op[c].n + 1
      BY <1>0, <2>4, <3>1 DEF InsertPart, Handler
    <3>3. n <= Len(Parts[c]) /\ Len(Parts[c]) \in Nat
      BY PartTypes
    <3> QED
      BY <1>0, <2>4, <3>1, <3>2, <3>3 DEF Inserted
  <2>5. CASE FailPart(x)
    BY <1>0, <2>1, <2>5 DEF FailPart, Handler, Inserted
  <2> QED
    BY <1>2, <2>2, <2>3, <2>4, <2>5 DEF CommandStep
<1>3. ~Tick
  <2>1. Tick => op'[c].pc = op[c].pc /\ op'[c].n = op[c].n
    BY <1>0 DEF Tick, Handler
  <2> QED
    BY <2>1 DEF Inserted
<1>4. ~Crash
  <2> SUFFICES ASSUME Crash PROVE FALSE
    OBVIOUS
  <2>1. op'[c] = IF op[c].pc \in {"send", "insert"}
                 THEN [op[c] EXCEPT !.pc = "failed", !.waited = 0]
                 ELSE op[c]
    BY DEF Crash
  <2>2. op'[c].n = op[c].n
    BY <1>0, <2>1 DEF Handler
  <2>3. op'[c].pc = "failed" \/ op'[c].pc = op[c].pc
    BY <1>0, <2>1 DEF Handler
  <2> QED
    BY <1>0, <2>2, <2>3 DEF Inserted
<1>5. ~AcsStep /\ ~CpeStep /\ ~UNCHANGED vars
  BY <1>1 DEF AcsStep, InsertDownload, Fetch, AskTask, AskLane, AskNext, NoContent, CpeStep,
         Inform, TransferComplete, EmptyPost, Respond, LoseReply, LoseResponse, server, vars
<1> QED
  BY <1>2, <1>3, <1>4, <1>5 DEF Next

\* What the CPE has received is never forgotten, and a request that is answered is received
\* or noted.
LEMMA GotMoves ==
    ASSUME TypeOK, [Next]_vars, NEW t \in Target
    PROVE  /\ got'[t] \in Int /\ got[t] \in Nat
           /\ got'[t] >= got[t]
           /\ \A m \in Setting : TargetOf(m) = t /\ InHand(m) /\ ~InHand(m)'
                  => got'[t] > 0 \/ t \in cut'
<1>1. got \in [Target -> Nat] /\ session.what \in Request
  BY DEF TypeOK, Session
<1>2. CASE got' = got
  <2>1. ASSUME NEW m \in Setting, TargetOf(m) = t, InHand(m), ~InHand(m)'
        PROVE  t \in cut'
    <3>1. session.pc = "executing" /\ session.what = m /\ m.kind = "Set"
      BY <2>1, Requests DEF InHand
    <3>2. Respond \/ LoseReply \/ LoseResponse
      BY <2>1, HandEnds
    <3>3. ~Do(m)
      <4>1. Do(m) => got' = [got EXCEPT ![t] = @ + 1]
        BY <2>1, <3>1 DEF Do
      <4> QED
        BY <1>1, <1>2, <4>1
    <3>4. LoseReply
      BY <3>1, <3>2, <3>3 DEF Respond, LoseResponse
    <3> QED
      BY <2>1, <3>1, <3>4 DEF LoseReply, Cut
  <2> QED
    BY <1>1, <1>2, <2>1
<1>3. CASE got' # got
  <2>1. Respond \/ LoseResponse
    BY <1>3 DEF Next, CommandStep, Begin, SendPart, GiveUpPart, InsertPart, FailPart,
       AcsStep, InsertDownload, Fetch, AskTask, AskLane, AskNext, NoContent, CpeStep,
       Inform, TransferComplete, EmptyPost, LoseReply, Tick, Crash, observers, vars
  <2> DEFINE r == session.what
  <2>2. r.kind = "Set" /\ got' = [got EXCEPT ![TargetOf(r)] = @ + 1]
    BY <1>3, <2>1 DEF Respond, LoseResponse, Do
  <2>3. TargetOf(r) \in Target
    BY <1>1, <2>2, Requests
  <2>4. got'[t] = got[t] \/ got'[t] = got[t] + 1
    BY <1>1, <2>2, <2>3
  <2>5. TargetOf(r) = t => got'[t] = got[t] + 1
    BY <1>1, <2>2, <2>3
  <2> QED
    BY <1>1, <2>4, <2>5 DEF InHand
<1> QED
  BY <1>2, <1>3

LEMMA InBooks ==
    ASSUME NEW c \in Command, NEW p \in Part
    PROVE  /\ <<c, p>> \in Rows <=> InRows(Set(c, p))
           /\ <<c, p>> \in Messages <=> InLane(Set(c, p))
           /\ <<c, p>> \in Hand <=> InHand(Set(c, p))
<1>1. <<c, p>> \in Target /\ <<c, p>>[1] = c /\ <<c, p>>[2] = p
  BY DEF Target
<1> QED
  BY <1>1 DEF Rows, Messages, Hand, InRows, InLane, Has, InHand

LEMMA NextKept ==
    ASSUME TypeOK, AtPart, KeptUntilSent, [Next]_vars
    PROVE  KeptUntilSent'
<1> SUFFICES ASSUME NEW c \in Command, NEW n \in DOMAIN Parts[c], Inserted(c, n)',
                    <<c, Parts[c][n]>> \notin (cut \cup dropped)',
                    got'[<<c, Parts[c][n]>>] <= 0
             PROVE  <<c, Parts[c][n]>> \in Rows' \cup Hand'
  <2>1. \A c \in Command : \A n \in DOMAIN Parts[c] : got'[<<c, Parts[c][n]>>] \in Int
    BY PartTypes, GotMoves DEF Target
  <2>2. \A c \in Command : \A n \in DOMAIN Parts[c] :
            got'[<<c, Parts[c][n]>>] > 0 \/ got'[<<c, Parts[c][n]>>] <= 0
    BY <2>1
  <2> QED
    BY <2>2, Zenon DEF KeptUntilSent
<1> DEFINE p == Parts[c][n]
           t == <<c, p>>
           m == Set(c, p)
<1>1. p \in Part /\ t \in Target /\ m \in Setting /\ TargetOf(m) = t
  BY PartTypes, Requests DEF Target, Set, TargetOf
<1>2. /\ t \notin cut' /\ t \notin dropped' /\ got'[t] <= 0
      /\ t \notin cut /\ t \notin dropped /\ ~(got[t] > 0)
  <2>1. got'[t] \in Int /\ got[t] \in Nat /\ got'[t] >= got[t] /\ got'[t] <= 0
    BY <1>1, GotMoves
  <2> QED
    BY <2>1, Monotone
<1>3. /\ t \in Rows <=> InRows(m)
      /\ t \in Hand <=> InHand(m)
      /\ t \in Rows' <=> InRows(m)'
      /\ t \in Hand' <=> InHand(m)'
  <2>1. /\ t \in Rows <=> InRows(m)
        /\ t \in Hand <=> InHand(m)
    BY <1>1, InBooks
  <2>2. t[1] = c /\ t[2] = p
    OBVIOUS
  <2>3. t \in Rows' <=> InRows(m)'
    BY <1>1, <2>2 DEF Rows, InRows, Set
  <2>4. t \in Hand' <=> InHand(m)'
    BY <1>1, <2>2 DEF Hand, InHand, Set
  <2> QED
    BY <2>1, <2>3, <2>4
<1>4. CASE ~Inserted(c, n)
  <2>1. InsertPart(c) /\ n = op[c].n
    BY <1>4, InsertedMoves
  <2> DEFINE r == [what |-> Set(c, Current(c)), age |-> -Offset(c)]
  <2>2. rows' = Append(rows, r) /\ r \in Row /\ r.what = m
    BY <2>1, InsertedRow DEF Current
  <2> HIDE DEF r, m
  <2>3. InRows(m)'
    BY <2>2, RowAppended
  <2> QED
    BY <1>3, <2>3
<1>5. CASE Inserted(c, n)
  <2>1. InRows(m) \/ InHand(m)
    BY <1>2, <1>3, <1>5 DEF KeptUntilSent
  <2> HIDE DEF m
  <2>2. CASE InRows(m) /\ ~InRows(m)'
    BY <1>1, <1>2, <1>3, <2>2, RowLeaves
  <2>3. CASE InHand(m) /\ ~InHand(m)'
    BY <1>1, <1>2, <2>3, GotMoves
  <2> QED
    BY <1>3, <2>1, <2>2, <2>3
<1> QED
  BY <1>4, <1>5

LEMMA InitKept == Init => KeptUntilSent
<1> SUFFICES ASSUME Init, NEW c \in Command, NEW n \in DOMAIN Parts[c] PROVE ~Inserted(c, n)
  BY DEF KeptUntilSent
<1>1. op[c].pc = "idle" /\ op[c].n = 1
  BY DEF Init
<1> QED
  BY <1>1, PartTypes DEF Inserted

\* A row goes only to the CPE or to the rows that got too old: no session, restart or
\* failure of another part makes a part of a command vanish unasked.
THEOREM RowsAreKept == Spec => []KeptUntilSent
<1>1. Init => TypeOK /\ AtPart /\ KeptUntilSent
  BY InitType, InitKept
<1>2. TypeOK /\ AtPart /\ KeptUntilSent /\ [Next]_vars
          => TypeOK' /\ AtPart' /\ KeptUntilSent'
  BY NextType, NextKept
<1> QED
  BY <1>1, <1>2, PTL DEF Spec

-----------------------------------------------------------------------------
(* The books of Delivery.                                                  *)

\* The books, part by part.
LEMMA Books ==
    ASSUME NEW t \in Target
    PROVE  \E m \in Setting :
              /\ TargetOf(m) = t
              /\ (t \in Unsent <=> ToSend(m)) /\ (t \in Unsent' <=> ToSend(m)')
              /\ (t \in Due <=> ToRow(m)) /\ (t \in Due' <=> ToRow(m)')
              /\ (t \in Messages <=> InLane(m)) /\ (t \in Messages' <=> InLane(m)')
              /\ (t \in Rows <=> InRows(m)) /\ (t \in Rows' <=> InRows(m)')
              /\ (t \in Hand <=> InHand(m)) /\ (t \in Hand' <=> InHand(m)')
<1> DEFINE m == Set(t[1], t[2])
<1>1. t[1] \in Command /\ t[2] \in Part /\ t = <<t[1], t[2]>>
  BY DEF Target
<1>2. m \in Setting /\ m.cmd = t[1] /\ m.part = t[2] /\ TargetOf(m) = t
  BY <1>1, Requests DEF Set, TargetOf
<1>3. (t \in Unsent <=> ToSend(m)) /\ (t \in Unsent' <=> ToSend(m)')
  BY <1>2 DEF Unsent, ToSend
<1>4. (t \in Due <=> ToRow(m)) /\ (t \in Due' <=> ToRow(m)')
  BY <1>2 DEF Due, ToRow
<1>5. (t \in Messages <=> InLane(m)) /\ (t \in Messages' <=> InLane(m)')
  BY DEF Messages, InLane, Has
<1>6. (t \in Rows <=> InRows(m)) /\ (t \in Rows' <=> InRows(m)')
  BY DEF Rows, InRows
<1>7. (t \in Hand <=> InHand(m)) /\ (t \in Hand' <=> InHand(m)')
  BY DEF Hand, InHand
<1> QED
  BY <1>2, <1>3, <1>4, <1>5, <1>6, <1>7

LEMMA BooksType ==
    /\ Unsent \subseteq Target /\ Due \subseteq Target /\ Messages \subseteq Target
    /\ Rows \subseteq Target /\ Hand \subseteq Target
    /\ Unsent' \subseteq Target /\ Due' \subseteq Target /\ Messages' \subseteq Target
    /\ Rows' \subseteq Target /\ Hand' \subseteq Target
BY DEF Unsent, Due, Messages, Rows, Hand

LEMMA Targets == \A x, y \in Setting : TargetOf(x) = TargetOf(y) => x = y
BY Requests DEF TargetOf

\* What holds of every request holds of the books.
LEMMA Minus ==
    ASSUME NEW S
    PROVE  /\ (\A m \in Setting : ToSend(m)' <=> (ToSend(m) /\ TargetOf(m) \notin S))
                  => Unsent' = Unsent \ S
           /\ (\A m \in Setting : ToRow(m)' <=> (ToRow(m) /\ TargetOf(m) \notin S))
                  => Due' = Due \ S
           /\ (\A m \in Setting : InLane(m)' <=> (InLane(m) /\ TargetOf(m) \notin S))
                  => Messages' = Messages \ S
           /\ (\A m \in Setting : InRows(m)' <=> (InRows(m) /\ TargetOf(m) \notin S))
                  => Rows' = Rows \ S
<1>1. ASSUME \A m \in Setting : ToSend(m)' <=> (ToSend(m) /\ TargetOf(m) \notin S)
      PROVE  Unsent' = Unsent \ S
  <2>1. \A t \in Target : t \in Unsent' <=> (t \in Unsent /\ t \notin S)
    BY <1>1, Books
  <2> QED
    BY <2>1, BooksType
<1>2. ASSUME \A m \in Setting : ToRow(m)' <=> (ToRow(m) /\ TargetOf(m) \notin S)
      PROVE  Due' = Due \ S
  <2>1. \A t \in Target : t \in Due' <=> (t \in Due /\ t \notin S)
    BY <1>2, Books
  <2> QED
    BY <2>1, BooksType
<1>3. ASSUME \A m \in Setting : InLane(m)' <=> (InLane(m) /\ TargetOf(m) \notin S)
      PROVE  Messages' = Messages \ S
  <2>1. \A t \in Target : t \in Messages' <=> (t \in Messages /\ t \notin S)
    BY <1>3, Books
  <2> QED
    BY <2>1, BooksType
<1>4. ASSUME \A m \in Setting : InRows(m)' <=> (InRows(m) /\ TargetOf(m) \notin S)
      PROVE  Rows' = Rows \ S
  <2>1. \A t \in Target : t \in Rows' <=> (t \in Rows /\ t \notin S)
    BY <1>4, Books
  <2> QED
    BY <2>1, BooksType
<1> QED
  BY <1>1, <1>2, <1>3, <1>4

LEMMA Plus ==
    ASSUME NEW x \in Setting
    PROVE  /\ (\A m \in Setting : InLane(m)' <=> (InLane(m) \/ m = x))
                  => Messages' = Messages \cup {TargetOf(x)}
           /\ (\A m \in Setting : InRows(m)' <=> (InRows(m) \/ m = x))
                  => Rows' = Rows \cup {TargetOf(x)}
<1>0. TargetOf(x) \in Target
  BY Requests
<1>1. ASSUME \A m \in Setting : InLane(m)' <=> (InLane(m) \/ m = x)
      PROVE  Messages' = Messages \cup {TargetOf(x)}
  <2>1. \A t \in Target : t \in Messages' <=> (t \in Messages \/ t = TargetOf(x))
    BY <1>1, Books, Targets, Zenon
  <2> QED
    BY <1>0, <2>1, BooksType
<1>2. ASSUME \A m \in Setting : InRows(m)' <=> (InRows(m) \/ m = x)
      PROVE  Rows' = Rows \cup {TargetOf(x)}
  <2>1. \A t \in Target : t \in Rows' <=> (t \in Rows \/ t = TargetOf(x))
    BY <1>2, Books, Targets, Zenon
  <2> QED
    BY <1>0, <2>1, BooksType
<1> QED
  BY <1>1, <1>2

LEMMA Same ==
    /\ UNCHANGED op => UNCHANGED <<Unsent, Due>>
    /\ UNCHANGED lane => UNCHANGED Messages
    /\ UNCHANGED rows => UNCHANGED Rows
    /\ UNCHANGED session => UNCHANGED Hand
BY DEF Unsent, Due, Messages, Rows, Hand

-----------------------------------------------------------------------------
(* Every step is one of Delivery, or none.                                 *)

LEMMA CurrentIs ==
    ASSUME TypeOK, AtPart, NEW c \in Command, op[c].pc \in {"send", "insert"}
    PROVE  Set(c, Current(c)) \in Setting /\ TargetOf(Set(c, Current(c))) \in Target
<1>1. op[c].n \in DOMAIN Parts[c]
  BY DEF AtPart
<1> QED
  BY <1>1, PartTypes, Requests DEF Current

LEMMA BeginBooks ==
    ASSUME TypeOK, AtPart, NEW c \in Command, Begin(c)
    PROVE  UNCHANGED <<Unsent, Due>>
<1>1. /\ op' = [op EXCEPT ![c] = [op[c] EXCEPT !.pc = "send"]] /\ op[c] \in Handler
      /\ op[c].pc = "idle" /\ op[c].n = 1 /\ op \in [Command -> Handler]
  BY DEF Begin, AtPart, TypeOK
<1>2. op'[c].pc = "send" /\ op'[c].n = 1 /\ \A x \in Command : x # c => op'[x] = op[x]
  BY <1>1 DEF Handler
<1>3. \A x \in Command : \A n \in DOMAIN Parts[x] : 1 <= n
  BY PartTypes
<1>4. \A m \in Setting : (ToSend(m)' <=> ToSend(m)) /\ (ToRow(m)' <=> ToRow(m))
  <2> SUFFICES ASSUME NEW m \in Setting
               PROVE  (ToSend(m)' <=> ToSend(m)) /\ (ToRow(m)' <=> ToRow(m))
    OBVIOUS
  <2>1. m.cmd \in Command
    BY Requests
  <2>2. CASE m.cmd = c
    BY <1>1, <1>2, <1>3, <2>2 DEF ToSend, ToRow
  <2>3. CASE m.cmd # c
    BY <1>2, <2>1, <2>3 DEF ToSend, ToRow
  <2> QED
    BY <2>2, <2>3
<1>5. Unsent' = Unsent \ {} /\ Due' = Due \ {}
  BY <1>4, Minus
<1> QED
  BY <1>5

LEMMA ToInsertBooks ==
    ASSUME TypeOK, AtPart, NEW c \in Command, op[c].pc = "send", ToInsert(c)
    PROVE  /\ TargetOf(Set(c, Current(c))) \in Unsent
           /\ Unsent' = Unsent \ {TargetOf(Set(c, Current(c)))}
           /\ Due' = Due
<1> DEFINE x == Set(c, Current(c))
<1>1. /\ op' = [op EXCEPT ![c] = [pc |-> "insert", n |-> op[c].n, waited |-> 0]]
      /\ op \in [Command -> Handler]
  BY ToInsertMoves DEF TypeOK
<1>2. /\ op'[c].pc = "insert" /\ op'[c].n = op[c].n
      /\ \A y \in Command : y # c => op'[y] = op[y]
  BY <1>1
<1>3. x \in Setting /\ TargetOf(x) \in Target
  BY CurrentIs
<1>4. ASSUME NEW m \in Setting
      PROVE  /\ ToSend(m)' <=> (ToSend(m) /\ m # x)
             /\ ToRow(m)' <=> ToRow(m)
  <2>1. CASE m.cmd # c
    <3>1. m.cmd \in Command /\ m # x
      BY <2>1, Requests DEF Set
    <3> QED
      BY <1>2, <2>1, <3>1 DEF ToSend, ToRow
  <2>2. CASE m.cmd = c
    <3>1. /\ op[c].n \in DOMAIN Parts[c] /\ DOMAIN Parts[c] \subseteq Nat
          /\ m = x <=> m.part = Parts[c][op[c].n]
          /\ \A n \in DOMAIN Parts[c] : Parts[c][n] = Parts[c][op[c].n] => n = op[c].n
      BY <2>2, AtCurrent
    <3>2. ToSend(m) <=> \E n \in DOMAIN Parts[c] : Parts[c][n] = m.part /\ op[c].n <= n
      BY <2>2 DEF ToSend
    <3>3. ToSend(m)' <=> \E n \in DOMAIN Parts[c] : Parts[c][n] = m.part /\ op[c].n < n
      BY <1>2, <2>2 DEF ToSend
    <3>4. ToRow(m)' <=> ToRow(m)
      BY <1>2, <2>2 DEF ToRow
    <3>5. \A n \in DOMAIN Parts[c] : op[c].n < n <=> (op[c].n <= n /\ n # op[c].n)
      BY <3>1
    <3>6. ToSend(m)' => ToSend(m) /\ m # x
      BY <3>1, <3>2, <3>3, <3>5
    <3>7. ToSend(m) /\ m # x => ToSend(m)'
      BY <3>1, <3>2, <3>3, <3>5
    <3> QED
      BY <3>4, <3>6, <3>7
  <2> QED
    BY <2>1, <2>2
<1>5. ToSend(x)
  BY <1>3, ToInsertCount
<1> HIDE DEF x
<1>6. TargetOf(x) \in Unsent
  BY <1>3, <1>5, Books, Targets
<1>7. Unsent' = Unsent \ {TargetOf(x)}
  <2>1. \A m \in Setting : ToSend(m)' <=> (ToSend(m) /\ TargetOf(m) \notin {TargetOf(x)})
    BY <1>3, <1>4, Targets
  <2> QED
    BY <2>1, Minus
<1>8. Due' = Due
  <2>1. Due' = Due \ {}
    BY <1>4, Minus
  <2> QED
    BY <2>1
<1> QED
  BY <1>6, <1>7, <1>8 DEF x

LEMMA SendIs ==
    ASSUME TypeOK, AtPart, NEW c \in Command, SendPart(c) \/ GiveUpPart(c)
    PROVE  \E v \in Target : Promise!Send(v)
<1> DEFINE x == Set(c, Current(c))
<1>1. op[c].pc = "send" /\ ToInsert(c) /\ UNCHANGED <<rows, session, got, cut, dropped>>
  BY DEF SendPart, GiveUpPart, observers
<1>2. x \in Setting /\ TargetOf(x) \in Target
  BY <1>1, CurrentIs
<1>3. TargetOf(x) \in Unsent /\ Unsent' = Unsent \ {TargetOf(x)} /\ Due' = Due
  BY <1>1, ToInsertBooks
<1>4. Messages' = Messages \/ Messages' = Messages \cup {TargetOf(x)}
  <2>1. CASE GiveUpPart(c)
    BY <2>1, Same DEF GiveUpPart
  <2>2. CASE SendPart(c)
    <3>1. lane \in [BOOLEAN -> Seq(Request)] /\ lane[TRUE] \in Seq(Request) /\ x \in Request
      BY <1>2, Requests, LaneTypes, Zenon DEF TypeOK
    <3>2. lane'[TRUE] = Append(lane[TRUE], x)
      BY <2>2, <3>1, Zenon DEF SendPart
    <3> HIDE DEF x
    <3>3. \A m \in Setting : InLane(m)' <=> (InLane(m) \/ m = x)
      <4> SUFFICES ASSUME NEW m \in Setting PROVE InLane(m)' <=> (InLane(m) \/ m = x)
        OBVIOUS
      <4>1. Has(Append(lane[TRUE], x), m) <=> Has(lane[TRUE], m) \/ x = m
        BY <3>1, HasAppended, Zenon
      <4>2. InLane(m)' <=> Has(Append(lane[TRUE], x), m)
        BY <3>2, Zenon DEF InLane, Has
      <4> QED
        BY <4>1, <4>2, Zenon DEF InLane
    <3> QED
      BY <1>2, <3>3, Plus
  <2> QED
    BY <2>1, <2>2
<1>5. UNCHANGED <<Rows, Hand, got, cut \cup dropped>>
  BY <1>1, Same
<1> HIDE DEF x
<1> QED
  BY <1>2, <1>3, <1>4, <1>5 DEF Promise!Send

LEMMA InsertIs ==
    ASSUME TypeOK, AtPart, NEW c \in Command, InsertPart(c)
    PROVE  \E v \in Target : Promise!Insert(v)
<1> DEFINE x == Set(c, Current(c))
           r == [what |-> x, age |-> -Offset(c)]
<1>1. /\ op[c].pc = "insert" /\ op[c] \in Handler /\ op \in [Command -> Handler]
      /\ op' = [op EXCEPT ![c] = IF op[c].n = Len(Parts[c])
                                 THEN [op[c] EXCEPT !.pc = "done"]
                                 ELSE [pc |-> "send", n |-> op[c].n + 1, waited |-> 0]]
      /\ UNCHANGED <<lane, session, got, cut, dropped>>
  BY DEF InsertPart, TypeOK
<1>2. /\ \/ op'[c].pc = "done" /\ op[c].n = Len(Parts[c])
         \/ op'[c].pc = "send" /\ op'[c].n = op[c].n + 1
      /\ \A y \in Command : y # c => op'[y] = op[y]
  BY <1>1 DEF Handler
<1>3. x \in Setting /\ TargetOf(x) \in Target
  BY <1>1, CurrentIs
<1>4. ASSUME NEW m \in Setting
      PROVE  /\ ToSend(m)' <=> ToSend(m)
             /\ ToRow(m)' <=> (ToRow(m) /\ m # x)
             /\ m = x => ToRow(m) /\ ~ToSend(m)
  <2>1. CASE m.cmd # c
    <3>1. m.cmd \in Command /\ m # x
      BY <2>1, Requests DEF Set
    <3> QED
      BY <1>2, <2>1, <3>1 DEF ToSend, ToRow
  <2>2. CASE m.cmd = c
    <3>1. /\ op[c].n \in DOMAIN Parts[c] /\ op[c].n \in Nat
          /\ DOMAIN Parts[c] = 1..Len(Parts[c]) /\ Len(Parts[c]) \in Nat
          /\ m = x <=> m.part = Parts[c][op[c].n]
          /\ \A n \in DOMAIN Parts[c] : Parts[c][n] = Parts[c][op[c].n] => n = op[c].n
      BY <1>1, <2>2, AtCurrent, PartTypes
    <3>2. ToSend(m) <=> \E n \in DOMAIN Parts[c] : Parts[c][n] = m.part /\ op[c].n < n
      BY <1>1, <2>2 DEF ToSend
    <3>3. ToRow(m) <=> \E n \in DOMAIN Parts[c] : Parts[c][n] = m.part /\ op[c].n <= n
      BY <1>1, <2>2 DEF ToRow
    <3>4. /\ ToSend(m)' <=> \E n \in DOMAIN Parts[c] : Parts[c][n] = m.part /\ op[c].n < n
          /\ ToRow(m)' <=> \E n \in DOMAIN Parts[c] : Parts[c][n] = m.part /\ op[c].n < n
      <4>1. CASE op'[c].pc = "done" /\ op[c].n = Len(Parts[c])
        <5>1. \A n \in DOMAIN Parts[c] : ~(op[c].n < n)
          BY <3>1, <4>1
        <5> QED
          BY <2>2, <4>1, <5>1 DEF ToSend, ToRow
      <4>2. CASE op'[c].pc = "send" /\ op'[c].n = op[c].n + 1
        <5>1. \A n \in DOMAIN Parts[c] : op'[c].n <= n <=> op[c].n < n
          BY <3>1, <4>2
        <5> QED
          BY <2>2, <4>2, <5>1 DEF ToSend, ToRow
      <4> QED
        BY <1>2, <4>1, <4>2
    <3>5. \A n \in DOMAIN Parts[c] : op[c].n < n <=> (op[c].n <= n /\ n # op[c].n)
      BY <3>1
    <3>6. ToRow(m)' => ToRow(m) /\ m # x
      BY <3>1, <3>3, <3>4, <3>5
    <3>7. ToRow(m) /\ m # x => ToRow(m)'
      BY <3>1, <3>3, <3>4, <3>5
    <3>8. m = x => ToRow(m) /\ ~ToSend(m)
      BY <3>1, <3>2, <3>3, <3>5
    <3> QED
      BY <3>2, <3>4, <3>6, <3>7, <3>8
  <2> QED
    BY <2>1, <2>2
<1>5. rows' = Append(rows, r) /\ r \in Row /\ r.what = x
  BY InsertedRow
<1> HIDE DEF r, x
<1>6. \A m \in Setting : InRows(m)' <=> (InRows(m) \/ m = x)
  BY <1>5, RowAppended
<1>7. TargetOf(x) \in Due \ Unsent
  BY <1>3, <1>4, Books, Targets
<1>8. Unsent' = Unsent
  <2>1. Unsent' = Unsent \ {}
    BY <1>4, Minus
  <2> QED
    BY <2>1
<1>9. Due' = Due \ {TargetOf(x)}
  <2>1. \A m \in Setting : ToRow(m)' <=> (ToRow(m) /\ TargetOf(m) \notin {TargetOf(x)})
    BY <1>3, <1>4, Targets
  <2> QED
    BY <2>1, Minus
<1>10. Rows' = Rows \cup {TargetOf(x)}
  BY <1>3, <1>6, Plus
<1>11. UNCHANGED <<Messages, Hand, got, cut \cup dropped>>
  BY <1>1, Same
<1> QED
  BY <1>3, <1>7, <1>8, <1>9, <1>10, <1>11 DEF Promise!Insert

\* A command that fails, or a restart, ends what some commands were about to make.
LEMMA GivenUp ==
    ASSUME TypeOK, NEW C \in SUBSET Command,
           \A c \in Command : op'[c] = op[c] \/ (c \in C /\ op'[c].pc = "failed"),
           \A c \in C : op'[c].pc = "failed"
    PROVE  /\ C \X Part \in SUBSET Target
           /\ Unsent' = Unsent \ (C \X Part)
           /\ Due' = Due \ (C \X Part)
<1>1. \A m \in Setting : /\ TargetOf(m) \in C \X Part <=> m.cmd \in C
                         /\ m.cmd \in Command
  BY Requests DEF TargetOf
<1>2. \A m \in Setting : ToSend(m)' <=> (ToSend(m) /\ TargetOf(m) \notin C \X Part)
  BY <1>1 DEF ToSend
<1>3. \A m \in Setting : ToRow(m)' <=> (ToRow(m) /\ TargetOf(m) \notin C \X Part)
  BY <1>1 DEF ToRow
<1>4. C \X Part \in SUBSET Target
  BY DEF Target
<1> QED
  BY <1>2, <1>3, <1>4, Minus

LEMMA AbandonIs ==
    ASSUME TypeOK, NEW c \in Command, FailPart(c)
    PROVE  \E parts \in SUBSET Target : Promise!Abandon(parts)
<1>1. op[c] \in Handler /\ op \in [Command -> Handler]
  BY DEF TypeOK
<1>2. op'[c].pc = "failed" /\ \A x \in Command : x # c => op'[x] = op[x]
  BY <1>1 DEF FailPart, Handler
<1>3. /\ {c} \X Part \in SUBSET Target
      /\ Unsent' = Unsent \ ({c} \X Part)
      /\ Due' = Due \ ({c} \X Part)
  BY <1>2, GivenUp
<1>4. UNCHANGED <<Messages, Rows, Hand, got, cut \cup dropped>>
  BY Same DEF FailPart, observers
<1> QED
  BY <1>3, <1>4 DEF Promise!Abandon

LEMMA RestartIs ==
    ASSUME TypeOK, Crash
    PROVE  \E parts \in SUBSET Target : Promise!Restart(parts)
<1> DEFINE C == {c \in Command : op[c].pc \in {"send", "insert"}}
<1>1. \A c \in Command : op[c] \in Handler
  BY DEF TypeOK
<1>2. \A c \in Command : op'[c] = IF op[c].pc \in {"send", "insert"}
                                  THEN [op[c] EXCEPT !.pc = "failed", !.waited = 0]
                                  ELSE op[c]
  BY DEF Crash
<1>3. \A c \in C : op'[c].pc = "failed"
  BY <1>1, <1>2 DEF Handler
<1>4. \A c \in Command : op'[c] = op[c] \/ (c \in C /\ op'[c].pc = "failed")
  BY <1>2, <1>3
<1>5. C \in SUBSET Command
  OBVIOUS
<1> HIDE DEF C
<1>6. /\ C \X Part \in SUBSET Target
      /\ Unsent' = Unsent \ (C \X Part)
      /\ Due' = Due \ (C \X Part)
  BY <1>3, <1>4, <1>5, GivenUp
<1>7. Messages' = {}
  BY EmptyLanes, Books, BooksType
<1>8. Hand' = Hand
  <2>1. session' = session \/ (session.pc = "asking" /\ session'.pc = "closed")
    BY DEF Crash, Closed, State
  <2> QED
    BY <2>1, Same DEF Hand
<1>9. UNCHANGED <<Rows, got, cut \cup dropped>>
  BY Same DEF Crash, cpe, observers
<1> QED
  BY <1>6, <1>7, <1>8, <1>9 DEF Promise!Restart

\* What the CPE has been sent, as the books say it.
LEMMA HandIs ==
    ASSUME TypeOK
    PROVE  /\ session.pc # "executing" => Hand = {}
           /\ session'.pc # "executing" => Hand' = {}
           /\ \A r \in Request : session = Executing(r) \/ (session.pc = "executing" /\ session.what = r)
                  => Hand = IF r \in Setting THEN {TargetOf(r)} ELSE {}
           /\ \A r \in Request : session' = Executing(r)
                  => Hand' = IF r \in Setting THEN {TargetOf(r)} ELSE {}
<1>1. session.pc # "executing" => Hand = {}
  BY DEF Hand
<1>2. session'.pc # "executing" => Hand' = {}
  BY DEF Hand
<1>3. \A r : Executing(r).pc = "executing" /\ Executing(r).what = r
  BY DEF Executing, State
<1>4. ASSUME NEW r \in Request, session.pc = "executing", session.what = r
      PROVE  Hand = IF r \in Setting THEN {TargetOf(r)} ELSE {}
  <2>1. \A m \in Setting : InHand(m) <=> m = r
    BY <1>4 DEF InHand
  <2>2. r \in Setting => TargetOf(r) \in Target
    BY Requests
  <2>3. \A t \in Target : t \in Hand <=> (r \in Setting /\ t = TargetOf(r))
    BY <2>1, Books, Targets
  <2> QED
    BY <2>2, <2>3, BooksType
<1>5. ASSUME NEW r \in Request, session'.pc = "executing", session'.what = r
      PROVE  Hand' = IF r \in Setting THEN {TargetOf(r)} ELSE {}
  <2>1. \A m \in Setting : InHand(m)' <=> m = r
    BY <1>5 DEF InHand
  <2>2. r \in Setting => TargetOf(r) \in Target
    BY Requests
  <2>3. \A t \in Target : t \in Hand' <=> (r \in Setting /\ t = TargetOf(r))
    BY <2>1, Books, Targets
  <2> QED
    BY <2>2, <2>3, BooksType
<1> QED
  BY <1>1, <1>2, <1>3, <1>4, <1>5

LEMMA TakeRowIs ==
    ASSUME TypeOK, AllCounted, AskTask
    PROVE  (\E v \in Target : Promise!TakeRow(v)) \/ UNCHANGED Promise!vars
<1>1. PICK k \in DOMAIN rows : session' = Executing(rows[k].what) /\ rows' = Without(k)
  BY DEF AskTask, Deliver
<1> DEFINE r == rows[k].what
<1>2. r \in Request /\ session.pc # "executing" /\ UNCHANGED <<lane, op, got, cut, dropped>>
  BY RowsType DEF AskTask, observers
<1>3. \A m \in Setting : InRows(m)' <=> (InRows(m) /\ m # r)
  <2> SUFFICES ASSUME NEW m \in Setting PROVE InRows(m)' <=> (InRows(m) /\ m # r)
    OBVIOUS
  <2>1. OnceInRows(m)
    BY DEF AllCounted, Counted, Apart
  <2> QED
    BY <1>1, <2>1, RowTaken, OthersStay
<1>4. Hand = {} /\ Hand' = IF r \in Setting THEN {TargetOf(r)} ELSE {}
  BY <1>1, <1>2, HandIs
<1>5. InRows(r)
  BY DEF InRows
<1> HIDE DEF r
<1>6. UNCHANGED <<Unsent, Due, Messages, got, cut \cup dropped>>
  BY <1>2, Same
<1>7. CASE r \in Setting
  <2>1. Rows' = Rows \ {TargetOf(r)}
    <3>1. \A m \in Setting : InRows(m)' <=> (InRows(m) /\ TargetOf(m) \notin {TargetOf(r)})
      BY <1>3, <1>7, Targets
    <3> QED
      BY <3>1, Minus
  <2>2. TargetOf(r) \in Target /\ TargetOf(r) \in Rows
    BY <1>5, <1>7, Requests, Books, Targets
  <2> QED
    BY <1>4, <1>6, <1>7, <2>1, <2>2 DEF Promise!TakeRow
<1>8. CASE r \notin Setting
  <2>1. \A m \in Setting : InRows(m)' <=> (InRows(m) /\ TargetOf(m) \notin {})
    BY <1>3, <1>8
  <2>2. Rows' = Rows \ {}
    BY <2>1, Minus
  <2> QED
    BY <1>4, <1>6, <1>8, <2>2 DEF Promise!vars
<1> QED
  BY <1>7, <1>8

LEMMA TailHas ==
    ASSUME NEW S, NEW q \in Seq(S), q # <<>>, NEW m, Has(q, m), Head(q) # m
    PROVE  Has(Tail(q), m)
<1>1. /\ Len(q) \in Nat /\ DOMAIN q = 1..Len(q)
      /\ DOMAIN Tail(q) = 1..Len(q) - 1
      /\ \A i \in DOMAIN Tail(q) : Tail(q)[i] = q[i + 1]
      /\ Head(q) = q[1]
  BY HeadTailProperties
<1>2. PICK i \in DOMAIN q : q[i] = m
  BY DEF Has
<1>3. i - 1 \in DOMAIN Tail(q) /\ Tail(q)[i - 1] = m
  BY <1>1, <1>2
<1> QED
  BY <1>3 DEF Has

LEMMA TakeMessageIs ==
    ASSUME TypeOK, AllCounted, AskLane(TRUE)
    PROVE  \E v \in Target : Promise!TakeMessage(v)
<1> DEFINE q == lane[TRUE]
           r == Head(q)
<1>1. q \in Seq(Setting) /\ lane \in [BOOLEAN -> Seq(Request)]
  BY Zenon DEF TypeOK
<1>2. /\ q # <<>> /\ session' = Executing(r) /\ session.pc = "asking"
      /\ lane' = [lane EXCEPT ![TRUE] = Tail(q)]
      /\ UNCHANGED <<rows, op, got, cut, dropped>>
  BY Zenon DEF AskLane, Rest, Deliver, observers
<1>3. lane'[TRUE] = Tail(q)
  BY <1>1, <1>2, Zenon
<1> HIDE DEF q
<1>4. r \in Setting
  BY <1>1, <1>2, TailOf
<1>5. \A m \in Setting : InLane(m)' <=> (InLane(m) /\ m # r)
  <2> SUFFICES ASSUME NEW m \in Setting PROVE InLane(m)' <=> (InLane(m) /\ m # r)
    OBVIOUS
  <2>1. Once(q, m)
    BY DEF AllCounted, Counted, Apart, q
  <2>2. Has(Tail(q), m) => Has(q, m) /\ Head(q) # m
    BY <1>1, <1>2, <2>1, HasTail, Zenon
  <2>3. Has(q, m) /\ Head(q) # m => Has(Tail(q), m)
    BY <1>1, <1>2, TailHas, Zenon
  <2>4. InLane(m)' <=> Has(Tail(q), m)
    BY <1>3, Zenon DEF InLane, Has
  <2> QED
    BY <2>2, <2>3, <2>4, Zenon DEF InLane, q
<1>6. InLane(r)
  BY <1>1, <1>2, HasTail, Zenon DEF InLane, q
<1>7. r \in Request /\ TargetOf(r) \in Target
  BY <1>4, Requests
<1>8. Hand = {} /\ Hand' = {TargetOf(r)}
  BY <1>2, <1>4, <1>7, HandIs
<1>9. TargetOf(r) \in Messages
  BY <1>4, <1>6, <1>7, Books, Targets
<1>10. Messages' = Messages \ {TargetOf(r)}
  <2>1. \A m \in Setting : InLane(m)' <=> (InLane(m) /\ TargetOf(m) \notin {TargetOf(r)})
    BY <1>4, <1>5, Targets
  <2> QED
    BY <2>1, Minus
<1>11. UNCHANGED <<Unsent, Due, Rows, got, cut \cup dropped>>
  BY <1>2, Same
<1> QED
  BY <1>7, <1>8, <1>9, <1>10, <1>11 DEF Promise!TakeMessage

LEMMA LeaveIs ==
    ASSUME TypeOK, Respond \/ LoseReply \/ LoseResponse
    PROVE  (\E v \in Target : Promise!Leave(v)) \/ UNCHANGED Promise!vars
<1> DEFINE r == session.what
<1>1. /\ r \in Request /\ session.pc = "executing" /\ session'.pc # "executing"
      /\ UNCHANGED <<rows, lane, op, dropped>>
  BY DEF TypeOK, Session, Respond, LoseReply, LoseResponse, server, Closed, Asking, State
<1>2. Hand = (IF r \in Setting THEN {TargetOf(r)} ELSE {}) /\ Hand' = {}
  BY <1>1, HandIs
<1>3. UNCHANGED <<Unsent, Due, Messages, Rows>>
  BY <1>1, Same
<1>4. r.kind = "Set" <=> r \in Setting
  BY <1>1, Requests
<1>5. CASE r \in Setting
  <2> DEFINE t == TargetOf(r)
  <2>1. /\ Do(r) => got' = [got EXCEPT ![t] = @ + 1]
        /\ Cut(r) => cut' = cut \cup {t}
    BY <1>4, <1>5 DEF Do, Cut
  <2>2. \/ Do(r) /\ (cut' = cut \/ Cut(r))
        \/ got' = got /\ Cut(r)
    BY DEF Respond, LoseReply, LoseResponse, cpe
  <2>3. t \in Target
    BY <1>5, Requests
  <2> HIDE DEF t
  <2>4. \/ /\ got' = [got EXCEPT ![t] = @ + 1]
           /\ (cut \cup dropped)' \in {cut \cup dropped, (cut \cup dropped) \cup {t}}
        \/ got' = got /\ (cut \cup dropped)' = (cut \cup dropped) \cup {t}
    BY <1>1, <2>1, <2>2
  <2> QED
    BY <1>2, <1>3, <1>5, <2>3, <2>4 DEF Promise!Leave, t
<1>6. CASE r \notin Setting
  <2>1. got' = got
    BY <1>4, <1>6 DEF Respond, LoseReply, LoseResponse, Do, cpe
  <2>2. cut' = cut
    BY <1>4, <1>6 DEF Respond, LoseReply, LoseResponse, Cut
  <2> QED
    BY <1>1, <1>2, <1>3, <1>6, <2>1, <2>2 DEF Promise!vars
<1> QED
  BY <1>5, <1>6

LEMMA ExpireIs ==
    ASSUME TypeOK, AllCounted, Tick
    PROVE  \E parts \in SUBSET Target : Promise!Expire(parts)
<1> DEFINE Old == {j \in DOMAIN rows \ Lasting : rows[j].what.kind = "Set"}
           parts == {TargetOf(rows[i].what) : i \in Old}
<1>1. dropped' = dropped \cup parts
  BY DEF Tick
<1>2. PICK kept \in [DOMAIN rows' -> DOMAIN rows] :
          /\ \A n \in DOMAIN rows' : kept[n] \in Lasting
          /\ \A n \in DOMAIN rows' : rows'[n].what = rows[kept[n]].what
          /\ \A i \in Lasting : \E n \in DOMAIN rows' : kept[n] = i
  BY TickKeeps
<1>3. \A j \in Old : rows[j].what \in Setting /\ j \in DOMAIN rows /\ j \notin Lasting
  BY RowsType, Requests
<1>4. parts \in SUBSET Target
  BY <1>3, Requests
<1>5. ASSUME NEW m \in Setting
      PROVE  InRows(m)' <=> (InRows(m) /\ TargetOf(m) \notin parts)
  <2>1. OnceInRows(m) /\ m.kind = "Set"
    BY Requests DEF AllCounted, Counted, Apart
  <2>2. ASSUME InRows(m)' PROVE InRows(m) /\ TargetOf(m) \notin parts
    <3>1. PICK n \in DOMAIN rows' : rows'[n].what = m
      BY <2>2 DEF InRows
    <3>2. kept[n] \in DOMAIN rows /\ kept[n] \in Lasting /\ rows[kept[n]].what = m
      BY <1>2, <3>1
    <3>3. ASSUME NEW j \in Old, TargetOf(rows[j].what) = TargetOf(m) PROVE FALSE
      <4>1. rows[j].what = m /\ j \in DOMAIN rows /\ j \notin Lasting
        BY <1>3, <3>3, Targets
      <4>2. j = kept[n]
        BY <2>1, <3>2, <4>1 DEF OnceInRows
      <4> QED
        BY <3>2, <4>1, <4>2
    <3> QED
      BY <3>2, <3>3 DEF InRows
  <2>3. ASSUME InRows(m), TargetOf(m) \notin parts PROVE InRows(m)'
    <3>1. PICK j \in DOMAIN rows : rows[j].what = m
      BY <2>3 DEF InRows
    <3>2. j \notin Old
      BY <2>3, <3>1
    <3>3. j \in Lasting
      BY <2>1, <3>1, <3>2
    <3> QED
      BY <1>2, <3>1, <3>3 DEF InRows
  <2> QED
    BY <2>2, <2>3
<1>6. Unsent' = Unsent /\ Due' = Due
  <2>1. \A c \in Command : op[c] \in Handler
    BY DEF TypeOK
  <2>2. \A c \in Command : op'[c].pc = op[c].pc /\ op'[c].n = op[c].n
    BY <2>1 DEF Tick, Handler
  <2>3. \A m \in Setting : (ToSend(m)' <=> ToSend(m)) /\ (ToRow(m)' <=> ToRow(m))
    BY <2>2, Requests DEF ToSend, ToRow
  <2>4. Unsent' = Unsent \ {} /\ Due' = Due \ {}
    BY <2>3, Minus
  <2> QED
    BY <2>4
<1>7. UNCHANGED <<lane, session, got, cut>>
  BY DEF Tick
<1> HIDE DEF parts
<1>8. Rows' = Rows \ parts
  BY <1>5, Minus
<1>9. UNCHANGED <<Messages, Hand, got>>
  BY <1>7, Same
<1>10. (cut \cup dropped)' = (cut \cup dropped) \cup parts
  BY <1>1, <1>7
<1> QED
  BY <1>4, <1>6, <1>8, <1>9, <1>10 DEF Promise!Expire

\* What has nothing to do with commands, or only moves a session.
LEMMA StutterIs ==
    ASSUME TypeOK, AtPart,
           \/ \E c \in Command : Begin(c)
           \/ InsertDownload \/ Fetch \/ AskLane(FALSE) \/ AskNext \/ NoContent
           \/ (\E periodic \in BOOLEAN : Inform(periodic)) \/ TransferComplete \/ EmptyPost
    PROVE  UNCHANGED Promise!vars
<1>1. ASSUME NEW c \in Command, Begin(c) PROVE UNCHANGED Promise!vars
  <2>1. UNCHANGED <<Unsent, Due>>
    BY <1>1, BeginBooks
  <2>2. UNCHANGED <<rows, lane, session, got, cut, dropped>>
    BY <1>1 DEF Begin
  <2> QED
    BY <2>1, <2>2, Same DEF Promise!vars
<1>2. CASE InsertDownload
  <2> DEFINE r == [what |-> Download, age |-> 0]
  <2>1. rows' = Append(rows, r) /\ r \in Row /\ \A m \in Setting : r.what # m
    BY <1>2, DownloadRow
  <2>2. UNCHANGED <<lane, session, op, got, cut, dropped>>
    BY <1>2 DEF InsertDownload, observers
  <2> HIDE DEF r
  <2>3. \A m \in Setting : InRows(m)' <=> (InRows(m) /\ TargetOf(m) \notin {})
    BY <2>1, RowAppended
  <2>4. Rows' = Rows \ {}
    BY <2>3, Minus
  <2> QED
    BY <2>2, <2>4, Same DEF Promise!vars
<1>3. CASE Fetch \/ AskLane(FALSE)
  <2>1. lane \in [BOOLEAN -> Seq(Request)]
    BY Zenon DEF TypeOK
  <2>2. lane' = lane \/ \E q : lane' = [lane EXCEPT ![FALSE] = q]
    BY <1>3, Zenon DEF Fetch, AskLane
  <2>3. lane'[TRUE] = lane[TRUE]
    BY <2>1, <2>2, Zenon
  <2>4. Messages' = Messages
    BY <2>3, Zenon DEF Messages
  <2>5. UNCHANGED <<rows, op, got, cut, dropped>>
    BY <1>3, Zenon DEF Fetch, AskLane, observers
  <2>6. Hand' = Hand
    <3>1. CASE Fetch
      BY <3>1, Same DEF Fetch
    <3>2. CASE AskLane(FALSE)
      <4>1. /\ session.pc = "asking" /\ lane[FALSE] # <<>>
            /\ session' = Executing(Head(lane[FALSE])) /\ lane[FALSE] \in Seq({Get})
        BY <3>2, Zenon DEF AskLane, Deliver, TypeOK
      <4>2. Head(lane[FALSE]) \in {Get}
        BY <4>1, TailOf, Zenon
      <4>3. Get \in Request /\ Get \notin Setting
        BY Requests DEF Get
      <4> QED
        BY <4>1, <4>2, <4>3, HandIs
    <3> QED
      BY <1>3, <3>1, <3>2
  <2> QED
    BY <2>4, <2>5, <2>6, Same DEF Promise!vars
<1>4. CASE \/ AskNext \/ NoContent \/ (\E periodic \in BOOLEAN : Inform(periodic))
           \/ TransferComplete \/ EmptyPost
  <2>1. UNCHANGED <<rows, lane, op, got, cut, dropped>>
    BY <1>4 DEF AskNext, NoContent, Inform, TransferComplete, EmptyPost, server, observers
  <2>2. session.pc # "executing" /\ session'.pc # "executing"
    BY <1>4 DEF AskNext, NoContent, Inform, TransferComplete, EmptyPost, Closed, Informed,
                Asking, State
  <2>3. Hand' = Hand
    BY <2>2, HandIs
  <2> QED
    BY <2>1, <2>3, Same DEF Promise!vars
<1> QED
  BY <1>1, <1>2, <1>3, <1>4

LEMMA InitDelivery == Init => Promise!Init
<1> SUFFICES ASSUME Init PROVE Promise!Init
  OBVIOUS
<1>1. Messages = {} /\ Rows = {} /\ Hand = {}
  <2>1. lane = [hp \in BOOLEAN |-> <<>>] /\ rows = <<>>
    BY DEF Init
  <2>2. DOMAIN lane[TRUE] = {} /\ DOMAIN rows = {}
    <3>1. lane[TRUE] = <<>>
      BY <2>1, Zenon
    <3>2. DOMAIN <<>> = {}
      OBVIOUS
    <3> QED
      BY <2>1, <3>1, <3>2, Zenon
  <2>3. session.pc # "executing"
    BY DEF Init, Closed, State
  <2> QED
    BY <2>2, <2>3 DEF Messages, Rows, Hand
<1>2. Due = Unsent
  <2>1. \A t \in Target : op[t[1]].pc = "idle"
    BY DEF Init, Target
  <2>2. \A t \in Target : t \in Due <=> t \in Unsent
    BY <2>1 DEF Due, Unsent
  <2> QED
    BY <2>2, BooksType
<1>3. got = [t \in Target |-> 0] /\ cut \cup dropped = {}
  BY DEF Init
<1> QED
  BY <1>1, <1>2, <1>3, BooksType DEF Promise!Init

LEMMA NextDelivery ==
    ASSUME TypeOK, AtPart, AllCounted, [Next]_vars
    PROVE  [Promise!Next]_(Promise!vars)
<1>1. CASE \E c \in Command : SendPart(c) \/ GiveUpPart(c)
  BY <1>1, SendIs DEF Promise!Next
<1>2. CASE \E c \in Command : InsertPart(c)
  BY <1>2, InsertIs DEF Promise!Next
<1>3. CASE \E c \in Command : FailPart(c)
  BY <1>3, AbandonIs DEF Promise!Next
<1>4. CASE AskTask
  BY <1>4, TakeRowIs DEF Promise!Next
<1>5. CASE AskLane(TRUE)
  BY <1>5, TakeMessageIs DEF Promise!Next
<1>6. CASE Respond \/ LoseReply \/ LoseResponse
  BY <1>6, LeaveIs DEF Promise!Next
<1>7. CASE Tick
  BY <1>7, ExpireIs DEF Promise!Next
<1>8. CASE Crash
  BY <1>8, RestartIs DEF Promise!Next
<1>9. CASE UNCHANGED vars
  BY <1>9, Same DEF vars, Promise!vars
<1>10. \A hp \in BOOLEAN : AskLane(hp) => AskLane(TRUE) \/ AskLane(FALSE)
  BY Zenon
<1> QED
  BY <1>1, <1>2, <1>3, <1>4, <1>5, <1>6, <1>7, <1>8, <1>9, <1>10, StutterIs, Zenon
     DEF Next, CommandStep, AcsStep, CpeStep

\* One message and one row are made of every part of a command, each goes to the CPE once,
\* the CPE is sent one at a time, and a row leaves only for the CPE or for the record:
\* the lanes, the rows and the dialogue implement Delivery.
THEOREM ImplementsDelivery == Spec => IsDelivery
<1>1. Init => TypeOK /\ AtPart /\ AllCounted /\ Promise!Init
  BY InitType, InitCounted, InitDelivery
<1>2. TypeOK /\ AtPart /\ AllCounted /\ [Next]_vars
          => TypeOK' /\ AtPart' /\ AllCounted' /\ [Promise!Next]_(Promise!vars)
  BY NextType, NextCounted, NextDelivery
<1> QED
  BY <1>1, <1>2, PTL DEF Spec, IsDelivery, Promise!Spec
=============================================================================
