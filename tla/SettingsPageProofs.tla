--------------------------- MODULE SettingsPageProofs ---------------------------
(***************************************************************************)
(* What TLAPS proves about SettingsPage, for any settings, tabs and vendor  *)
(* and any number of edits and events.                                      *)
(***************************************************************************)
EXTENDS SettingsPage, TLAPS

-----------------------------------------------------------------------------
(* Forms, answers, handlers and pushes.                                    *)

LEMMA PartialDomain ==
    ASSUME NEW f \in Partial
    PROVE  DOMAIN f \subseteq Key /\ f \in [DOMAIN f -> Value]
BY DEF Partial

LEMMA PartialOf ==
    ASSUME NEW keys \in SUBSET Key, NEW f \in [keys -> Value]
    PROVE  f \in Partial
BY DEF Partial

LEMMA BlankType == Blank \in Partial /\ DOMAIN Blank = {}
<1>1. Blank \in [{} -> Value]
  BY DEF Blank
<1> QED
  BY <1>1, PartialOf DEF Blank

LEMMA KeysType ==
    /\ \A t \in Tab : KeysOf(t) \subseteq Key
    /\ \A t, u \in Tab : t # u => KeysOf(t) \cap KeysOf(u) = {}
    /\ OfVendor \subseteq KeysOf(Tr069) /\ OfVendor \subseteq Key
    /\ Tr069 \in Tab /\ First \in Tab
BY ConstantsAssumption DEF KeysOf

LEMMA ValueType ==
    /\ 0 \in Value /\ 0 \in Slot
    /\ \A n \in Value : n \in Nat
    /\ MaxEdit \in Nat /\ MaxEvent \in Nat
BY ConstantsAssumption DEF Value, Slot

LEMMA StoredType ==
    ASSUME TypeOK, NEW t \in Tab
    PROVE  Stored(t) \in [KeysOf(t) -> Value] /\ Stored(t) \in Partial
<1>1. Stored(t) \in [KeysOf(t) -> Value]
  BY KeysType DEF Stored, TypeOK
<1> QED
  BY <1>1, KeysType, PartialOf

Fetch == [pc: {"none", "asked", "answered"}, data: Partial]
Mutation == [pc: {"idle", "sent", "pushing"}, of: Slot]
Handler == [tab: Tab, values: Partial, left: SUBSET Key, doubt: BOOLEAN]
Running == [pc: {"idle", "read"}, left: SUBSET OfVendor, got: Partial, flawed: BOOLEAN]
Cached == [has: BOOLEAN, fresh: BOOLEAN, data: Partial]

LEMMA Constants0 ==
    /\ NoFetch \in Fetch /\ NoFetch.pc = "none" /\ NoFetch.data = Blank
    /\ Asked \in Fetch /\ Asked.pc = "asked" /\ Asked.data = Blank
    /\ NoSave \in Mutation /\ NoSave.pc = "idle"
    /\ NoRequest \in Handler /\ NoRequest.left = {} /\ NoRequest.values = Blank
    /\ NoPush \in Running /\ NoPush.pc = "idle"
    /\ NoData \in Cached /\ ~NoData.has /\ ~NoData.fresh /\ NoData.data = Blank
BY BlankType, KeysType, ValueType
   DEF NoFetch, Asked, NoSave, NoRequest, NoPush, NoData, Fetch, Mutation, Handler, Running, Cached

-----------------------------------------------------------------------------
(* Type correctness.                                                       *)

\* What is in the cache or on its way there is blank or complete.
Answers ==
    \A t \in Tab :
        /\ DOMAIN cache[t].data \in {{}, KeysOf(t)}
        /\ DOMAIN fetch[t].data \in {{}, KeysOf(t)}
        /\ cache[t].fresh => cache[t].has
        /\ ~cache[t].has => cache[t].data = Blank

\* A handler has a value for every key that is left, and the keys are those of its tab.
Handlers ==
    \A r \in Slot :
        /\ request[r].left \subseteq DOMAIN request[r].values
        /\ DOMAIN request[r].values \subseteq KeysOf(request[r].tab)

TypeInv == TypeOK /\ Answers /\ Handlers

LEMMA TypeInit == Init => TypeInv
<1> SUFFICES ASSUME Init PROVE TypeInv
  OBVIOUS
<1> USE DEF Init
<1>1. \A t \in Tab : cache[t] = NoData /\ fetch[t] \in Fetch /\ fetch[t].data = Blank
  BY Constants0
<1>2. Answers /\ Handlers
  BY <1>1, Constants0, BlankType DEF Answers, Handlers
<1>3. /\ db \in [Key -> Value] /\ typed \in [Key -> Value]
      /\ tab \in Tab /\ form \in Partial /\ DOMAIN form \in {{}, KeysOf(tab)}
      /\ edits \in Value /\ events \in 0..MaxEvent
  BY ValueType, BlankType, KeysType
<1>4. /\ cache \in [Tab -> Cached] /\ fetch \in [Tab -> Fetch] /\ save \in Mutation
      /\ request \in [Slot -> Handler] /\ push \in [Slot -> Running]
  BY <1>1, Constants0
<1>5. device \in [OfVendor -> Value]
  BY ValueType
<1> QED
  BY <1>2, <1>3, <1>4, <1>5 DEF TypeInv, TypeOK, Cached, Fetch, Mutation, Handler, Running

\* The types, record by record.
LEMMA Typed ==
    ASSUME TypeInv
    PROVE  /\ cache \in [Tab -> Cached] /\ fetch \in [Tab -> Fetch]
           /\ save \in Mutation /\ save.of \in Slot
           /\ request \in [Slot -> Handler] /\ push \in [Slot -> Running]
           /\ form \in [DOMAIN form -> Value] /\ DOMAIN form \subseteq Key
           /\ \A r \in Slot : /\ request[r].values \in [DOMAIN request[r].values -> Value]
                              /\ DOMAIN request[r].values \subseteq Key
                              /\ request[r].tab \in Tab /\ request[r].left \subseteq Key
           /\ \A x \in Slot : /\ push[x].got \in [DOMAIN push[x].got -> Value]
                              /\ DOMAIN push[x].got \subseteq Key
           /\ \A t \in Tab : /\ cache[t].data \in [DOMAIN cache[t].data -> Value]
                             /\ fetch[t].data \in [DOMAIN fetch[t].data -> Value]
<1>1. /\ cache \in [Tab -> Cached] /\ fetch \in [Tab -> Fetch]
      /\ save \in Mutation
      /\ request \in [Slot -> Handler] /\ push \in [Slot -> Running]
  BY DEF TypeInv, TypeOK, Cached, Fetch, Mutation, Handler, Running
<1>2. save.of \in Slot
  BY <1>1 DEF Mutation
<1>3. \A r \in Slot : request[r].values \in Partial /\ request[r].tab \in Tab /\ request[r].left \subseteq Key
  BY <1>1 DEF Handler
<1>4. \A x \in Slot : push[x].got \in Partial
  BY <1>1 DEF Running
<1>5. \A t \in Tab : cache[t].data \in Partial /\ fetch[t].data \in Partial
  BY <1>1 DEF Cached, Fetch
<1>6. form \in Partial
  BY DEF TypeInv, TypeOK
<1> QED
  BY <1>1, <1>2, <1>3, <1>4, <1>5, <1>6, PartialDomain

LEMMA EventType == TypeOK /\ Event => events' \in 0..MaxEvent
BY ConstantsAssumption DEF TypeOK, Event

LEMMA QueryType == ASSUME TypeInv, NEW t \in Tab, Query(t) PROVE TypeInv'
<1>1. PICK d \in {Stored(t), Blank} : fetch' = [fetch EXCEPT ![t] = [pc |-> "answered", data |-> d]]
  BY DEF Query
<1>2. d \in Partial /\ DOMAIN d \in {{}, KeysOf(t)}
  BY <1>1, StoredType, BlankType DEF TypeInv
<1>3. fetch' \in [Tab -> Fetch]
  BY <1>1, <1>2, Typed DEF Fetch
<1>4. Answers' /\ Handlers'
  BY <1>1, <1>2, Typed DEF TypeInv, Answers, Handlers, Query, server
<1>5. events' \in 0..MaxEvent
  BY EventType DEF TypeInv, TypeOK, Query
<1> QED
  BY <1>3, <1>4, <1>5 DEF TypeInv, TypeOK, Query, Fetch, server

LEMMA ArriveType == ASSUME TypeInv, NEW t \in Tab, Arrive(t) PROVE TypeInv'
<1>1. /\ cache' = [cache EXCEPT ![t] = [has |-> TRUE, fresh |-> TRUE, data |-> fetch[t].data]]
      /\ fetch' = [fetch EXCEPT ![t] = NoFetch]
  BY DEF Arrive
<1>2. fetch[t].data \in Partial /\ DOMAIN fetch[t].data \in {{}, KeysOf(t)}
  BY Typed DEF TypeInv, Answers, Fetch
<1>3. cache' \in [Tab -> Cached] /\ fetch' \in [Tab -> Fetch]
  BY <1>1, <1>2, Constants0, Typed DEF Fetch, Cached
<1>4. Answers' /\ Handlers'
  BY <1>1, <1>2, Typed, Constants0, BlankType DEF TypeInv, Answers, Handlers, Arrive, server
<1>5. form' \in Partial /\ DOMAIN form' \in {{}, KeysOf(tab)} /\ doubt' \in BOOLEAN
  <2>1. CASE Fills(t)
    BY <2>1, <1>2 DEF Arrive, Fills, Writing
  <2>2. CASE ~Fills(t)
    BY <2>2 DEF Arrive, TypeInv, TypeOK
  <2> QED
    BY <2>1, <2>2
<1> QED
  BY <1>3, <1>4, <1>5 DEF TypeInv, TypeOK, Arrive, Fetch, Cached, bounds, server

LEMMA FailFetchType == ASSUME TypeInv, NEW t \in Tab, FailFetch(t) PROVE TypeInv'
<1>1. fetch' = [fetch EXCEPT ![t] = NoFetch] /\ events' \in 0..MaxEvent
  BY EventType DEF FailFetch, TypeInv
<1>2. fetch' \in [Tab -> Fetch] /\ Answers' /\ Handlers'
  BY <1>1, Constants0, BlankType, Typed DEF TypeInv, Answers, Handlers, FailFetch, server
<1> QED
  BY <1>1, <1>2 DEF TypeInv, TypeOK, FailFetch, Fetch, server

\* Data that are not fresh any more are the same data.
LEMMA StaleCache ==
    ASSUME TypeInv, NEW t \in Tab, cache' = [cache EXCEPT ![t].fresh = FALSE]
    PROVE  /\ cache' \in [Tab -> Cached]
           /\ ~cache'[t].fresh
           /\ \A u \in Tab : /\ cache'[u].has = cache[u].has /\ cache'[u].data = cache[u].data
                             /\ cache'[u].fresh => cache[u].fresh
BY Typed DEF Cached

LEMMA AgeType == ASSUME TypeInv, NEW t \in Tab, Age(t) PROVE TypeInv'
<1>1. cache' = [cache EXCEPT ![t].fresh = FALSE] /\ events' \in 0..MaxEvent
  BY EventType DEF Age, TypeInv
<1>2. cache' \in [Tab -> Cached] /\ Answers' /\ Handlers'
  BY <1>1, StaleCache DEF TypeInv, Answers, Handlers, Age, server
<1> QED
  BY <1>1, <1>2 DEF TypeInv, TypeOK, Age, Cached, observers, server

LEMMA NothingType == Nothing \in [Key -> Value] /\ \A k \in Key : Nothing[k] = 0
BY ValueType DEF Nothing

\* What another tab shows, and the fetch it may start.
LEMMA SelectTabMoves ==
    ASSUME TypeInv, NEW t \in Tab, SelectTab(t)
    PROVE  /\ form' \in Partial /\ DOMAIN form' \in {{}, KeysOf(t)}
           /\ \/ t # tab /\ cache[t].has /\ form' = cache[t].data
              \/ ~(t # tab /\ cache[t].has) /\ DOMAIN form' = {}
           /\ fetch' \in [Tab -> Fetch]
           /\ \A u \in Tab : fetch'[u] = fetch[u] \/ (fetch'[u] = Asked /\ u = t /\ NeedsFetch(t))
           /\ NeedsFetch(t) => fetch'[t] = Asked
<1>1. cache[t].data \in Partial /\ DOMAIN cache[t].data \in {{}, KeysOf(t)}
  BY Typed DEF Cached, TypeInv, Answers
<1>2. form' = Shown(t) /\ fetch' = IF NeedsFetch(t) THEN [fetch EXCEPT ![t] = Asked] ELSE fetch
  BY DEF SelectTab
<1>3. /\ form' \in Partial /\ DOMAIN form' \in {{}, KeysOf(t)}
      /\ \/ t # tab /\ cache[t].has /\ form' = cache[t].data
         \/ ~(t # tab /\ cache[t].has) /\ DOMAIN form' = {}
  BY <1>1, <1>2, BlankType DEF Shown
<1>4. CASE NeedsFetch(t)
  BY <1>2, <1>3, <1>4, Typed, Constants0
<1>5. CASE ~NeedsFetch(t)
  BY <1>2, <1>3, <1>5, Typed
<1> QED
  BY <1>4, <1>5

LEMMA SelectTabType == ASSUME TypeInv, NEW t \in Tab, SelectTab(t) PROVE TypeInv'
<1>1. Answers' /\ Handlers'
  BY SelectTabMoves, Constants0, BlankType DEF TypeInv, Answers, Handlers, SelectTab, server
<1>2. doubt' \in BOOLEAN /\ blanked' \in BOOLEAN /\ typed' \in [Key -> Value]
  BY NothingType DEF SelectTab
<1> QED
  BY <1>1, <1>2, SelectTabMoves DEF TypeInv, TypeOK, SelectTab, Fetch, bounds, server

LEMMA TypeType == ASSUME TypeInv, NEW k \in Key, Type(k) PROVE TypeInv'
<1>1. edits + 1 \in Value
  BY ConstantsAssumption DEF Type, TypeInv, TypeOK, Value
<1>2. form' \in [DOMAIN form -> Value] /\ typed' \in [Key -> Value]
  BY <1>1, Typed DEF Type, TypeInv, TypeOK
<1>3. form' \in Partial /\ DOMAIN form' = DOMAIN form
  BY <1>2, Typed, PartialOf
<1>4. Answers' /\ Handlers'
  BY DEF TypeInv, Answers, Handlers, Type, server
<1>5. hasty' \subseteq Key /\ undone' \subseteq Key /\ emptied' \subseteq Value
  BY <1>1 DEF Type, TypeInv, TypeOK
<1> QED
  BY <1>1, <1>2, <1>3, <1>4, <1>5 DEF TypeInv, TypeOK, Type, server

LEMMA ResetType == ASSUME TypeInv, Reset PROVE TypeInv'
<1>1. form' \in Partial /\ DOMAIN form' \in {{}, KeysOf(tab)}
  BY Typed DEF Reset, TypeInv, TypeOK, Answers, Cached
<1>2. doubt' \in BOOLEAN /\ blanked' \in BOOLEAN
  BY DEF Reset, Doubtful, Writing
<1>3. Answers' /\ Handlers'
  BY DEF TypeInv, Answers, Handlers, Reset, server
<1> QED
  BY <1>1, <1>2, <1>3, NothingType DEF TypeInv, TypeOK, Reset, bounds, server

\* A save puts the form into the hands of a handler that was free.
LEMMA SaveMoves ==
    ASSUME TypeInv, NEW r \in Slot, Save(r)
    PROVE  /\ dirty /\ save.pc = "idle" /\ request[r] = NoRequest
           /\ save' \in Mutation /\ save'.pc = "sent" /\ save'.of = r
           /\ request' \in [Slot -> Handler]
           /\ request'[r] = [tab |-> tab, values |-> form, left |-> DOMAIN form, doubt |-> doubt]
           /\ \A q \in Slot : q # r => request'[q] = request[q]
<1>1. /\ dirty /\ save.pc = "idle" /\ request[r] = NoRequest
      /\ save' = [pc |-> "sent", of |-> r]
      /\ request' = [request EXCEPT ![r] =
                       [tab |-> tab, values |-> form, left |-> DOMAIN form, doubt |-> doubt]]
  BY DEF Save, FreeRequest
<1>2. [tab |-> tab, values |-> form, left |-> DOMAIN form, doubt |-> doubt] \in Handler
  BY Typed DEF Handler, TypeInv, TypeOK
<1> QED
  BY <1>1, <1>2, Typed DEF Mutation

LEMMA SaveType == ASSUME TypeInv, NEW r \in Slot, Save(r) PROVE TypeInv'
<1>1. Handlers'
  BY SaveMoves DEF TypeInv, TypeOK, Handlers, KeysOf
<1>2. Answers'
  BY DEF TypeInv, Answers, Save
<1> QED
  BY <1>1, <1>2, SaveMoves DEF TypeInv, TypeOK, Save, Mutation, Handler, bounds, observers

\* What happens to a handler that has dealt with a key: one key less is left, and one that
\* nobody waits for is forgotten with the last, which leaves its tab unrefreshed.
LEMMA PassedMoves ==
    ASSUME TypeInv, NEW r \in Slot, NEW k \in request[r].left, Passed(r, k)
    PROVE  /\ k \in Key /\ request[r].values[k] \in Value /\ k \in KeysOf(request[r].tab)
           /\ request' \in [Slot -> Handler]
           /\ \A q \in Slot : q # r => request'[q] = request[q]
           /\ request'[r].left = request[r].left \ {k}
           /\ \/ /\ request'[r].tab = request[r].tab /\ request'[r].values = request[r].values
                 /\ request'[r].doubt = request[r].doubt
                 /\ Waits(r) \/ request'[r].left # {}
              \/ ~Waits(r) /\ request'[r] = NoRequest /\ request[r].tab \in missed'
           /\ missed \subseteq missed' /\ missed' \subseteq Tab
           /\ Handlers'
<1> DEFINE last == ~Waits(r) /\ request[r].left = {k}
<1>1. /\ request' = IF last THEN [request EXCEPT ![r] = NoRequest]
                     ELSE [request EXCEPT ![r].left = @ \ {k}]
      /\ missed' = IF last THEN missed \cup {request[r].tab} ELSE missed
  BY DEF Passed
<1>2. /\ k \in Key /\ request[r].values[k] \in Value /\ k \in KeysOf(request[r].tab)
      /\ request[r].left \subseteq DOMAIN request[r].values
      /\ DOMAIN request[r].values \subseteq KeysOf(request[r].tab)
  BY Typed DEF TypeInv, Handlers
<1>3. request[r] \in Handler /\ request[r].tab \in Tab /\ missed \subseteq Tab
  BY Typed DEF TypeInv, TypeOK
<1>4. CASE last
  <2>1. request' \in [Slot -> Handler] /\ request'[r] = NoRequest
    BY <1>1, <1>4, Typed, Constants0
  <2>2. \A q \in Slot : q # r => request'[q] = request[q]
    BY <1>1, Typed
  <2>3. Handlers'
    BY <2>1, <2>2, Constants0, BlankType DEF Handlers, TypeInv
  <2> QED
    BY <1>1, <1>2, <1>3, <1>4, <2>1, <2>2, <2>3, Constants0
<1>5. CASE ~last
  <2> DEFINE h == [request[r] EXCEPT !.left = @ \ {k}]
  <2>1. /\ h \in Handler /\ h.left = request[r].left \ {k} /\ h.tab = request[r].tab
        /\ h.values = request[r].values /\ h.doubt = request[r].doubt
    BY <1>3 DEF Handler
  <2>2. request' = [request EXCEPT ![r] = h]
    BY <1>1, <1>5
  <2> HIDE DEF h
  <2>3. /\ request' \in [Slot -> Handler] /\ request'[r] = h
        /\ \A q \in Slot : q # r => request'[q] = request[q]
    BY <2>1, <2>2, Typed
  <2>4. Handlers'
    BY <1>2, <2>1, <2>3 DEF Handlers, TypeInv
  <2> QED
    BY <1>1, <1>2, <1>3, <1>5, <2>1, <2>3, <2>4
<1> QED
  BY <1>4, <1>5

\* What an UPDATE does to the pushes.
LEMMA OvertakenMoves ==
    ASSUME TypeInv, NEW k, push' = Overtaken(k)
    PROVE  /\ push' \in [Slot -> Running]
           /\ \A x \in Slot : /\ push'[x].pc = push[x].pc /\ push'[x].left = push[x].left
                              /\ push'[x].got = push[x].got
                              /\ push[x].flawed => push'[x].flawed
                              /\ (push[x].pc = "read" /\ k \in OfVendor \ push[x].left)
                                    => push'[x].flawed
<1>1. \A x \in Slot : /\ [push[x] EXCEPT !.flawed = TRUE] \in Running
                      /\ [push[x] EXCEPT !.flawed = TRUE].pc = push[x].pc
                      /\ [push[x] EXCEPT !.flawed = TRUE].left = push[x].left
                      /\ [push[x] EXCEPT !.flawed = TRUE].got = push[x].got
                      /\ [push[x] EXCEPT !.flawed = TRUE].flawed
  BY Typed DEF Running
<1> QED
  BY <1>1, Typed DEF Overtaken

LEMMA UpdateKeyType == ASSUME TypeInv, NEW r \in Slot, NEW k \in Key, UpdateKey(r, k) PROVE TypeInv'
<1>1. k \in request[r].left /\ Passed(r, k) /\ push' = Overtaken(k)
      /\ db' = [db EXCEPT ![k] = request[r].values[k]]
  BY DEF UpdateKey
<1>2. Handlers' /\ Answers'
  BY <1>1, PassedMoves DEF UpdateKey, page, TypeInv, Answers
<1>3. db' \in [Key -> Value]
  BY <1>1, PassedMoves DEF TypeInv, TypeOK
<1>4. undone' \subseteq Key /\ astray' \in BOOLEAN
  BY DEF UpdateKey, Spoilt, TypeInv, TypeOK
<1> QED
  BY <1>1, <1>2, <1>3, <1>4, PassedMoves, OvertakenMoves
     DEF TypeInv, TypeOK, UpdateKey, Handler, Running, page, bounds

LEMMA FailUpdateType == ASSUME TypeInv, NEW r \in Slot, NEW k \in Key, FailUpdate(r, k) PROVE TypeInv'
<1>1. k \in request[r].left /\ Passed(r, k) /\ events' \in 0..MaxEvent
  BY EventType DEF FailUpdate, TypeInv
<1>2. Handlers' /\ Answers'
  BY <1>1, PassedMoves DEF FailUpdate, page, TypeInv, Answers
<1>3. undone' \subseteq Key
  BY DEF FailUpdate, Spoilt, TypeInv, TypeOK
<1> QED
  BY <1>1, <1>2, <1>3, PassedMoves DEF TypeInv, TypeOK, FailUpdate, Handler, page

\* The handler of a save that is lost goes on, or is gone and its tab unrefreshed.
LEMMA LoseSaveMoves ==
    ASSUME TypeInv, LoseSave
    PROVE  /\ Saving /\ save' = NoSave
           /\ request' \in [Slot -> Handler]
           /\ \A q \in Slot : q # save.of => request'[q] = request[q]
           /\ \/ request'[save.of] = request[save.of] /\ request[save.of].left # {} /\ missed' = missed
              \/ /\ request'[save.of] = NoRequest
                 /\ missed' = missed \cup {request[save.of].tab}
<1>1. /\ Saving /\ save' = NoSave
      /\ \/ request[save.of].left # {} /\ UNCHANGED <<request, missed>>
         \/ /\ request' = [request EXCEPT ![save.of] = NoRequest]
            /\ missed' = missed \cup {request[save.of].tab}
  BY DEF LoseSave
<1> QED
  BY <1>1, Typed, Constants0

LEMMA LoseSaveType == ASSUME TypeInv, LoseSave PROVE TypeInv'
<1>1. Handlers'
  BY LoseSaveMoves, Constants0, BlankType DEF TypeInv, Handlers
<1>2. Answers' /\ events' \in 0..MaxEvent
  BY EventType DEF TypeInv, Answers, LoseSave
<1>3. missed' \subseteq Tab /\ astray' \in BOOLEAN
  BY Typed, LoseSaveMoves DEF LoseSave, TypeInv, TypeOK
<1> QED
  BY <1>1, <1>2, <1>3, LoseSaveMoves, Constants0 DEF TypeInv, TypeOK, LoseSave, Mutation, Handler

\* A push that starts has everything left to read.
LEMMA StartedMoves ==
    ASSUME TypeInv, NEW x \in Slot, push' = Started(x)
    PROVE  /\ push' \in [Slot -> Running]
           /\ push'[x].pc = "read" /\ push'[x].left = OfVendor
           /\ \A y \in Slot : y # x => push'[y] = push[y]
<1> DEFINE p == [NoPush EXCEPT !.pc = "read", !.left = OfVendor]
<1>1. p \in Running /\ p.pc = "read" /\ p.left = OfVendor
  BY BlankType DEF NoPush, Running
<1>2. push' = [push EXCEPT ![x] = p]
  BY DEF Started
<1> HIDE DEF p
<1> QED
  BY <1>1, <1>2, Typed

LEMMA OnSuccessMoves ==
    ASSUME TypeInv, NEW x \in Slot, OnSuccess(x)
    PROVE  /\ Saving /\ request[save.of].left = {} /\ ~Saving' /\ save' \in Mutation
           /\ request' \in [Slot -> Handler] /\ request'[save.of] = NoRequest
           /\ \A q \in Slot : q # save.of => request'[q] = request[q]
           /\ push' \in [Slot -> Running]
           /\ IF tab = Tr069 THEN save'.pc = "pushing" /\ push' = Started(x)
                             ELSE save'.pc = "idle" /\ push' = push
           /\ cache' = [cache EXCEPT ![tab].fresh = FALSE]
           /\ fetch' \in [Tab -> Fetch] /\ fetch'[tab] = Asked
           /\ \A t \in Tab : t # tab => fetch'[t] = fetch[t]
           /\ tab \in Tab
<1>1. /\ Saving /\ request[save.of].left = {}
      /\ request' = [request EXCEPT ![save.of] = NoRequest]
      /\ cache' = [cache EXCEPT ![tab].fresh = FALSE]
      /\ fetch' = [fetch EXCEPT ![tab] = Asked]
      /\ save' = IF tab = Tr069 THEN [pc |-> "pushing", of |-> x] ELSE NoSave
      /\ push' = IF tab = Tr069 THEN Started(x) ELSE push
      /\ tab \in Tab
  BY DEF OnSuccess, Pushes, Invalidated, TypeInv, TypeOK
<1>2. /\ request' \in [Slot -> Handler] /\ request'[save.of] = NoRequest
      /\ \A q \in Slot : q # save.of => request'[q] = request[q]
      /\ fetch' \in [Tab -> Fetch] /\ fetch'[tab] = Asked
      /\ \A t \in Tab : t # tab => fetch'[t] = fetch[t]
  BY <1>1, Typed, Constants0
<1>3. CASE tab = Tr069
  BY <1>1, <1>2, <1>3, StartedMoves DEF Mutation, Saving
<1>4. CASE tab # Tr069
  BY <1>1, <1>2, <1>4, Typed, Constants0 DEF Saving
<1> QED
  BY <1>3, <1>4

LEMMA OnSuccessType == ASSUME TypeInv, NEW x \in Slot, OnSuccess(x) PROVE TypeInv'
<1>1. cache' \in [Tab -> Cached] /\ Answers'
  BY OnSuccessMoves, StaleCache, Constants0, BlankType DEF TypeInv, Answers
<1>2. Handlers'
  BY OnSuccessMoves, Constants0, BlankType DEF TypeInv, Handlers
<1>3. missed' \subseteq Tab /\ astray' \in BOOLEAN /\ dirty' \in BOOLEAN
  BY Typed DEF OnSuccess, TypeInv, TypeOK
<1> QED
  BY <1>1, <1>2, <1>3, OnSuccessMoves
     DEF TypeInv, TypeOK, OnSuccess, Fetch, Cached, Mutation, Handler, Running, bounds

LEMMA PushOnInformType == ASSUME TypeInv, NEW x \in Slot, PushOnInform(x) PROVE TypeInv'
<1>1. push' \in [Slot -> Running] /\ events' \in 0..MaxEvent
  BY StartedMoves, EventType DEF PushOnInform, TypeInv
<1>2. Answers' /\ Handlers'
  BY DEF TypeInv, Answers, Handlers, PushOnInform, page
<1> QED
  BY <1>1, <1>2 DEF TypeInv, TypeOK, PushOnInform, Running, page, observers

\* A read leaves one key less, and adds its value unless it is empty.
LEMMA ReadMoves ==
    ASSUME TypeInv, NEW x \in Slot, NEW k \in OfVendor, ReadKey(x, k)
    PROVE  /\ push' \in [Slot -> Running]
           /\ \A y \in Slot : y # x => push'[y] = push[y]
           /\ push'[x].pc = push[x].pc /\ push'[x].flawed = push[x].flawed
           /\ push'[x].left = push[x].left \ {k}
           /\ DOMAIN push[x].got \subseteq DOMAIN push'[x].got
           /\ \A j \in DOMAIN push[x].got : j # k => push'[x].got[j] = push[x].got[j]
           /\ db[k] \in emptied \/ (k \in DOMAIN push'[x].got /\ push'[x].got[k] = db[k])
<1> DEFINE q == [j \in DOMAIN push[x].got \cup {k} |-> IF j = k THEN db[k] ELSE push[x].got[j]]
           g == IF db[k] \in emptied THEN push[x].got ELSE q
           p == [push[x] EXCEPT !.left = @ \ {k}, !.got = g]
<1>1. push' = [push EXCEPT ![x] = p]
  BY DEF ReadKey
<1>2. q \in [DOMAIN push[x].got \cup {k} -> Value] /\ DOMAIN push[x].got \cup {k} \subseteq Key
  BY Typed, KeysType DEF TypeInv, TypeOK
<1>3. q \in Partial /\ push[x].got \in Partial
  BY <1>2, PartialOf, Typed DEF Running
<1>4. /\ DOMAIN push[x].got \subseteq DOMAIN g
      /\ \A j \in DOMAIN push[x].got : j # k => g[j] = push[x].got[j]
      /\ db[k] \in emptied \/ (k \in DOMAIN g /\ g[k] = db[k])
      /\ g \in Partial
  BY <1>3
<1> HIDE DEF g
<1>5. /\ p \in Running /\ p.pc = push[x].pc /\ p.flawed = push[x].flawed
      /\ p.left = push[x].left \ {k} /\ p.got = g
  BY <1>4, Typed DEF Running
<1> HIDE DEF p
<1>6. push' \in [Slot -> Running] /\ push'[x] = p /\ \A y \in Slot : y # x => push'[y] = push[y]
  BY <1>1, <1>5, Typed
<1> QED
  BY <1>4, <1>5, <1>6

LEMMA ReadKeyType ==
    ASSUME TypeInv, NEW x \in Slot, NEW k \in OfVendor, ReadKey(x, k)
    PROVE  TypeInv'
<1>1. Answers' /\ Handlers'
  BY DEF TypeInv, Answers, Handlers, ReadKey, page
<1> QED
  BY <1>1, ReadMoves DEF TypeInv, TypeOK, ReadKey, Running, page, bounds, observers

LEMMA FailReadMoves ==
    ASSUME TypeInv, NEW x \in Slot, NEW k \in OfVendor, FailRead(x, k)
    PROVE  /\ push' \in [Slot -> Running]
           /\ \A y \in Slot : y # x => push'[y] = push[y]
           /\ push'[x].flawed
<1> DEFINE p == [push[x] EXCEPT !.left = @ \ {k}, !.flawed = TRUE]
<1>1. push' = [push EXCEPT ![x] = p]
  BY DEF FailRead
<1>2. p \in Running /\ p.flawed
  BY Typed DEF Running
<1> HIDE DEF p
<1> QED
  BY <1>1, <1>2, Typed

LEMMA FailReadType ==
    ASSUME TypeInv, NEW x \in Slot, NEW k \in OfVendor, FailRead(x, k)
    PROVE  TypeInv'
<1>1. Answers' /\ Handlers' /\ events' \in 0..MaxEvent
  BY EventType DEF TypeInv, Answers, Handlers, FailRead, page
<1> QED
  BY <1>1, FailReadMoves DEF TypeInv, TypeOK, FailRead, Running, page, observers

\* The end of a push: if the page waits for it, it waits no more.
Ended(x) == push' = [push EXCEPT ![x] = NoPush] /\ Returned(x)

LEMMA EndedMoves ==
    ASSUME TypeInv, NEW x \in Slot, Ended(x)
    PROVE  /\ push' \in [Slot -> Running] /\ push'[x].pc = "idle"
           /\ \A y \in Slot : y # x => push'[y] = push[y]
           /\ save' \in Mutation
           /\ save' = save \/ (WaitsForPush(x) /\ save' = NoSave)
BY Typed, Constants0 DEF Ended, Returned

LEMMA SendType == ASSUME TypeInv, NEW x \in Slot, Send(x) PROVE TypeInv'
<1>1. Ended(x)
  BY DEF Send, Ended
<1>2. Answers' /\ Handlers'
  BY DEF TypeInv, Answers, Handlers, Send
<1>3. device' \in [OfVendor -> Value] /\ astray' \in BOOLEAN
  BY Typed DEF Send, TypeInv, TypeOK, Running
<1> QED
  BY <1>1, <1>2, <1>3, EndedMoves DEF TypeInv, TypeOK, Send, Running, Mutation, bounds

LEMMA RefuseType == ASSUME TypeInv, NEW x \in Slot, Refuse(x) PROVE TypeInv'
<1>1. Ended(x)
  BY DEF Refuse, Ended
<1>2. Answers' /\ Handlers' /\ events' \in 0..MaxEvent
  BY EventType DEF TypeInv, Answers, Handlers, Refuse
<1>3. astray' \in BOOLEAN
  BY DEF Refuse, WaitsForPush, TypeInv, TypeOK
<1> QED
  BY <1>1, <1>2, <1>3, EndedMoves DEF TypeInv, TypeOK, Refuse, Running, Mutation

LEMMA LosePushType == ASSUME TypeInv, LosePush PROVE TypeInv'
<1>1. Answers' /\ Handlers' /\ events' \in 0..MaxEvent /\ save' \in Mutation
  BY EventType, Constants0 DEF TypeInv, Answers, Handlers, LosePush, server
<1> QED
  BY <1>1 DEF TypeInv, TypeOK, LosePush, Mutation, server

LEMMA Idles == ASSUME TypeInv, UNCHANGED vars PROVE TypeInv'
BY DEF TypeInv, TypeOK, Answers, Handlers, vars

LEMMA TypeStep == TypeInv /\ [Next]_vars => TypeInv'
<1> SUFFICES ASSUME TypeInv, [Next]_vars PROVE TypeInv'
  OBVIOUS
<1>1. CASE Administrator
  BY <1>1, SelectTabType, TypeType, ResetType, SaveType DEF Administrator
<1>2. CASE Browser
  BY <1>2, QueryType, ArriveType, FailFetchType, AgeType, LoseSaveType, OnSuccessType, LosePushType
     DEF Browser
<1>3. CASE Server
  BY <1>3, UpdateKeyType, FailUpdateType, PushOnInformType, SendType, RefuseType, ReadKeyType,
     FailReadType DEF Server
<1>4. CASE UNCHANGED vars
  BY <1>4, Idles
<1> QED
  BY <1>1, <1>2, <1>3, <1>4 DEF Next

\* Every reachable state of the page has the right types; forms are blank or complete.
THEOREM TypeCorrect == Spec => []TypeOK
<1>1. TypeInv => TypeOK
  BY DEF TypeInv
<1> QED
  BY <1>1, TypeInit, TypeStep, PTL DEF Spec

-----------------------------------------------------------------------------
(* Edits are kept.                                                         *)

\* A value typed and not discarded is in the form.  Once the form counts as saved it is
\* stored, and so is whatever may replace it there.  A save that the page waits for has it,
\* and has still to write it or has written it.
Kept(k) ==
    /\ k \in KeysOf(tab)
    /\ dirty => k \in DOMAIN form /\ form[k] = typed[k]
    /\ ~dirty => /\ ~Saving /\ db[k] = typed[k]
                 /\ k \in DOMAIN form => form[k] = typed[k]
                 /\ (fetch[tab].pc = "answered" /\ k \in DOMAIN fetch[tab].data)
                       => fetch[tab].data[k] = typed[k]
    /\ Saving => /\ k \in DOMAIN request[save.of].values /\ request[save.of].values[k] = typed[k]
                 /\ k \in request[save.of].left \/ db[k] = typed[k]

EditInv == \A k \in Key : (typed[k] # 0 /\ k \notin hasty \cup undone) => Kept(k)

LEMMA EditInit == Init => EditInv
BY DEF Init, EditInv

LEMMA QueryEdit == ASSUME TypeInv, EditInv, NEW t \in Tab, Query(t) PROVE EditInv'
<1>1. PICK d \in {Stored(t), Blank} : fetch' = [fetch EXCEPT ![t] = [pc |-> "answered", data |-> d]]
  BY DEF Query
<1>2. UNCHANGED <<db, tab, form, dirty, save, request, typed, hasty, undone>>
  BY DEF Query, server
<1>3. ASSUME NEW k \in Key, Kept(k) PROVE Kept(k)'
  <2>1. CASE t = tab
    <3>1. k \in DOMAIN d => d[k] = db[k]
      BY BlankType DEF Stored
    <3>2. fetch'[tab].data = d
      BY <1>1, <2>1, Typed
    <3> QED
      BY <1>2, <1>3, <3>1, <3>2 DEF Kept, Saving
  <2>2. CASE t # tab
    <3>1. fetch'[tab] = fetch[tab]
      BY <1>1, <2>2, Typed DEF TypeInv, TypeOK
    <3> QED
      BY <1>2, <1>3, <3>1 DEF Kept, Saving
  <2> QED
    BY <2>1, <2>2
<1> QED
  BY <1>2, <1>3 DEF EditInv

LEMMA ArriveEdit == ASSUME TypeInv, EditInv, NEW t \in Tab, Arrive(t) PROVE EditInv'
<1>1. /\ fetch' = [fetch EXCEPT ![t] = NoFetch] /\ fetch[t].pc = "answered"
      /\ UNCHANGED <<db, tab, dirty, save, request, typed, hasty, undone>>
  BY DEF Arrive, server
<1>2. fetch'[tab] = fetch[tab] \/ fetch'[tab].pc = "none"
  BY <1>1, Constants0, Typed DEF TypeInv, TypeOK
<1>3. ASSUME NEW k \in Key, Kept(k) PROVE Kept(k)'
  <2>1. CASE Fills(t)
    <3>1. form' = fetch[t].data /\ t = tab /\ ~dirty
      BY <2>1 DEF Arrive, Fills
    <3> QED
      BY <1>1, <1>2, <1>3, <3>1 DEF Kept, Saving
  <2>2. CASE ~Fills(t)
    BY <1>1, <1>2, <1>3, <2>2 DEF Arrive, Kept, Saving
  <2> QED
    BY <2>1, <2>2
<1> QED
  BY <1>1, <1>3 DEF EditInv

LEMMA FailFetchEdit == ASSUME TypeInv, EditInv, NEW t \in Tab, FailFetch(t) PROVE EditInv'
<1>1. /\ fetch' = [fetch EXCEPT ![t] = NoFetch]
      /\ UNCHANGED <<db, tab, form, dirty, save, request, typed, hasty, undone>>
  BY DEF FailFetch, server
<1>2. fetch'[tab] = fetch[tab] \/ fetch'[tab].pc = "none"
  BY <1>1, Constants0, Typed DEF TypeInv, TypeOK
<1>3. ASSUME NEW k \in Key, Kept(k) PROVE Kept(k)'
  BY <1>1, <1>2, <1>3 DEF Kept, Saving
<1> QED
  BY <1>1, <1>3 DEF EditInv

\* Steps that change nothing the invariant looks at.
LEMMA SameEdit ==
    ASSUME EditInv, UNCHANGED <<db, tab, form, dirty, fetch, save, request, typed, hasty, undone>>
    PROVE  EditInv'
BY DEF EditInv, Kept, Saving

\* Steps that discard what was typed.
LEMMA DiscardEdit == ASSUME typed' = Nothing PROVE EditInv'
BY NothingType DEF EditInv

LEMMA TypeEdit == ASSUME TypeInv, EditInv, NEW k \in Key, Type(k) PROVE EditInv'
<1>1. /\ k \in DOMAIN form /\ dirty'
      /\ form' = [form EXCEPT ![k] = edits + 1]
      /\ typed' = [typed EXCEPT ![k] = edits + 1]
      /\ hasty' = IF Saving THEN hasty \cup {k} ELSE hasty \ {k}
      /\ undone' = undone \ {k}
      /\ UNCHANGED <<db, save, request, tab>>
  BY DEF Type, server
<1>2. ASSUME NEW j \in Key, typed'[j] # 0, j \notin hasty' \cup undone' PROVE Kept(j)'
  <2>1. CASE j = k
    <3>1. k \in KeysOf(tab)
      BY <1>1 DEF TypeInv, TypeOK
    <3> QED
      BY <1>1, <1>2, <2>1, <3>1 DEF Kept, Saving, TypeInv, TypeOK
  <2>2. CASE j # k
    <3>1. typed[j] # 0 /\ j \notin hasty \cup undone /\ typed'[j] = typed[j]
      BY <1>1, <1>2, <2>2 DEF TypeInv, TypeOK
    <3>2. Kept(j)
      BY <3>1 DEF EditInv
    <3>3. CASE dirty
      BY <1>1, <2>2, <3>1, <3>2, <3>3 DEF Kept, Saving
    <3>4. CASE ~dirty
      <4>1. k \in KeysOf(tab) /\ DOMAIN form = KeysOf(tab)
        BY <1>1 DEF TypeInv, TypeOK
      <4> QED
        BY <1>1, <2>2, <3>1, <3>2, <3>4, <4>1 DEF Kept, Saving
    <3> QED
      BY <3>3, <3>4
  <2> QED
    BY <2>1, <2>2
<1> QED
  BY <1>2 DEF EditInv

LEMMA SaveEdit == ASSUME TypeInv, EditInv, NEW r \in Slot, Save(r) PROVE EditInv'
<1>1. UNCHANGED <<db, tab, form, dirty, fetch, typed, hasty, undone>>
  BY DEF Save, observers
<1>2. ASSUME NEW k \in Key, Kept(k) PROVE Kept(k)'
  BY <1>1, <1>2, SaveMoves DEF Kept
<1> QED
  BY <1>1, <1>2 DEF EditInv

\* The handler that the page waits for writes what was typed; what another one writes
\* counts as undone.
LEMMA UpdateKeyEdit ==
    ASSUME TypeInv, EditInv, NEW r \in Slot, NEW k \in Key, UpdateKey(r, k)
    PROVE  EditInv'
<1>1. /\ k \in request[r].left /\ Passed(r, k)
      /\ db' = [db EXCEPT ![k] = request[r].values[k]]
      /\ undone' = IF Waits(r) THEN undone ELSE Spoilt(k)
      /\ UNCHANGED <<tab, form, dirty, fetch, save, typed, hasty>>
  BY DEF UpdateKey, page
<1>2. \A j \in Key : j # k => db'[j] = db[j]
  BY <1>1 DEF TypeInv, TypeOK
<1>3. db'[k] = request[r].values[k]
  BY <1>1 DEF TypeInv, TypeOK
<1>4. ASSUME NEW j \in Key, typed[j] # 0, j \notin hasty \cup undone'
      PROVE  Kept(j)'
  <2>1. j \notin undone /\ Kept(j) /\ (j = k => Waits(r))
    BY <1>1, <1>4 DEF Spoilt, EditInv
  <2>2. CASE Waits(r)
    <3>1. Saving /\ r = save.of /\ dirty
      BY <2>1, <2>2 DEF Waits, Saving, Kept
    <3>2. /\ request'[r].values = request[r].values /\ request'[r].left = request[r].left \ {k}
      BY <1>1, <2>2, PassedMoves
    <3> QED
      BY <1>1, <1>2, <1>3, <2>1, <3>1, <3>2 DEF Kept, Saving
  <2>3. CASE ~Waits(r)
    <3>1. Saving => request'[save.of] = request[save.of]
      BY <1>1, <2>3, PassedMoves, Typed DEF Waits, Saving
    <3>2. db'[j] = db[j]
      BY <1>2, <2>1, <2>3
    <3> QED
      BY <1>1, <2>1, <3>1, <3>2 DEF Kept, Saving
  <2> QED
    BY <2>2, <2>3
<1> QED
  BY <1>1, <1>4 DEF EditInv

LEMMA FailUpdateEdit ==
    ASSUME TypeInv, EditInv, NEW r \in Slot, NEW k \in Key, FailUpdate(r, k)
    PROVE  EditInv'
<1>1. /\ k \in request[r].left /\ Passed(r, k)
      /\ undone' = IF Waits(r) THEN Spoilt(k) ELSE undone
      /\ UNCHANGED <<db, tab, form, dirty, fetch, save, typed, hasty>>
  BY DEF FailUpdate, page
<1>2. ASSUME NEW j \in Key, typed[j] # 0, j \notin hasty \cup undone'
      PROVE  Kept(j)'
  <2>1. j \notin undone /\ Kept(j) /\ (j = k => ~Waits(r))
    BY <1>1, <1>2 DEF Spoilt, EditInv
  <2>2. CASE Waits(r)
    <3>1. Saving /\ r = save.of
      BY <2>2 DEF Waits, Saving
    <3>2. /\ request'[r].values = request[r].values /\ request'[r].left = request[r].left \ {k}
      BY <1>1, <2>2, PassedMoves
    <3> QED
      BY <1>1, <2>1, <2>2, <3>1, <3>2 DEF Kept, Saving
  <2>3. CASE ~Waits(r)
    <3>1. Saving => request'[save.of] = request[save.of]
      BY <1>1, <2>3, PassedMoves, Typed DEF Waits, Saving
    <3> QED
      BY <1>1, <2>1, <3>1 DEF Kept, Saving
  <2> QED
    BY <2>2, <2>3
<1> QED
  BY <1>1, <1>2 DEF EditInv

\* The page does not wait any more, but the values are still in the form.
LEMMA LoseSaveEdit == ASSUME TypeInv, EditInv, LoseSave PROVE EditInv'
<1>1. save' = NoSave /\ Saving /\ UNCHANGED <<db, tab, form, dirty, fetch, typed, hasty, undone>>
  BY DEF LoseSave
<1>2. ASSUME NEW k \in Key, Kept(k) PROVE Kept(k)'
  BY <1>1, <1>2, Constants0 DEF Kept, Saving
<1> QED
  BY <1>1, <1>2 DEF EditInv

LEMMA OnSuccessEdit == ASSUME TypeInv, EditInv, NEW x \in Slot, OnSuccess(x) PROVE EditInv'
<1>1. ~dirty' /\ UNCHANGED <<db, tab, form, typed, hasty, undone>>
  BY DEF OnSuccess
<1>2. fetch'[tab].pc = "asked"
  BY OnSuccessMoves, Constants0
<1>3. ASSUME NEW k \in Key, Kept(k) PROVE Kept(k)'
  <2>1. dirty /\ db[k] = typed[k]
    BY <1>3, OnSuccessMoves DEF Kept
  <2> QED
    BY <1>1, <1>2, <1>3, <2>1, OnSuccessMoves DEF Kept
<1> QED
  BY <1>1, <1>3 DEF EditInv

\* The end of a wait for a push: no save was waited for, and none is now.
LEMMA EndedEdit ==
    ASSUME TypeInv, EditInv, save' = save \/ (~Saving /\ save' = NoSave),
           UNCHANGED <<db, tab, form, dirty, fetch, request, typed, hasty, undone>>
    PROVE  EditInv'
<1>1. ASSUME NEW k \in Key, Kept(k) PROVE Kept(k)'
  BY <1>1, Constants0 DEF Kept, Saving
<1> QED
  BY <1>1 DEF EditInv

LEMMA EditStep == TypeInv /\ EditInv /\ [Next]_vars => EditInv'
<1> SUFFICES ASSUME TypeInv, EditInv, [Next]_vars PROVE EditInv'
  OBVIOUS
<1>1. CASE Administrator
  <2>1. ASSUME (\E t \in Tab : SelectTab(t)) \/ Reset PROVE EditInv'
    BY <2>1, DiscardEdit DEF SelectTab, Reset
  <2> QED
    BY <1>1, <2>1, TypeEdit, SaveEdit DEF Administrator
<1>2. CASE Browser
  <2>1. ASSUME NEW t \in Tab, Age(t) PROVE EditInv'
    BY <2>1, SameEdit DEF Age, observers, server
  <2>2. ASSUME LosePush PROVE EditInv'
    BY <2>2, EndedEdit DEF LosePush, Saving, server
  <2> QED
    BY <1>2, <2>1, <2>2, QueryEdit, ArriveEdit, FailFetchEdit, LoseSaveEdit, OnSuccessEdit DEF Browser
<1>3. CASE Server
  <2>1. ASSUME NEW x \in Slot, PushOnInform(x) PROVE EditInv'
    BY <2>1, SameEdit DEF PushOnInform, page, observers
  <2>2. ASSUME NEW x \in Slot, NEW k \in OfVendor, ReadKey(x, k) \/ FailRead(x, k) PROVE EditInv'
    BY <2>2, SameEdit DEF ReadKey, FailRead, page, observers
  <2>3. ASSUME NEW x \in Slot, Send(x) \/ Refuse(x) PROVE EditInv'
    BY <2>3, EndedEdit DEF Send, Refuse, Returned, WaitsForPush, Saving
  <2> QED
    BY <1>3, <2>1, <2>2, <2>3, UpdateKeyEdit, FailUpdateEdit DEF Server
<1>4. CASE UNCHANGED vars
  BY <1>4, SameEdit DEF vars
<1> QED
  BY <1>1, <1>2, <1>3, <1>4 DEF Next

\* A typed value stays in the form until it is stored, whatever fetches and saves come back
\* in between, and however many handlers of saves that were given up are at work: what is
\* not kept was typed in haste, failed to be written, or was written by such a handler.
THEOREM EditsAreKept == Spec => []EditIsKept
<1>1. EditInv => EditIsKept
  BY DEF EditInv, Kept, EditIsKept
<1>2. Init => TypeInv /\ EditInv
  BY TypeInit, EditInit
<1>3. TypeInv /\ EditInv /\ [Next]_vars => (TypeInv /\ EditInv)'
  BY TypeStep, EditStep
<1> QED
  BY <1>1, <1>2, <1>3, PTL DEF Spec

-----------------------------------------------------------------------------
(* A blank form is awaited.                                                *)

\* What is in the cache is shown, so a form that is not filled has nothing complete there;
\* what can be changed is filled.
BlankInv ==
    /\ dirty => Complete(tab, form)
    /\ (~Complete(tab, form) /\ ~blanked) =>
          fetch[tab].pc # "none" /\ ~Complete(tab, cache[tab].data)

LEMMA BlankInit == Init => BlankInv
BY Constants0, KeysType DEF Init, BlankInv, Complete

LEMMA SameBlank ==
    ASSUME BlankInv, UNCHANGED <<tab, form, dirty, cache, fetch, blanked>>
    PROVE  BlankInv'
BY DEF BlankInv, Complete

LEMMA QueryBlank == ASSUME TypeInv, BlankInv, NEW t \in Tab, Query(t) PROVE BlankInv'
<1>1. \A u \in Tab : fetch[u].pc # "none" => fetch'[u].pc # "none"
  BY Typed DEF Query
<1> QED
  BY <1>1 DEF Query, BlankInv, Complete, TypeInv, TypeOK

LEMMA ArriveBlank == ASSUME TypeInv, BlankInv, NEW t \in Tab, Arrive(t) PROVE BlankInv'
<1>1. /\ cache' = [cache EXCEPT ![t] = [has |-> TRUE, fresh |-> TRUE, data |-> fetch[t].data]]
      /\ fetch' = [fetch EXCEPT ![t] = NoFetch]
      /\ blanked' = (blanked \/ (t = tab /\ ~Complete(t, fetch[t].data)))
      /\ UNCHANGED <<tab, dirty>>
  BY DEF Arrive
<1>2. CASE Fills(t)
  <2>1. form' = fetch[t].data /\ t = tab /\ ~dirty
    BY <1>2 DEF Arrive, Fills
  <2> QED
    BY <1>1, <2>1 DEF BlankInv, Complete
<1>3. CASE ~Fills(t)
  <2>1. form' = form
    BY <1>3 DEF Arrive
  <2>2. ASSUME ~Complete(tab, form), ~blanked'
        PROVE  fetch'[tab].pc # "none" /\ ~Complete(tab, cache'[tab].data)
    <3>1. ~Complete(tab, cache[tab].data) /\ fetch[tab].pc # "none" /\ ~dirty
      BY <1>1, <2>2 DEF BlankInv
    <3>2. t = tab => Complete(t, fetch[t].data)
      BY <1>1, <2>2
    <3>3. t # tab
      BY <1>3, <3>1, <3>2 DEF Fills, Complete
    <3> QED
      BY <1>1, <3>1, <3>3, Typed DEF TypeInv, TypeOK, Complete
  <2> QED
    BY <1>1, <2>1, <2>2 DEF BlankInv, Complete
<1> QED
  BY <1>2, <1>3

LEMMA FailFetchBlank == ASSUME TypeInv, BlankInv, NEW t \in Tab, FailFetch(t) PROVE BlankInv'
<1>1. \A u \in Tab : u # t => fetch'[u] = fetch[u]
  BY Typed DEF FailFetch
<1>2. t = tab => blanked'
  BY DEF FailFetch
<1> QED
  BY <1>1, <1>2 DEF FailFetch, BlankInv, Complete, TypeInv, TypeOK

LEMMA AgeBlank == ASSUME TypeInv, BlankInv, NEW t \in Tab, Age(t) PROVE BlankInv'
<1>1. \A u \in Tab : cache'[u].data = cache[u].data
  BY StaleCache DEF Age
<1> QED
  BY <1>1 DEF Age, observers, BlankInv, Complete, TypeInv, TypeOK

LEMMA SelectTabBlank == ASSUME TypeInv, BlankInv, NEW t \in Tab, SelectTab(t) PROVE BlankInv'
<1>1. /\ UNCHANGED cache /\ tab' = t /\ ~dirty'
      /\ blanked' = (t = tab \/ (cache[t].fresh /\ ~Complete(t, cache[t].data)))
  BY DEF SelectTab
<1>2. ASSUME ~Complete(t, form'), ~blanked'
      PROVE  fetch'[t].pc # "none" /\ ~Complete(t, cache[t].data)
  <2>1. t # tab
    BY <1>1, <1>2
  <2>2. ~Complete(t, cache[t].data)
    <3>1. CASE cache[t].has
      BY <1>2, <2>1, <3>1, SelectTabMoves DEF Complete
    <3>2. CASE ~cache[t].has
      BY <1>2, <2>1, <3>2, SelectTabMoves, BlankType DEF Complete, TypeInv, Answers
    <3> QED
      BY <3>1, <3>2
  <2>3. ~cache[t].fresh
    BY <1>1, <1>2, <2>2
  <2> QED
    BY <2>1, <2>2, <2>3, SelectTabMoves, Constants0 DEF NeedsFetch
<1> QED
  BY <1>1, <1>2 DEF BlankInv, Complete

LEMMA TypeBlank == ASSUME TypeInv, BlankInv, NEW k \in Key, Type(k) PROVE BlankInv'
<1>1. DOMAIN form = KeysOf(tab) /\ DOMAIN form' = DOMAIN form
  BY DEF Type, TypeInv, TypeOK
<1> QED
  BY <1>1 DEF Type, BlankInv, Complete

LEMMA ResetBlank == ASSUME TypeInv, BlankInv, Reset PROVE BlankInv'
BY DEF Reset, BlankInv, Complete

LEMMA OnSuccessBlank == ASSUME TypeInv, BlankInv, NEW x \in Slot, OnSuccess(x) PROVE BlankInv'
<1>1. fetch'[tab].pc # "none" /\ cache'[tab].data = cache[tab].data
  BY OnSuccessMoves, StaleCache, Constants0
<1>2. ~dirty' /\ UNCHANGED <<tab, form, blanked>>
  BY DEF OnSuccess
<1>3. CASE Complete(tab, form)
  BY <1>2, <1>3 DEF BlankInv, Complete
<1>4. CASE ~Complete(tab, form)
  BY <1>1, <1>2, <1>4 DEF BlankInv, Complete
<1> QED
  BY <1>3, <1>4

LEMMA BlankStep == TypeInv /\ BlankInv /\ [Next]_vars => BlankInv'
<1> SUFFICES ASSUME TypeInv, BlankInv, [Next]_vars PROVE BlankInv'
  OBVIOUS
<1>1. CASE Administrator
  <2>1. ASSUME NEW r \in Slot, Save(r) PROVE BlankInv'
    BY <2>1, SameBlank DEF Save, observers
  <2> QED
    BY <1>1, <2>1, SelectTabBlank, TypeBlank, ResetBlank DEF Administrator
<1>2. CASE Browser
  <2>1. ASSUME LoseSave \/ LosePush PROVE BlankInv'
    BY <2>1, SameBlank DEF LoseSave, LosePush
  <2> QED
    BY <1>2, <2>1, QueryBlank, ArriveBlank, FailFetchBlank, AgeBlank, OnSuccessBlank DEF Browser
<1>3. CASE Server
  <2>1. UNCHANGED <<tab, form, dirty, cache, fetch, blanked>>
    BY <1>3 DEF Server, UpdateKey, FailUpdate, PushOnInform, Send, Refuse, ReadKey, FailRead,
                page, observers
  <2> QED
    BY <2>1, SameBlank
<1>4. CASE UNCHANGED vars
  BY <1>4, SameBlank DEF vars
<1> QED
  BY <1>1, <1>2, <1>3, <1>4 DEF Next

\* Whatever tabs are selected and whatever fetches, saves and errors come back in between: a
\* form that is not filled is waiting for an answer.
THEOREM BlanksAreAwaited == Spec => []BlankIsAwaited
<1>1. BlankInv => BlankIsAwaited
  BY DEF BlankInv, BlankIsAwaited, Complete
<1>2. Init => TypeInv /\ BlankInv
  BY TypeInit, BlankInit
<1>3. TypeInv /\ BlankInv /\ [Next]_vars => (TypeInv /\ BlankInv)'
  BY TypeStep, BlankStep
<1> QED
  BY <1>1, <1>2, <1>3, PTL DEF Spec

-----------------------------------------------------------------------------
(* A save does not write older values.                                     *)

\* No value is newer than the last edit.
Bounded ==
    /\ \A k \in Key : db[k] <= edits
    /\ \A k \in DOMAIN form : form[k] <= edits
    /\ \A r \in Slot : \A k \in DOMAIN request[r].values : request[r].values[k] <= edits
    /\ \A t \in Tab : /\ \A k \in DOMAIN cache[t].data : cache[t].data[k] <= edits
                      /\ \A k \in DOMAIN fetch[t].data : fetch[t].data[k] <= edits

\* A tab that no handler is writing and that has been read since one did.
Calm(t) == t \notin missed /\ ~Writing(t)

\* Fresh data and an answer for a calm tab are not older than the database.
Recent(t) ==
    /\ fetch[t].pc # "none" => ~cache[t].fresh
    /\ Calm(t) => /\ cache[t].fresh => \A k \in DOMAIN cache[t].data : cache[t].data[k] >= db[k]
                  /\ fetch[t].pc = "answered" =>
                        \A k \in DOMAIN fetch[t].data : fetch[t].data[k] >= db[k]

\* Neither is a form without doubt, nor older than what any handler has still to write, ...
FormRecent == ~doubt => \A k \in DOMAIN form :
    /\ form[k] >= db[k]
    /\ \A r \in Slot : k \in request[r].left => form[k] >= request[r].values[k]

\* ... nor is a save that was made of it.
SaveRecent == (Saving /\ ~request[save.of].doubt) => \A k \in request[save.of].left :
    /\ request[save.of].values[k] >= db[k]
    /\ \A r \in Slot : k \in request[r].left => request[save.of].values[k] >= request[r].values[k]

SaveInv == Bounded /\ (\A t \in Tab : Recent(t)) /\ FormRecent /\ SaveRecent

LEMMA Numbers ==
    ASSUME TypeInv
    PROVE  /\ edits \in Nat
           /\ \A k \in Key : db[k] \in Nat
           /\ \A k \in DOMAIN form : k \in Key /\ form[k] \in Nat
           /\ \A r \in Slot : \A k \in DOMAIN request[r].values :
                  k \in Key /\ request[r].values[k] \in Nat
           /\ \A t \in Tab : /\ \A k \in DOMAIN cache[t].data : cache[t].data[k] \in Nat
                             /\ \A k \in DOMAIN fetch[t].data : fetch[t].data[k] \in Nat
<1>1. edits \in Value /\ db \in [Key -> Value]
  BY DEF TypeInv, TypeOK
<1>2. \A r \in Slot : \A k \in DOMAIN request[r].values :
          k \in Key /\ request[r].values[k] \in Value
  BY Typed
<1>3. \A t \in Tab : /\ \A k \in DOMAIN cache[t].data : cache[t].data[k] \in Value
                     /\ \A k \in DOMAIN fetch[t].data : fetch[t].data[k] \in Value
  BY Typed
<1> QED
  BY <1>1, <1>2, <1>3, Typed, ValueType

\* A handler that has a key of a tab left is writing the tab.
LEMMA Busy ==
    ASSUME TypeInv, NEW t \in Tab, NEW k \in KeysOf(t), NEW r \in Slot, k \in request[r].left
    PROVE  Writing(t)
<1>1. k \in KeysOf(request[r].tab) /\ request[r].tab \in Tab
  BY Typed DEF TypeInv, Handlers
<1>2. request[r].tab = t
  BY <1>1 DEF KeysOf
<1> QED
  BY <1>2 DEF Writing

LEMMA SaveInit == Init => SaveInv
<1> SUFFICES ASSUME Init PROVE SaveInv
  OBVIOUS
<1>1. \A t \in Tab : cache[t] = NoData /\ fetch[t].data = Blank /\ fetch[t].pc # "answered"
  BY Constants0 DEF Init
<1>2. \A r \in Slot : request[r].values = Blank
  BY Constants0 DEF Init
<1>3. ~Saving /\ form = Blank
  BY Constants0 DEF Init, Saving
<1>4. Bounded
  BY <1>1, <1>2, <1>3, Constants0, BlankType DEF Bounded, Init
<1> QED
  BY <1>1, <1>3, <1>4, Constants0, BlankType DEF SaveInv, Recent, FormRecent, SaveRecent

\* Steps that change nothing the invariant looks at, if no save was waited for.
LEMMA SameSave ==
    ASSUME SaveInv, UNCHANGED <<db, form, cache, fetch, request, edits, doubt, missed>>,
           save' = save \/ (~Saving /\ ~Saving')
    PROVE  SaveInv'
<1>1. \A t \in Tab : Writing(t)' <=> Writing(t)
  BY DEF Writing, Waits, Saving
<1>2. \A t \in Tab : Recent(t)'
  BY <1>1 DEF SaveInv, Recent, Calm
<1>3. Bounded' /\ FormRecent' /\ SaveRecent'
  BY DEF SaveInv, Bounded, FormRecent, SaveRecent, Saving
<1> QED
  BY <1>2, <1>3 DEF SaveInv

\* Steps of the browser that leave the save, the handlers and the database alone.
LEMMA BrowserSave ==
    ASSUME SaveInv, UNCHANGED <<db, save, request>>,
           Bounded', \A t \in Tab : Recent(t)', FormRecent'
    PROVE  SaveInv'
BY DEF SaveInv, SaveRecent, Saving

LEMMA SameWriting ==
    ASSUME UNCHANGED <<save, request>>
    PROVE  \A t \in Tab : Writing(t)' <=> Writing(t)
BY DEF Writing, Waits

LEMMA QuerySave == ASSUME TypeInv, SaveInv, NEW t \in Tab, Query(t) PROVE SaveInv'
<1>1. PICK d \in {Stored(t), Blank} : fetch' = [fetch EXCEPT ![t] = [pc |-> "answered", data |-> d]]
  BY DEF Query
<1>2. /\ fetch[t].pc = "asked" /\ missed' = missed \ {t}
      /\ UNCHANGED <<db, form, cache, save, request, edits, doubt>>
  BY DEF Query, server
<1>3. /\ fetch'[t].data = d
      /\ \A u \in Tab : u # t => fetch'[u] = fetch[u]
  BY <1>1, Typed
<1>4. \A k \in DOMAIN d : k \in Key /\ d[k] = db[k]
  BY BlankType, KeysType DEF Stored
<1>5. Bounded'
  BY <1>2, <1>3, <1>4 DEF SaveInv, Bounded
<1>6. ASSUME NEW u \in Tab PROVE Recent(u)'
  <2>1. CASE u = t
    BY <1>2, <1>3, <1>4, <2>1, Numbers DEF SaveInv, Recent
  <2>2. CASE u # t
    BY <1>2, <1>3, <2>2, SameWriting DEF SaveInv, Recent, Calm
  <2> QED
    BY <2>1, <2>2
<1>7. FormRecent'
  BY <1>2 DEF SaveInv, FormRecent
<1> QED
  BY <1>2, <1>5, <1>6, <1>7, BrowserSave

LEMMA ArriveSave == ASSUME TypeInv, SaveInv, NEW t \in Tab, Arrive(t) PROVE SaveInv'
<1>1. /\ fetch[t].pc = "answered"
      /\ cache' = [cache EXCEPT ![t] = [has |-> TRUE, fresh |-> TRUE, data |-> fetch[t].data]]
      /\ fetch' = [fetch EXCEPT ![t] = NoFetch]
      /\ UNCHANGED <<db, save, request, edits, missed>>
  BY DEF Arrive, bounds, server
<1>2. /\ cache'[t].data = fetch[t].data
      /\ fetch'[t].pc = "none" /\ fetch'[t].data = Blank
      /\ \A u \in Tab : u # t => fetch'[u] = fetch[u] /\ cache'[u] = cache[u]
  BY <1>1, Constants0, Typed
<1>3. \/ form' = fetch[t].data /\ doubt' = (Writing(t) \/ t \in missed)
      \/ UNCHANGED <<form, doubt>>
  BY DEF Arrive
<1>4. Bounded'
  <2>1. \A k \in DOMAIN form' : form'[k] <= edits
    BY <1>3 DEF SaveInv, Bounded
  <2> QED
    BY <1>1, <1>2, <2>1, BlankType DEF SaveInv, Bounded
<1>5. ASSUME NEW u \in Tab PROVE Recent(u)'
  <2>1. CASE u = t
    BY <1>1, <1>2, <2>1, SameWriting DEF SaveInv, Recent, Calm
  <2>2. CASE u # t
    BY <1>1, <1>2, <2>2, SameWriting DEF SaveInv, Recent, Calm
  <2> QED
    BY <2>1, <2>2
<1>6. FormRecent'
  <2>1. CASE form' = fetch[t].data /\ doubt' = (Writing(t) \/ t \in missed)
    <3> SUFFICES ASSUME ~doubt', NEW k \in DOMAIN fetch[t].data
                 PROVE  /\ fetch[t].data[k] >= db[k]
                        /\ \A r \in Slot : k \notin request[r].left
      BY <1>1, <2>1 DEF FormRecent
    <3>1. k \in KeysOf(t)
      BY DEF TypeInv, Answers
    <3>2. Calm(t)
      BY <2>1 DEF Calm
    <3> QED
      BY <1>1, <3>1, <3>2, Busy DEF SaveInv, Recent, Calm
  <2>2. CASE UNCHANGED <<form, doubt>>
    BY <1>1, <2>2 DEF SaveInv, FormRecent
  <2> QED
    BY <1>3, <2>1, <2>2
<1> QED
  BY <1>1, <1>4, <1>5, <1>6, BrowserSave

LEMMA FailFetchSave == ASSUME TypeInv, SaveInv, NEW t \in Tab, FailFetch(t) PROVE SaveInv'
<1>1. /\ fetch' = [fetch EXCEPT ![t] = NoFetch]
      /\ UNCHANGED <<db, form, cache, save, request, edits, doubt, missed>>
  BY DEF FailFetch, server
<1>2. \A u \in Tab : fetch'[u] = fetch[u] \/ (fetch'[u].pc = "none" /\ fetch'[u].data = Blank)
  BY <1>1, Constants0, Typed
<1>3. Bounded'
  BY <1>1, <1>2, BlankType DEF SaveInv, Bounded
<1>4. \A u \in Tab : Recent(u)'
  BY <1>1, <1>2, SameWriting DEF SaveInv, Recent, Calm
<1>5. FormRecent'
  BY <1>1 DEF SaveInv, FormRecent
<1> QED
  BY <1>1, <1>3, <1>4, <1>5, BrowserSave

LEMMA AgeSave == ASSUME TypeInv, SaveInv, NEW t \in Tab, Age(t) PROVE SaveInv'
<1>1. UNCHANGED <<db, form, fetch, save, request, edits, doubt, missed>>
  BY DEF Age, observers, server
<1>2. \A u \in Tab : cache'[u].data = cache[u].data /\ (cache'[u].fresh => cache[u].fresh)
  BY StaleCache DEF Age
<1>3. Bounded'
  BY <1>1, <1>2 DEF SaveInv, Bounded
<1>4. \A u \in Tab : Recent(u)'
  BY <1>1, <1>2, SameWriting DEF SaveInv, Recent, Calm
<1>5. FormRecent'
  BY <1>1 DEF SaveInv, FormRecent
<1> QED
  BY <1>1, <1>3, <1>4, <1>5, BrowserSave

\* A form made of fresh data of a calm tab.
LEMMA FilledRecent ==
    ASSUME TypeInv, SaveInv, NEW t \in Tab, cache[t].has, form' = cache[t].data,
           doubt' = Doubtful(t), UNCHANGED <<db, request>>
    PROVE  FormRecent'
<1> SUFFICES ASSUME ~doubt', NEW k \in DOMAIN cache[t].data
             PROVE  /\ cache[t].data[k] >= db[k]
                    /\ \A r \in Slot : k \notin request[r].left
  BY DEF FormRecent
<1>1. Calm(t) /\ cache[t].fresh
  BY DEF Doubtful, Calm
<1>2. k \in KeysOf(t)
  BY DEF TypeInv, Answers
<1> QED
  BY <1>1, <1>2, Busy DEF SaveInv, Recent, Calm

LEMMA SelectTabSave == ASSUME TypeInv, SaveInv, NEW t \in Tab, SelectTab(t) PROVE SaveInv'
<1>1. /\ doubt' = (t # tab /\ cache[t].has /\ Doubtful(t))
      /\ UNCHANGED <<db, cache, save, request, edits, missed>>
  BY DEF SelectTab, bounds, server
<1>2. \A u \in Tab : \/ fetch'[u] = fetch[u]
                     \/ fetch'[u].pc = "asked" /\ fetch'[u].data = Blank /\ ~cache[u].fresh
  BY SelectTabMoves, Constants0 DEF NeedsFetch
<1>3. \/ t # tab /\ cache[t].has /\ form' = cache[t].data
      \/ DOMAIN form' = {}
  BY SelectTabMoves
<1>4. Bounded'
  <2>1. \A k \in DOMAIN form' : form'[k] <= edits
    BY <1>3 DEF SaveInv, Bounded
  <2> QED
    BY <1>1, <1>2, <2>1, BlankType DEF SaveInv, Bounded
<1>5. \A u \in Tab : Recent(u)'
  BY <1>1, <1>2, SameWriting DEF SaveInv, Recent, Calm
<1>6. FormRecent'
  <2>1. CASE t # tab /\ cache[t].has /\ form' = cache[t].data
    <3>1. doubt' = Doubtful(t)
      BY <1>1, <2>1 DEF Doubtful, Writing
    <3> QED
      BY <1>1, <2>1, <3>1, FilledRecent
  <2>2. CASE DOMAIN form' = {}
    BY <2>2 DEF FormRecent
  <2> QED
    BY <1>3, <2>1, <2>2
<1> QED
  BY <1>1, <1>4, <1>5, <1>6, BrowserSave

LEMMA TypeSave == ASSUME TypeInv, SaveInv, NEW k \in Key, Type(k) PROVE SaveInv'
<1>1. /\ form' = [form EXCEPT ![k] = edits + 1] /\ edits' = edits + 1
      /\ UNCHANGED <<db, cache, fetch, save, request, doubt, missed>>
  BY DEF Type, server
<1>2. \A j \in DOMAIN form : form'[j] = IF j = k THEN edits + 1 ELSE form[j]
  BY <1>1
<1>3. Bounded'
  <2>1. /\ \A j \in Key : db[j] <= edits + 1
        /\ \A r \in Slot : \A j \in DOMAIN request[r].values : request[r].values[j] <= edits + 1
    BY Numbers DEF SaveInv, Bounded
  <2>2. \A t \in Tab : /\ \A j \in DOMAIN cache[t].data : cache[t].data[j] <= edits + 1
                       /\ \A j \in DOMAIN fetch[t].data : fetch[t].data[j] <= edits + 1
    BY Numbers DEF SaveInv, Bounded
  <2>3. \A j \in DOMAIN form' : form'[j] <= edits + 1
    BY <1>1, <1>2, Numbers DEF SaveInv, Bounded
  <2> QED
    BY <1>1, <2>1, <2>2, <2>3 DEF Bounded
<1>4. \A u \in Tab : Recent(u)'
  BY <1>1, SameWriting DEF SaveInv, Recent, Calm
<1>5. FormRecent'
  <2> SUFFICES ASSUME ~doubt, NEW j \in DOMAIN form
               PROVE  /\ form'[j] >= db[j]
                      /\ \A r \in Slot : j \in request[r].left => form'[j] >= request[r].values[j]
    BY <1>1 DEF FormRecent
  <2>1. CASE j = k
    <3>1. db[j] <= edits /\ db[j] \in Nat /\ edits \in Nat /\ form'[j] = edits + 1
      BY <1>2, <2>1, Numbers DEF SaveInv, Bounded
    <3>2. ASSUME NEW r \in Slot, j \in request[r].left PROVE form'[j] >= request[r].values[j]
      <4>1. j \in DOMAIN request[r].values
        BY <3>2 DEF TypeInv, Handlers
      <4> QED
        BY <3>1, <4>1, Numbers DEF SaveInv, Bounded
    <3> QED
      BY <3>1, <3>2
  <2>2. CASE j # k
    BY <1>2, <2>2 DEF SaveInv, FormRecent
  <2> QED
    BY <2>1, <2>2
<1> QED
  BY <1>1, <1>3, <1>4, <1>5, BrowserSave

LEMMA ResetSave == ASSUME TypeInv, SaveInv, Reset PROVE SaveInv'
<1>1. /\ cache[tab].has /\ form' = cache[tab].data /\ doubt' = Doubtful(tab)
      /\ UNCHANGED <<db, cache, fetch, save, request, edits, missed>>
  BY DEF Reset, bounds, server
<1>2. tab \in Tab
  BY DEF TypeInv, TypeOK
<1>3. Bounded'
  BY <1>1, <1>2 DEF SaveInv, Bounded
<1>4. \A u \in Tab : Recent(u)'
  BY <1>1, SameWriting DEF SaveInv, Recent, Calm
<1>5. FormRecent'
  BY <1>1, <1>2, FilledRecent
<1> QED
  BY <1>1, <1>3, <1>4, <1>5, BrowserSave

LEMMA SaveSave == ASSUME TypeInv, SaveInv, NEW r \in Slot, Save(r) PROVE SaveInv'
<1>1. UNCHANGED <<db, form, cache, fetch, edits, doubt, missed>>
  BY DEF Save, bounds, observers
<1>2. /\ request'[r].values = form /\ request'[r].left = DOMAIN form /\ request'[r].doubt = doubt
      /\ \A q \in Slot : q # r => request'[q] = request[q]
      /\ save'.of = r /\ save.pc = "idle" /\ request[r].left = {}
  BY SaveMoves, Constants0
<1>3. Bounded'
  BY <1>1, <1>2 DEF SaveInv, Bounded
<1>4. \A u \in Tab : Writing(u) => Writing(u)'
  BY <1>2 DEF Writing, Waits
<1>5. \A u \in Tab : Recent(u)'
  BY <1>1, <1>4 DEF SaveInv, Recent, Calm
<1>6. FormRecent'
  <2> SUFFICES ASSUME ~doubt, NEW k \in DOMAIN form, NEW q \in Slot, k \in request'[q].left
               PROVE  form[k] >= request'[q].values[k]
    BY <1>1 DEF FormRecent, SaveInv
  <2>1. CASE q = r
    BY <1>2, <2>1, Numbers
  <2>2. CASE q # r
    BY <1>2, <2>2 DEF SaveInv, FormRecent
  <2> QED
    BY <2>1, <2>2
<1>7. SaveRecent'
  BY <1>1, <1>2, <1>6 DEF SaveRecent, FormRecent
<1> QED
  BY <1>3, <1>5, <1>6, <1>7 DEF SaveInv

\* A handler that has dealt with a key: what the tabs and the values of the others say.
LEMMA PassedRecent ==
    ASSUME TypeInv, SaveInv, NEW r \in Slot, NEW k \in request[r].left, Passed(r, k),
           UNCHANGED <<form, cache, fetch, save, edits, doubt>>,
           \A j \in Key : j # k => db'[j] = db[j],
           db'[k] \in {db[k], request[r].values[k]}
    PROVE  SaveInv'
<1>1. k \in DOMAIN request[r].values /\ k \in Key
  BY PassedMoves DEF TypeInv, Handlers
<1>2. Bounded'
  <2>1. \A j \in Key : db'[j] <= edits
    BY <1>1 DEF SaveInv, Bounded
  <2>2. \A q \in Slot : \A j \in DOMAIN request'[q].values : request'[q].values[j] <= edits
    BY PassedMoves, Constants0, BlankType DEF SaveInv, Bounded
  <2> QED
    BY <2>1, <2>2 DEF SaveInv, Bounded
<1>3. ASSUME NEW u \in Tab PROVE Recent(u)'
  <2>1. CASE Calm(u)'
    <3>1. u # request[r].tab
      BY <2>1, PassedMoves DEF Calm, Writing, Waits
    <3>2. ~Writing(u)
      BY <2>1, <3>1, PassedMoves DEF Calm, Writing, Waits
    <3>3. u \notin missed
      BY <2>1, PassedMoves DEF Calm
    <3>4. k \notin KeysOf(u)
      BY <3>1, PassedMoves DEF KeysOf
    <3>5. \A j \in KeysOf(u) : db'[j] = db[j]
      BY <3>4, KeysType
    <3> QED
      BY <2>1, <3>2, <3>3, <3>5 DEF SaveInv, Recent, Calm, TypeInv, Answers
  <2>2. CASE ~Calm(u)'
    BY <2>2 DEF SaveInv, Recent
  <2> QED
    BY <2>1, <2>2
<1>4. \A q \in Slot : \A j \in request'[q].left :
          /\ j \in request[q].left /\ request'[q].values[j] = request[q].values[j]
          /\ ~(q = r /\ j = k)
  BY PassedMoves, Constants0
<1>5. FormRecent'
  <2> SUFFICES ASSUME ~doubt, NEW j \in DOMAIN form
               PROVE  /\ form[j] >= db'[j]
                      /\ \A q \in Slot : j \in request'[q].left => form[j] >= request'[q].values[j]
    BY DEF FormRecent
  <2>1. form[j] >= db'[j]
    BY Numbers DEF SaveInv, FormRecent
  <2> QED
    BY <1>4, <2>1 DEF SaveInv, FormRecent
<1>6. SaveRecent'
  <2> SUFFICES ASSUME Saving, ~request'[save.of].doubt, NEW j \in request'[save.of].left
               PROVE  /\ request'[save.of].values[j] >= db'[j]
                      /\ \A q \in Slot : j \in request'[q].left =>
                             request'[save.of].values[j] >= request'[q].values[j]
    BY DEF SaveRecent, Saving
  <2>1. save.of \in Slot
    BY Typed
  <2>2. request'[save.of].doubt = request[save.of].doubt
    BY <2>1, PassedMoves DEF Waits, Saving
  <2>3. /\ request[save.of].values[j] >= db[j] /\ j \in Key
        /\ \A q \in Slot : j \in request[q].left => request[save.of].values[j] >= request[q].values[j]
    BY <1>4, <2>1, <2>2, Typed DEF SaveInv, SaveRecent
  <2>4. request[save.of].values[j] >= db'[j]
    BY <2>3
  <2> QED
    BY <1>4, <2>1, <2>3, <2>4
<1> QED
  BY <1>2, <1>3, <1>5, <1>6 DEF SaveInv

LEMMA UpdateKeySave ==
    ASSUME TypeInv, SaveInv, NEW r \in Slot, NEW k \in Key, UpdateKey(r, k)
    PROVE  SaveInv'
<1>1. /\ k \in request[r].left /\ Passed(r, k)
      /\ db' = [db EXCEPT ![k] = request[r].values[k]]
      /\ UNCHANGED <<form, cache, fetch, save, edits, doubt>>
  BY DEF UpdateKey, page, bounds
<1>2. db'[k] = request[r].values[k] /\ \A j \in Key : j # k => db'[j] = db[j]
  BY <1>1 DEF TypeInv, TypeOK
<1> QED
  BY <1>1, <1>2, PassedRecent

LEMMA FailUpdateSave ==
    ASSUME TypeInv, SaveInv, NEW r \in Slot, NEW k \in Key, FailUpdate(r, k)
    PROVE  SaveInv'
<1>1. /\ k \in request[r].left /\ Passed(r, k)
      /\ UNCHANGED <<db, form, cache, fetch, save, edits, doubt>>
  BY DEF FailUpdate, page
<1> QED
  BY <1>1, PassedRecent

\* Handlers that are gone or that nobody waits for any more, with their tabs unrefreshed,
\* refreshed now, or still being written.
LEMMA LoseSaveSave == ASSUME TypeInv, SaveInv, LoseSave PROVE SaveInv'
<1>1. ~Saving' /\ UNCHANGED <<db, form, cache, fetch, edits, doubt>>
  BY LoseSaveMoves, Constants0 DEF LoseSave, Saving
<1>2. \A q \in Slot : request'[q] = request[q] \/ request'[q] = NoRequest
  BY LoseSaveMoves
<1>3. Bounded'
  BY <1>1, <1>2, Constants0, BlankType DEF SaveInv, Bounded
<1>4. ASSUME NEW u \in Tab PROVE Recent(u)'
  <2>1. CASE Calm(u)'
    <3>1. u \notin missed
      BY <2>1, LoseSaveMoves DEF Calm
    <3>2. ~Writing(u)
      BY <2>1, LoseSaveMoves, Constants0, Typed DEF Calm, Writing, Waits, Saving
    <3> QED
      BY <1>1, <3>1, <3>2 DEF SaveInv, Recent, Calm
  <2>2. CASE ~Calm(u)'
    BY <1>1, <2>2 DEF SaveInv, Recent
  <2> QED
    BY <2>1, <2>2
<1>5. FormRecent'
  BY <1>1, <1>2, Constants0 DEF SaveInv, FormRecent
<1> QED
  BY <1>1, <1>3, <1>4, <1>5 DEF SaveInv, SaveRecent

LEMMA OnSuccessSave == ASSUME TypeInv, SaveInv, NEW x \in Slot, OnSuccess(x) PROVE SaveInv'
<1>1. /\ missed' = missed \cup ({request[save.of].tab} \ {tab})
      /\ UNCHANGED <<db, form, edits, doubt>>
  BY DEF OnSuccess, bounds
<1>2. \A q \in Slot : request'[q] = request[q] \/ request'[q] = NoRequest
  BY OnSuccessMoves
<1>3. ~Saving'
  BY OnSuccessMoves
<1>4. /\ \A u \in Tab : cache'[u].data = cache[u].data /\ (cache'[u].fresh => cache[u].fresh)
      /\ ~cache'[tab].fresh
  BY OnSuccessMoves, StaleCache
<1>5. \A u \in Tab : fetch'[u] = fetch[u] \/ (u = tab /\ fetch'[u].pc = "asked" /\ fetch'[u].data = Blank)
  BY OnSuccessMoves, Constants0
<1>6. Bounded'
  BY <1>1, <1>2, <1>4, <1>5, Constants0, BlankType DEF SaveInv, Bounded
<1>7. ASSUME NEW u \in Tab PROVE Recent(u)'
  <2>1. CASE u = tab
    BY <1>4, <2>1, OnSuccessMoves, Constants0 DEF Recent
  <2>2. CASE u # tab /\ Calm(u)'
    <3>1. u \notin missed /\ u # request[save.of].tab
      BY <1>1, <2>2 DEF Calm
    <3>2. ~Writing(u)
      BY <2>2, <3>1, OnSuccessMoves, Typed DEF Calm, Writing, Waits
    <3> QED
      BY <1>1, <1>4, <1>5, <2>2, <3>1, <3>2 DEF SaveInv, Recent, Calm
  <2>3. CASE u # tab /\ ~Calm(u)'
    BY <1>4, <1>5, <2>3 DEF SaveInv, Recent
  <2> QED
    BY <2>1, <2>2, <2>3
<1>8. FormRecent'
  BY <1>1, <1>2, Constants0 DEF SaveInv, FormRecent
<1> QED
  BY <1>3, <1>6, <1>7, <1>8 DEF SaveInv, SaveRecent

LEMMA SaveStep == TypeInv /\ SaveInv /\ [Next]_vars => SaveInv'
<1> SUFFICES ASSUME TypeInv, SaveInv, [Next]_vars PROVE SaveInv'
  OBVIOUS
<1>1. CASE Administrator
  BY <1>1, SelectTabSave, TypeSave, ResetSave, SaveSave DEF Administrator
<1>2. CASE Browser
  <2>1. ASSUME LosePush PROVE SaveInv'
    BY <2>1, SameSave, Constants0 DEF LosePush, Saving, server
  <2> QED
    BY <1>2, <2>1, QuerySave, ArriveSave, FailFetchSave, AgeSave, LoseSaveSave, OnSuccessSave DEF Browser
<1>3. CASE Server
  <2>1. ASSUME NEW x \in Slot, PushOnInform(x) PROVE SaveInv'
    BY <2>1, SameSave DEF PushOnInform, page, observers
  <2>2. ASSUME NEW x \in Slot, NEW k \in OfVendor, ReadKey(x, k) \/ FailRead(x, k) PROVE SaveInv'
    BY <2>2, SameSave DEF ReadKey, FailRead, page, bounds, observers
  <2>3. ASSUME NEW x \in Slot, Send(x) \/ Refuse(x) PROVE SaveInv'
    BY <2>3, SameSave, Constants0 DEF Send, Refuse, Returned, WaitsForPush, Saving, bounds
  <2> QED
    BY <1>3, <2>1, <2>2, <2>3, UpdateKeySave, FailUpdateSave DEF Server
<1>4. CASE UNCHANGED vars
  BY <1>4, SameSave DEF vars
<1> QED
  BY <1>1, <1>2, <1>3, <1>4 DEF Next

\* The step that a value gets older by.
Reverts(k) ==
    \E r \in Slot : /\ k \in request[r].left /\ k \notin request'[r].left
                    /\ request[r].doubt \/ ~Waits(r)

\* A save without doubt whose handler the page waits for never writes an older value, no
\* matter which other handlers are at work.
THEOREM SavesAreNotReverted == Spec => SaveIsNotReverted
<1>1. Init => TypeInv /\ SaveInv
  BY TypeInit, SaveInit
<1>2. TypeInv /\ SaveInv /\ [Next]_vars => (TypeInv /\ SaveInv)'
  BY TypeStep, SaveStep
<1>3. TypeInv /\ SaveInv /\ [Next]_vars => [\A k \in Key : db'[k] < db[k] => Reverts(k)]_vars
  <2> SUFFICES ASSUME TypeInv, SaveInv, [Next]_vars, NEW k \in Key, db'[k] < db[k]
               PROVE  Reverts(k)
    OBVIOUS
  <2>1. db[k] \in Nat /\ db'[k] # db[k]
    BY Numbers
  <2>2. PICK r \in Slot, j \in Key : UpdateKey(r, j)
    <3>1. CASE Administrator
      BY <2>1, <3>1 DEF Administrator, SelectTab, Type, Reset, Save, server
    <3>2. CASE Browser
      BY <2>1, <3>2 DEF Browser, Query, Arrive, FailFetch, Age, LoseSave, OnSuccess, LosePush, server
    <3>3. CASE Server
      BY <2>1, <3>3 DEF Server, FailUpdate, PushOnInform, ReadKey, FailRead, Send, Refuse
    <3>4. CASE UNCHANGED vars
      BY <2>1, <3>4 DEF vars
    <3> QED
      BY <3>1, <3>2, <3>3, <3>4 DEF Next
  <2>3. j \in request[r].left /\ Passed(r, j) /\ db' = [db EXCEPT ![j] = request[r].values[j]]
    BY <2>2 DEF UpdateKey
  <2>4. j = k /\ db'[k] = request[r].values[k]
    BY <2>1, <2>3 DEF TypeInv, TypeOK
  <2>5. k \in request[r].left /\ k \notin request'[r].left
    BY <2>3, <2>4, PassedMoves
  <2>6. (Waits(r) /\ ~request[r].doubt) => request[r].values[k] >= db[k]
    BY <2>5 DEF SaveInv, SaveRecent, Waits, Saving
  <2>7. request[r].values[k] \in Nat
    BY <2>5, Numbers DEF TypeInv, Handlers
  <2> QED
    BY <2>1, <2>4, <2>5, <2>6, <2>7 DEF Reverts
<1>4. SaveIsNotReverted <=> [][\A k \in Key : db'[k] < db[k] => Reverts(k)]_vars
  BY PTL DEF SaveIsNotReverted, Reverts
<1> QED
  BY <1>1, <1>2, <1>3, <1>4, PTL DEF Spec

-----------------------------------------------------------------------------
(* The device has what is stored.                                          *)

\* What a push without flaw has read is stored, but for what is empty.
Right(x) ==
    (push[x].pc = "read" /\ ~push[x].flawed) =>
        \A k \in OfVendor \ push[x].left :
            db[k] \in emptied \/ (k \in DOMAIN push[x].got /\ push[x].got[k] = db[k])

Current == \A k \in OfVendor : db[k] \notin emptied => device[k] = db[k]

\* The device has what is stored, or a push is on its way or will be, or must be missed.
DeviceInv ==
    /\ \A x \in Slot : Right(x)
    /\ astray \/ Current \/ save.pc = "pushing" \/ (Saving /\ request[save.of].tab = Tr069)

LEMMA DeviceInit == Init => DeviceInv
<1> SUFFICES ASSUME Init PROVE DeviceInv
  OBVIOUS
<1>1. \A x \in Slot : push[x].pc = "idle"
  BY Constants0 DEF Init
<1>2. Current
  BY KeysType DEF Init, Current
<1> QED
  BY <1>1, <1>2 DEF DeviceInv, Right

\* Steps that change nothing the invariant looks at, but for edits that are empty.
LEMMA SameDevice ==
    ASSUME DeviceInv, UNCHANGED <<db, save, request, push, device, astray>>, emptied \subseteq emptied'
    PROVE  DeviceInv'
<1>1. \A x \in Slot : Right(x)'
  BY DEF DeviceInv, Right
<1>2. Current => Current'
  BY DEF Current
<1> QED
  BY <1>1, <1>2 DEF DeviceInv, Saving

LEMMA SaveDevice == ASSUME TypeInv, DeviceInv, NEW r \in Slot, Save(r) PROVE DeviceInv'
<1>1. UNCHANGED <<db, emptied, push, device, astray>>
  BY DEF Save, observers
<1>2. astray \/ Current
  BY SaveMoves DEF DeviceInv, Saving
<1> QED
  BY <1>1, <1>2 DEF DeviceInv, Right, Current

\* An UPDATE of a credential flaws the pushes that have read it; the page waits for the
\* handler and will push, or the device has gone astray.
LEMMA UpdateKeyDevice ==
    ASSUME TypeInv, DeviceInv, NEW r \in Slot, NEW k \in Key, UpdateKey(r, k)
    PROVE  DeviceInv'
<1>1. /\ k \in request[r].left /\ Passed(r, k) /\ push' = Overtaken(k)
      /\ UNCHANGED <<emptied, save, device>>
      /\ IF Waits(r) THEN astray' = astray ELSE astray' = (astray \/ k \in OfVendor)
  BY DEF UpdateKey, page
<1>2. \A j \in Key : j # k => db'[j] = db[j]
  BY DEF UpdateKey, TypeInv, TypeOK
<1>3. ASSUME NEW x \in Slot PROVE Right(x)'
  <2> SUFFICES ASSUME push[x].pc = "read", ~push'[x].flawed, NEW j \in OfVendor \ push[x].left
               PROVE  db'[j] \in emptied \/ (j \in DOMAIN push[x].got /\ push[x].got[j] = db'[j])
    BY <1>1, OvertakenMoves DEF Right
  <2>1. j # k /\ ~push[x].flawed
    BY <1>1, OvertakenMoves
  <2>2. db'[j] = db[j]
    BY <1>2, <2>1, KeysType
  <2> QED
    BY <2>1, <2>2 DEF DeviceInv, Right
<1>4. astray' \/ Current' \/ save.pc = "pushing" \/ (Saving /\ request'[save.of].tab = Tr069)
  <2>1. CASE Waits(r)
    <3>1. Saving /\ r = save.of /\ request'[r].tab = request[r].tab
      BY <1>1, <2>1, PassedMoves DEF Waits, Saving
    <3>2. k \in OfVendor => request[r].tab = Tr069
      BY <1>1, PassedMoves, KeysType DEF KeysOf
    <3>3. k \notin OfVendor /\ Current => Current'
      BY <1>1, <1>2, KeysType DEF Current
    <3> QED
      BY <1>1, <2>1, <3>1, <3>2, <3>3 DEF DeviceInv, Saving
  <2>2. CASE ~Waits(r)
    <3>1. Saving => request'[save.of] = request[save.of]
      BY <1>1, <2>2, PassedMoves, Typed DEF Waits, Saving
    <3>2. k \notin OfVendor /\ Current => Current'
      BY <1>1, <1>2, KeysType DEF Current
    <3> QED
      BY <1>1, <2>2, <3>1, <3>2 DEF DeviceInv
  <2> QED
    BY <2>1, <2>2
<1> QED
  BY <1>1, <1>3, <1>4 DEF DeviceInv, Saving

LEMMA FailUpdateDevice ==
    ASSUME TypeInv, DeviceInv, NEW r \in Slot, NEW k \in Key, FailUpdate(r, k)
    PROVE  DeviceInv'
<1>1. /\ k \in request[r].left /\ Passed(r, k)
      /\ UNCHANGED <<db, emptied, save, push, device, astray>>
  BY DEF FailUpdate, page
<1>2. Saving => request'[save.of].tab = request[save.of].tab
  BY <1>1, PassedMoves, Typed DEF Waits, Saving
<1> QED
  BY <1>1, <1>2 DEF DeviceInv, Right, Current, Saving

LEMMA LoseSaveDevice == ASSUME TypeInv, DeviceInv, LoseSave PROVE DeviceInv'
<1>1. /\ Saving /\ astray' = (astray \/ request[save.of].tab = Tr069)
      /\ UNCHANGED <<db, emptied, push, device>>
  BY DEF LoseSave
<1> QED
  BY <1>1 DEF DeviceInv, Right, Current, Saving

\* A push that starts has read nothing yet.
LEMMA StartedRight ==
    ASSUME TypeInv, DeviceInv, NEW x \in Slot, push' = Started(x), UNCHANGED <<db, emptied>>
    PROVE  \A y \in Slot : Right(y)'
<1>1. Right(x)'
  BY StartedMoves DEF Right
<1>2. \A y \in Slot : y # x => Right(y)'
  BY StartedMoves DEF DeviceInv, Right
<1> QED
  BY <1>1, <1>2

LEMMA OnSuccessDevice == ASSUME TypeInv, DeviceInv, NEW x \in Slot, OnSuccess(x) PROVE DeviceInv'
<1>1. /\ astray' = (astray \/ (request[save.of].tab = Tr069 /\ tab # Tr069))
      /\ UNCHANGED <<db, emptied, device>>
  BY DEF OnSuccess
<1>2. CASE tab = Tr069
  <2>1. \A y \in Slot : Right(y)'
    BY <1>1, <1>2, OnSuccessMoves, StartedRight
  <2> QED
    BY <1>2, <2>1, OnSuccessMoves DEF DeviceInv
<1>3. CASE tab # Tr069
  <2>1. \A y \in Slot : Right(y)'
    BY <1>1, <1>3, OnSuccessMoves DEF DeviceInv, Right
  <2>2. astray' \/ Current
    BY <1>1, <1>3, OnSuccessMoves DEF DeviceInv, Saving
  <2> QED
    BY <1>1, <2>1, <2>2 DEF DeviceInv, Current
<1> QED
  BY <1>2, <1>3

LEMMA PushOnInformDevice == ASSUME TypeInv, DeviceInv, NEW x \in Slot, PushOnInform(x) PROVE DeviceInv'
<1>1. push' = Started(x) /\ UNCHANGED <<db, emptied, save, request, device, astray>>
  BY DEF PushOnInform, page, observers
<1>2. \A y \in Slot : Right(y)'
  BY <1>1, StartedRight
<1> QED
  BY <1>1, <1>2 DEF DeviceInv, Current, Saving

LEMMA ReadKeyDevice ==
    ASSUME TypeInv, DeviceInv, NEW x \in Slot, NEW k \in OfVendor, ReadKey(x, k)
    PROVE  DeviceInv'
<1>1. k \in push[x].left /\ UNCHANGED <<db, emptied, save, request, device, astray>>
  BY DEF ReadKey, page, observers
<1>2. ASSUME NEW y \in Slot PROVE Right(y)'
  <2>1. CASE y = x
    <3> SUFFICES ASSUME push[x].pc = "read", ~push[x].flawed, NEW j \in OfVendor \ push'[x].left
                 PROVE  db[j] \in emptied \/ (j \in DOMAIN push'[x].got /\ push'[x].got[j] = db[j])
      BY <1>1, <2>1, ReadMoves DEF Right
    <3>1. CASE j = k
      BY <3>1, ReadMoves
    <3>2. CASE j # k
      <4>1. j \in OfVendor \ push[x].left
        BY <3>2, ReadMoves
      <4> QED
        BY <3>2, <4>1, ReadMoves DEF DeviceInv, Right
    <3> QED
      BY <3>1, <3>2
  <2>2. CASE y # x
    BY <1>1, <2>2, ReadMoves DEF DeviceInv, Right
  <2> QED
    BY <2>1, <2>2
<1> QED
  BY <1>1, <1>2 DEF DeviceInv, Current, Saving

LEMMA FailReadDevice ==
    ASSUME TypeInv, DeviceInv, NEW x \in Slot, NEW k \in OfVendor, FailRead(x, k)
    PROVE  DeviceInv'
<1>1. UNCHANGED <<db, emptied, save, request, device, astray>>
  BY DEF FailRead, page, observers
<1>2. Right(x)'
  BY FailReadMoves DEF Right
<1>3. \A y \in Slot : y # x => Right(y)'
  BY <1>1, FailReadMoves DEF DeviceInv, Right
<1> QED
  BY <1>1, <1>2, <1>3 DEF DeviceInv, Current, Saving

LEMMA EndedRight ==
    ASSUME TypeInv, DeviceInv, NEW x \in Slot, Ended(x), UNCHANGED <<db, emptied>>
    PROVE  \A y \in Slot : Right(y)'
<1>1. Right(x)'
  BY EndedMoves DEF Right
<1>2. \A y \in Slot : y # x => Right(y)'
  BY EndedMoves DEF DeviceInv, Right
<1> QED
  BY <1>1, <1>2

\* What is sent was stored when it was read and still is, unless the push is flawed.
LEMMA SendDevice == ASSUME TypeInv, DeviceInv, NEW x \in Slot, Send(x) PROVE DeviceInv'
<1>1. /\ push[x].pc = "read" /\ push[x].left = {} /\ astray' = push[x].flawed
      /\ device' = [k \in OfVendor |-> IF k \in DOMAIN push[x].got THEN push[x].got[k] ELSE device[k]]
      /\ UNCHANGED <<db, emptied>> /\ Ended(x)
  BY DEF Send, Ended
<1>2. \A y \in Slot : Right(y)'
  BY <1>1, EndedRight
<1>3. ASSUME ~astray' PROVE Current'
  <2>1. \A k \in OfVendor : db[k] \in emptied \/ (k \in DOMAIN push[x].got /\ push[x].got[k] = db[k])
    BY <1>1, <1>3 DEF DeviceInv, Right
  <2> QED
    BY <1>1, <2>1 DEF Current
<1> QED
  BY <1>2, <1>3 DEF DeviceInv

LEMMA RefuseDevice == ASSUME TypeInv, DeviceInv, NEW x \in Slot, Refuse(x) PROVE DeviceInv'
<1>1. /\ astray' = (astray \/ WaitsForPush(x))
      /\ UNCHANGED <<db, emptied, device, request>> /\ Ended(x)
  BY DEF Refuse, Ended
<1>2. \A y \in Slot : Right(y)'
  BY <1>1, EndedRight
<1> QED
  BY <1>1, <1>2, EndedMoves DEF DeviceInv, Current, Saving

LEMMA LosePushDevice == ASSUME TypeInv, DeviceInv, LosePush PROVE DeviceInv'
<1>1. astray' /\ UNCHANGED <<db, emptied, push>>
  BY DEF LosePush, server
<1> QED
  BY <1>1 DEF DeviceInv, Right

LEMMA DeviceStep == TypeInv /\ DeviceInv /\ [Next]_vars => DeviceInv'
<1> SUFFICES ASSUME TypeInv, DeviceInv, [Next]_vars PROVE DeviceInv'
  OBVIOUS
<1>1. CASE Administrator
  <2>1. ASSUME (\E t \in Tab : SelectTab(t)) \/ (\E k \in Key : Type(k)) \/ Reset PROVE DeviceInv'
    BY <2>1, SameDevice DEF SelectTab, Type, Reset, server
  <2> QED
    BY <1>1, <2>1, SaveDevice DEF Administrator
<1>2. CASE Browser
  <2>1. ASSUME NEW t \in Tab, Query(t) \/ Arrive(t) \/ FailFetch(t) \/ Age(t) PROVE DeviceInv'
    BY <2>1, SameDevice DEF Query, Arrive, FailFetch, Age, observers, server
  <2> QED
    BY <1>2, <2>1, LoseSaveDevice, OnSuccessDevice, LosePushDevice DEF Browser
<1>3. CASE Server
  BY <1>3, UpdateKeyDevice, FailUpdateDevice, PushOnInformDevice, SendDevice, RefuseDevice,
     ReadKeyDevice, FailReadDevice DEF Server
<1>4. CASE UNCHANGED vars
  BY <1>4, SameDevice DEF vars
<1> QED
  BY <1>1, <1>2, <1>3, <1>4 DEF Next

\* When saves and pushes are over, the device has those credentials of its vendor that are
\* stored and not empty, unless something has gone astray.
THEOREM DevicesAreCurrent == Spec => []DeviceIsCurrent
<1>1. DeviceInv => DeviceIsCurrent
  BY DEF DeviceInv, DeviceIsCurrent, Quiet, Saving, Current
<1>2. Init => TypeInv /\ DeviceInv
  BY TypeInit, DeviceInit
<1>3. TypeInv /\ DeviceInv /\ [Next]_vars => (TypeInv /\ DeviceInv)'
  BY TypeStep, DeviceStep
<1> QED
  BY <1>1, <1>2, <1>3, PTL DEF Spec
=============================================================================
