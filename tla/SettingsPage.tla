------------------------------ MODULE SettingsPage ------------------------------
(***************************************************************************)
(* The settings page of the browser, the requests behind it, and the web    *)
(* credentials of a device that come out of it.                             *)
(*                                                                         *)
(*   the page     one administrator: tabs, a form, the cache of react-query *)
(*                with a fetch for every tab, a save it waits for;          *)
(*   the server   a handler of /admin/settings/update writes one key after  *)
(*                another, in the random order of a map, and goes on when   *)
(*                the browser has given up; a push reads the credentials    *)
(*                key by key and puts those that are not empty into the     *)
(*                lane of the device;                                       *)
(*   the device   an Inform (BOOT, CONNECTION REQUEST) makes the server     *)
(*                push by itself.                                           *)
(*                                                                         *)
(* A value is the number of the edit that made it, so a higher one is newer.*)
(* The lane is first in, first out (EventQueue), so the device ends with    *)
(* what was put there last.  onSuccess is the one of the latest rendering:  *)
(* react-query hands new options to a mutation that is pending.             *)
(***************************************************************************)
EXTENDS Integers

CONSTANTS
    Key,         \* names of settings
    Tab,         \* the types of settings, a tab each
    TabOf,       \* [Key -> Tab]
    Tr069,       \* the tab whose save is followed by a push
    OfVendor,    \* its credentials with a parameter path for the vendor of the device
    First,       \* the tab shown first
    MaxEdit,     \* bound: values typed
    MaxEvent     \* bound: Informs that push, what fails or is lost, lanes full, 30 s

ASSUME ConstantsAssumption ==
    /\ TabOf \in [Key -> Tab]
    /\ {Tr069, First} \subseteq Tab
    /\ OfVendor \subseteq {k \in Key : TabOf[k] = Tr069}
    /\ {MaxEdit, MaxEvent} \subseteq Nat

VARIABLES
    db,         \* sys_config: [Key -> value]
    emptied,    \* the edits that left a field empty
    tab,        \* activeTab
    form,       \* the keys shown and their values
    dirty,      \* the form has been changed
    cache,      \* react-query: [Tab -> values and whether they are fresh]
    fetch,      \* [Tab -> the fetch under way]
    save,       \* the mutation: the request or the push the page waits for
    request,    \* [Slot -> a handler of /admin/settings/update]
    push,       \* [Slot -> a push under way]
    device,     \* the values in the lane last
    edits, events,  \* counted against the bounds
    doubt,      \* observer: the form was filled from what may have been old
    missed,     \* observer: tabs written while no one was going to refresh them
    typed,      \* observer: [Key -> the last value typed and not discarded, or 0]
    hasty,      \* observer: keys typed while a save was under way
    undone,     \* observer: keys whose UPDATE failed, or written by a handler given up
    blanked,    \* observer: the tab shown was clicked, or its fetch or SELECT has failed
    astray      \* observer: a push was missing, failed or came with old values

page == <<tab, form, dirty, cache, fetch, save>>
server == <<db, request, push, device>>
bounds == <<edits, events>>
observers == <<doubt, missed, typed, hasty, undone, blanked, astray>>
vars == <<db, emptied, tab, form, dirty, cache, fetch, save, request, push, device, edits, events,
          doubt, missed, typed, hasty, undone, blanked, astray>>

-----------------------------------------------------------------------------
Value == 0..MaxEdit

\* An Inform that pushes and an answer the browser does not wait for are events, so one
\* slot is always free.
Slot == 0..MaxEvent

KeysOf(t) == {k \in Key : TabOf[k] = t}
Partial == UNION {[keys -> Value] : keys \in SUBSET Key}
Blank == [k \in {} |-> 0]
Stored(t) == [k \in KeysOf(t) |-> db[k]]
Complete(t, data) == DOMAIN data = KeysOf(t)

NoData == [has |-> FALSE, fresh |-> FALSE, data |-> Blank]
NoFetch == [pc |-> "none", data |-> Blank]
Asked == [pc |-> "asked", data |-> Blank]
NoSave == [pc |-> "idle", of |-> 0]
NoRequest == [tab |-> First, values |-> Blank, left |-> {}, doubt |-> FALSE]
NoPush == [pc |-> "idle", left |-> {}, got |-> Blank, flawed |-> FALSE]

TypeOK ==
    /\ db \in [Key -> Value]
    /\ emptied \subseteq Value
    /\ tab \in Tab
    /\ form \in Partial
    /\ DOMAIN form \in {{}, KeysOf(tab)}
    /\ dirty \in BOOLEAN
    /\ cache \in [Tab -> [has: BOOLEAN, fresh: BOOLEAN, data: Partial]]
    /\ fetch \in [Tab -> [pc: {"none", "asked", "answered"}, data: Partial]]
    /\ save \in [pc: {"idle", "sent", "pushing"}, of: Slot]
    /\ request \in [Slot -> [tab: Tab, values: Partial, left: SUBSET Key, doubt: BOOLEAN]]
    /\ push \in [Slot -> [pc: {"idle", "read"}, left: SUBSET OfVendor, got: Partial, flawed: BOOLEAN]]
    /\ device \in [OfVendor -> Value]
    /\ edits \in Value /\ events \in 0..MaxEvent
    /\ doubt \in BOOLEAN
    /\ missed \subseteq Tab
    /\ typed \in [Key -> Value]
    /\ hasty \subseteq Key
    /\ undone \subseteq Key
    /\ blanked \in BOOLEAN
    /\ astray \in BOOLEAN

Init ==
    /\ db = [k \in Key |-> 0]
    /\ emptied = {}
    /\ tab = First
    /\ form = Blank
    /\ dirty = FALSE
    /\ cache = [t \in Tab |-> NoData]
    /\ fetch = [t \in Tab |-> IF t = First THEN Asked ELSE NoFetch]
    /\ save = NoSave
    /\ request = [r \in Slot |-> NoRequest]
    /\ push = [x \in Slot |-> NoPush]
    /\ device = [k \in OfVendor |-> 0]
    /\ edits = 0 /\ events = 0
    /\ doubt = FALSE
    /\ missed = {}
    /\ typed = [k \in Key |-> 0]
    /\ hasty = {}
    /\ undone = {}
    /\ blanked = FALSE
    /\ astray = FALSE

Event ==
    /\ events < MaxEvent
    /\ events' = events + 1

Saving == save.pc = "sent"

\* The page waits for a handler, or for a push.
Waits(r) == save.pc = "sent" /\ save.of = r
WaitsForPush(x) == save.pc = "pushing" /\ save.of = x

\* A handler writes the settings of a tab, or its answer is under way.
Writing(t) == \E r \in Slot : (request[r].left # {} \/ Waits(r)) /\ request[r].tab = t

-----------------------------------------------------------------------------
(* Queries.                                                                *)

\* Is there reason to doubt what the cache has for a tab?
Doubtful(t) == Writing(t) \/ t \in missed \/ ~cache[t].fresh

\* GET /admin/settings/:type/query: one SELECT.  If it fails the answer is {} all the same.
Query(t) ==
    /\ fetch[t].pc = "asked"
    /\ \/ /\ fetch' = [fetch EXCEPT ![t] = [pc |-> "answered", data |-> Stored(t)]]
          /\ UNCHANGED events
       \/ /\ fetch' = [fetch EXCEPT ![t] = [pc |-> "answered", data |-> Blank]]
          /\ Event
    /\ missed' = missed \ {t}
    /\ UNCHANGED <<server, emptied, tab, form, dirty, cache, save, edits,
                   doubt, typed, hasty, undone, blanked, astray>>

\* Mutant: the effect does not look at dirty.
Fills_Always(t) == t = tab /\ cache[t].data # fetch[t].data

\* The effect runs when the values change - an equal answer is the same object.
Fills(t) == t = tab /\ ~dirty /\ (~cache[t].has \/ cache[t].data # fetch[t].data)

\* The answer arrives in the cache and, unless it has been changed, in the form.
Arrive(t) ==
    /\ fetch[t].pc = "answered"
    /\ cache' = [cache EXCEPT ![t] = [has |-> TRUE, fresh |-> TRUE, data |-> fetch[t].data]]
    /\ fetch' = [fetch EXCEPT ![t] = NoFetch]
    /\ IF Fills(t)
       THEN form' = fetch[t].data /\ doubt' = (Writing(t) \/ t \in missed)
       ELSE UNCHANGED <<form, doubt>>
    /\ blanked' = (blanked \/ (t = tab /\ ~Complete(t, fetch[t].data)))
    /\ UNCHANGED <<server, emptied, tab, dirty, save, bounds, missed, typed, hasty, undone, astray>>

\* The fetch and its retry fail.
FailFetch(t) ==
    /\ fetch[t].pc # "none"
    /\ Event
    /\ fetch' = [fetch EXCEPT ![t] = NoFetch]
    /\ blanked' = (blanked \/ t = tab)
    /\ UNCHANGED <<server, emptied, tab, form, dirty, cache, save, edits,
                   doubt, missed, typed, hasty, undone, astray>>

\* staleTime: 30 s have passed.
Age(t) ==
    /\ cache[t].fresh
    /\ Event
    /\ cache' = [cache EXCEPT ![t].fresh = FALSE]
    /\ UNCHANGED <<server, emptied, tab, form, dirty, fetch, save, edits, observers>>

-----------------------------------------------------------------------------
(* The administrator.                                                      *)

Nothing == [k \in Key |-> 0]

\* Mutant: the form is not cleared.
Shown_Kept(t) == IF t # tab /\ cache[t].has THEN cache[t].data ELSE form

\* setForm({}), and the effect, which depends on the values and the tab: a click on the
\* tab shown changes neither.
Shown(t) == IF t # tab /\ cache[t].has THEN cache[t].data ELSE Blank

\* Mutant: only what is there is refreshed.
NeedsFetch_Refresh(t) == t # tab /\ cache[t].has /\ ~cache[t].fresh /\ fetch[t].pc = "none"

NeedsFetch(t) == t # tab /\ ~cache[t].fresh /\ fetch[t].pc = "none"

\* handleTabChange: another tab shows what the cache has and is fetched if that is not fresh.
SelectTab(t) ==
    /\ tab' = t
    /\ dirty' = FALSE
    /\ typed' = Nothing
    /\ hasty' = {}
    /\ undone' = {}
    /\ blanked' = (t = tab \/ (cache[t].fresh /\ ~Complete(t, cache[t].data)))
    /\ form' = Shown(t)
    /\ doubt' = (t # tab /\ cache[t].has /\ Doubtful(t))
    /\ fetch' = IF NeedsFetch(t) THEN [fetch EXCEPT ![t] = Asked] ELSE fetch
    /\ UNCHANGED <<server, emptied, cache, save, bounds, missed, astray>>

\* handleChange: a new value, or an empty one - which matters for what is pushed.
Type(k) ==
    /\ k \in DOMAIN form
    /\ edits < MaxEdit
    /\ edits' = edits + 1
    /\ \/ UNCHANGED emptied
       \/ k \in OfVendor /\ emptied' = emptied \cup {edits + 1}
    /\ form' = [form EXCEPT ![k] = edits + 1]
    /\ dirty' = TRUE
    /\ typed' = [typed EXCEPT ![k] = edits + 1]
    /\ hasty' = IF Saving THEN hasty \cup {k} ELSE hasty \ {k}
    /\ undone' = undone \ {k}
    /\ UNCHANGED <<server, tab, cache, fetch, save, events, doubt, missed, blanked, astray>>

\* handleReset.
Reset ==
    /\ dirty
    /\ cache[tab].has
    /\ form' = cache[tab].data
    /\ dirty' = FALSE
    /\ doubt' = Doubtful(tab)
    /\ typed' = Nothing
    /\ hasty' = {}
    /\ undone' = {}
    /\ blanked' = (blanked \/ ~Complete(tab, cache[tab].data))
    /\ UNCHANGED <<server, emptied, tab, cache, fetch, save, bounds, missed, astray>>

FreeRequest(r) == request[r] = NoRequest /\ \A q \in Slot : q < r => request[q] # NoRequest

\* handleSave: every key of the form is sent, changed or not.
Save(r) ==
    /\ dirty
    /\ save.pc = "idle"
    /\ FreeRequest(r)
    /\ save' = [pc |-> "sent", of |-> r]
    /\ request' = [request EXCEPT ![r] =
                      [tab |-> tab, values |-> form, left |-> DOMAIN form, doubt |-> doubt]]
    /\ UNCHANGED <<db, emptied, tab, form, dirty, cache, fetch, push, device, bounds, observers>>

-----------------------------------------------------------------------------
(* The save.                                                               *)

\* A handler has dealt with a key; one that nobody waits for ends with the last.
Passed(r, k) ==
    LET last == ~Waits(r) /\ request[r].left = {k} IN
    /\ request' = IF last THEN [request EXCEPT ![r] = NoRequest]
                  ELSE [request EXCEPT ![r].left = @ \ {k}]
    /\ missed' = IF last THEN missed \cup {request[r].tab} ELSE missed

\* Pushes that have read a setting before it is written.
Overtaken(k) ==
    [x \in Slot |-> IF push[x].pc = "read" /\ k \in OfVendor \ push[x].left
                    THEN [push[x] EXCEPT !.flawed = TRUE] ELSE push[x]]

\* What was typed for a key is not what is stored.
Spoilt(k) == undone \cup {j \in {k} : typed[j] # 0}

\* /admin/settings/update: one UPDATE after the other, ...
UpdateKey(r, k) ==
    /\ k \in request[r].left
    /\ db' = [db EXCEPT ![k] = request[r].values[k]]
    /\ Passed(r, k)
    /\ push' = Overtaken(k)
    /\ IF Waits(r)
       THEN UNCHANGED <<undone, astray>>
       ELSE undone' = Spoilt(k) /\ astray' = (astray \/ k \in OfVendor)
    /\ UNCHANGED <<emptied, page, device, bounds, doubt, typed, hasty, blanked>>

\* ... whose error is dropped: the answer is success.
FailUpdate(r, k) ==
    /\ k \in request[r].left
    /\ Event
    /\ Passed(r, k)
    /\ undone' = IF Waits(r) THEN Spoilt(k) ELSE undone
    /\ UNCHANGED <<db, emptied, page, push, device, edits, doubt, typed, hasty, blanked, astray>>

\* onError: the request does not arrive, the answer is lost, or the browser has given up
\* while the handler goes on.
LoseSave ==
    /\ Saving
    /\ Event
    /\ save' = NoSave
    /\ LET r == save.of IN
       /\ \/ /\ request[r].left # {}
             /\ UNCHANGED <<request, missed>>
          \/ /\ request[r].left \in {{}, DOMAIN request[r].values}
             /\ request' = [request EXCEPT ![r] = NoRequest]
             /\ missed' = missed \cup {request[r].tab}
       /\ astray' = (astray \/ request[r].tab = Tr069)
    /\ UNCHANGED <<db, emptied, tab, form, dirty, cache, fetch, push, device, edits,
                   doubt, typed, hasty, undone, blanked>>

\* Mutant: there is no push after a save.
Pushes_Never == FALSE

\* activeTab of the latest rendering.
Pushes == tab = Tr069

\* Mutant: the cache is left to get old by itself.
Invalidated_Not(t) == cache

Invalidated(t) == [cache EXCEPT ![t].fresh = FALSE]

FreePush(x) == push[x].pc = "idle" /\ \A y \in Slot : y < x => push[y].pc # "idle"
Started(x) == [push EXCEPT ![x] = [NoPush EXCEPT !.pc = "read", !.left = OfVendor]]

\* onSuccess.  invalidateQueries fetches the tab shown anew and drops a fetch under way.
OnSuccess(x) ==
    /\ Saving
    /\ request[save.of].left = {}
    /\ FreePush(x)
    /\ dirty' = FALSE
    /\ cache' = Invalidated(tab)
    /\ fetch' = [fetch EXCEPT ![tab] = Asked]
    /\ save' = IF Pushes THEN [pc |-> "pushing", of |-> x] ELSE NoSave
    /\ push' = IF Pushes THEN Started(x) ELSE push
    /\ request' = [request EXCEPT ![save.of] = NoRequest]
    /\ missed' = missed \cup ({request[save.of].tab} \ {tab})
    /\ astray' = (astray \/ (request[save.of].tab = Tr069 /\ tab # Tr069))
    /\ UNCHANGED <<db, emptied, tab, form, device, bounds, doubt, typed, hasty, undone, blanked>>

-----------------------------------------------------------------------------
(* Pushes.                                                                 *)

\* PushWebCredentials of an Inform, or of the button of the device.
PushOnInform(x) ==
    /\ FreePush(x)
    /\ Event
    /\ push' = Started(x)
    /\ UNCHANGED <<db, emptied, page, request, device, edits, observers>>

\* GetTr069SettingsStringValue, in the order of the code: any here.  What is empty is not
\* sent.
ReadKey(x, k) ==
    /\ k \in push[x].left
    /\ push' = [push EXCEPT ![x].left = @ \ {k},
                            ![x].got = IF db[k] \in emptied THEN @
                                       ELSE [j \in DOMAIN @ \cup {k} |-> IF j = k THEN db[k] ELSE @[j]]]
    /\ UNCHANGED <<db, emptied, page, request, device, bounds, observers>>

\* The error of the SELECT is dropped: the value is empty.
FailRead(x, k) ==
    /\ k \in push[x].left
    /\ Event
    /\ push' = [push EXCEPT ![x].left = @ \ {k}, ![x].flawed = TRUE]
    /\ UNCHANGED <<db, emptied, page, request, device, edits, observers>>

Returned(x) == save' = IF WaitsForPush(x) THEN NoSave ELSE save

\* SendCwmpEventData: what was read is in the lane; the device keeps its other values.
Send(x) ==
    /\ push[x].pc = "read"
    /\ push[x].left = {}
    /\ device' = [k \in OfVendor |-> IF k \in DOMAIN push[x].got THEN push[x].got[k] ELSE device[k]]
    /\ push' = [push EXCEPT ![x] = NoPush]
    /\ astray' = push[x].flawed
    /\ Returned(x)
    /\ UNCHANGED <<db, emptied, tab, form, dirty, cache, fetch, request, bounds,
                   doubt, missed, typed, hasty, undone, blanked>>

\* The push comes to nothing: its request is lost, the devices cannot be queried, this one
\* is not online, its vendor is not known since a restart, or its lane is full.  It counts
\* as done all the same.
Refuse(x) ==
    /\ push[x].pc = "read"
    /\ Event
    /\ push' = [push EXCEPT ![x] = NoPush]
    /\ astray' = (astray \/ WaitsForPush(x))
    /\ Returned(x)
    /\ UNCHANGED <<db, emptied, tab, form, dirty, cache, fetch, request, device, edits,
                   doubt, missed, typed, hasty, undone, blanked>>

\* The answer of the push is lost; the server goes on.
LosePush ==
    /\ save.pc = "pushing"
    /\ Event
    /\ save' = NoSave
    /\ astray' = TRUE
    /\ UNCHANGED <<server, emptied, tab, form, dirty, cache, fetch, edits,
                   doubt, missed, typed, hasty, undone, blanked>>

-----------------------------------------------------------------------------
Administrator ==
    \/ \E t \in Tab : SelectTab(t)
    \/ \E k \in Key : Type(k)
    \/ Reset
    \/ \E r \in Slot : Save(r)

Browser ==
    \/ \E t \in Tab : Query(t) \/ Arrive(t) \/ FailFetch(t) \/ Age(t)
    \/ LoseSave
    \/ \E x \in Slot : OnSuccess(x)
    \/ LosePush

Server ==
    \/ \E r \in Slot, k \in Key : UpdateKey(r, k) \/ FailUpdate(r, k)
    \/ \E x \in Slot : PushOnInform(x) \/ Send(x) \/ Refuse(x)
    \/ \E x \in Slot, k \in OfVendor : ReadKey(x, k) \/ FailRead(x, k)

Next == Administrator \/ Browser \/ Server

Spec == Init /\ [][Next]_vars

\* Requests are answered, and the browser handles the answers.
Fairness ==
    /\ \A t \in Tab : WF_vars(Query(t)) /\ WF_vars(Arrive(t))

FairSpec == Spec /\ Fairness

-----------------------------------------------------------------------------
(* Properties.                                                             *)

\* A save sends the whole form, so it can write back what an earlier save of the same
\* administrator has replaced.  It does so only if the form was filled while a save of the
\* tab was under way, or from a cache that was not fresh, or that no one had invalidated
\* (another tab was shown when the save came back, or its answer was lost), or if the
\* browser has given it up and its handler goes on beside the next one.
SaveIsNotReverted ==
    [][\A k \in Key : db'[k] < db[k] =>
           \E r \in Slot : /\ k \in request[r].left /\ k \notin request'[r].left
                           /\ request[r].doubt \/ ~Waits(r)]_vars

\* A value typed and not discarded stays in the form whatever answers arrive, and it is
\* stored when the form counts as saved, and still there when the form is filled anew -
\* unless it was typed while a save was under way, which ends with setDirty(false), or its
\* UPDATE has failed, or the handler of a save that was given up has written the key.
EditIsKept ==
    \A k \in Key : typed[k] # 0 /\ k \notin hasty \cup undone =>
        IF dirty
        THEN k \in DOMAIN form /\ form[k] = typed[k]
        ELSE db[k] = typed[k] /\ (k \in DOMAIN form => form[k] = typed[k])

Quiet == save.pc = "idle" /\ \A x \in Slot : push[x].pc = "idle"

\* When the page waits for nothing and nothing is being pushed, the device has the
\* credentials of its vendor that are stored and not empty - unless another tab was shown
\* when a save came back, an answer was lost, a handler that was given up has written one,
\* or the last push failed or had read what a save replaced.
DeviceIsCurrent ==
    (Quiet /\ ~astray) => \A k \in OfVendor : db[k] \notin emptied => device[k] = db[k]

\* A form that is not filled is going to be: a fetch of its tab is under way - unless the
\* tab shown was clicked, which clears the form and fetches nothing, or the fetch failed,
\* or the SELECT did, whose {} is taken for the settings and kept as fresh.
BlankIsAwaited == (DOMAIN form # KeysOf(tab) /\ ~blanked) => fetch[tab].pc # "none"

\* A form is not blank forever - unless the tab shown was clicked or its fetch or SELECT
\* failed.
FormIsShown == (form = Blank /\ ~blanked) ~> (form # Blank \/ blanked)
=============================================================================
