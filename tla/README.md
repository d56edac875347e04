# TeamsACS in TLA+

TeamsACS is a TR-069 auto-configuration server (ACS) written in Go. Devices (CPEs)
connect to it over HTTP, tell it who they are (`Inform`), and fetch what they should do:
set or read parameters, download, upload, reboot. It also polls optical line terminals
(OLTs) by SNMP, and has a browser front end. This directory holds TLA+ models of the
parts where goroutines, HTTP sessions, database statements, SNMP walks or callbacks of
the browser interleave, the TLC configurations that check them, and TLAPS proofs of the
properties that matter most. All paths below are relative to `src/`.

    tlc -workers 2 -config PresetTask_core.cfg MCPresetTask     # check a run
    tlapm PresetTaskProofs.tla                                  # check the proofs

## 1. Inventory

| part | state | operations | what is hard | model |
|---|---|---|---|---|
| **Preset tasks** `app/cwmp_preset.go`, `models/cwmp.go` | table `cwmp_preset_task` | `CreateCwmpPresetEventTask` and the `creat*Task` functions, `GetLatestCwmpPresetTask`, `UpdateCwmpPresetTaskStatus`; execute, delete, wifi, wan, reboot requests | SELECT and UPDATE of a dispatch are separate; rows are inserted by several goroutines; results come in goroutines, twice or never; a failure cancels the batch while it is being inserted | `PresetTask`, `TaskBoard` |
| **Command queues** `app/cwmp.go:144-200` | two channels per CPE, in memory: urgent (1 place), normal (512) | `SendCwmpEventData`, `RecvCwmpEventData`, with timeouts | capacity, timeout 0, two sessions at once, the entry replaced under a sender, restart | `EventQueue`, `Mailbox` |
| **CPE table and registration** `app/cwmp.go`, `controllers/cpe/cpe.go`, `app/jobs.go:160` | map `cpeTable`, its entries (unlocked), table `net_cpe` | `GetCwmpCpe`, `ClearCwmpCpe`, `CheckRegister`, `UpdateStatus`, `NotifyDataUpdate`, `TaskTags`, `OnParamsUpdate`; add, update, delete; the offline job | one goroutine per Inform, caches that go stale, deletion in two steps | `CpeTable` |
| **CWMP session** `tr069/handlers.go` | cookie with the serial number | `Tr069Index`: Inform, TransferComplete, responses, empty POST | an empty POST asks the database before the lanes, a response asks the lanes first; a request or an answer may be lost; a restart forgets the Inform | `CwmpSession`, `Delivery` |
| **Supervise commands** `controllers/supervise/*.go` | configuration sessions | a dozen commands that send to a queue, insert a task, or both, and ask the CPE to connect | the same command by two ways, rows dated ahead | `CwmpSession` (wifi, wan), `PresetTask` (reboot), `SettingsPage` (credentials); the rest is not modelled |
| **OLT poller** `snmp/*.go`, `controllers/supervise/olt.go` | tables `olt_device`, `olt_onu_data` | a round of polls every five minutes; add, update, delete | rounds that overlap, polls against deletions, walks that fail half-way, an upsert of two statements without a unique index | `OltPoller`, `OnuTable` |
| **Browser front end** `reactui/src`, **administration** `controllers/settings/settings.go` | tabs, form, query cache, mutation; table `sys_config` | tab, type, save, reset; query, update; push of web credentials to the devices | callbacks that see a later state than the one they belong to; a save of the whole form; pushes that read while a save writes | `SettingsPage` |
| **Scheduled tasks** `app/cwmp_scheduled.go`, `app/jobs.go:166` | cron entries, presets | `CreateCwmpSchedEventTask`, `ActiveCwmpSchedEventTask`, `CreateCwmpScheduledTask` | partial failure, 1 s delayed goroutines | none yet |
| **Supervise events** `events/events.go`, `common/web/sse.go` | subscriptions | publish, listen | subscriptions of concurrent listeners | none yet |
| Vendor parsing, CWMP messages, connection request client | none | pure functions | string handling | none |
| Other pages, dashboard, logging, servers, helper libraries | rows of their own | one statement per request | nothing concurrent | none |

How they interact. An Inform starts a goroutine that registers the device, refreshes
entry and row, and starts jobs: these insert preset tasks and send to the queues. The
CPE then POSTs an empty body; the session hands out one preset task, or, when there is
none, one message of the urgent and then of the normal lane. A response to
`SetParameterValues` or `GetParameterValues` is answered with the next message of the
lanes or the next task. A finished transfer is reported by a `TransferComplete` in a
later session. Operators insert tasks, send messages and change or delete devices at any
time. Shared state is the database, without transactions, and the entries of the table,
of which only the map is locked. The poller shares with the rest only the database and
the operators; the settings page talks to the server by requests and reaches the devices through the queues.

What makes the parts correct:

* tasks: handed out in order, not lost and not sent again and again; a result is final;
  a cancellation hits its own batch and everything of it that has not started;
* queues: first in, first out; at most once; nothing delivered that was refused; urgent
  first; senders return;
* table: what is cached or stored is not older than what was known; a device that
  connects is registered; a silent device is shown offline;
* sessions and commands: a command reaches the CPE, and not again and again; the last one
  wins; no source starves;
* poller: an ONU has one row at an OLT, rows do not go back in time, nothing is left of a
  deleted OLT, and what is shown is true in the end;
* settings: an edit is kept or stored, a save is not undone, the devices have what is
  stored, a form does not stay blank;
* scheduler: every policy on offer runs; a job inserts all of a preset or reports.

The hazards of the code, each with its line and the properties for it, are listed in
`PROJECT.json`.

## 2. Modules

| module | role |
|---|---|
| `PresetTask` | the task table: jobs, sessions, CPE, updates, operators, restart |
| `TaskBoard` | abstract: tasks that are claimed, started, settled, cancelled by group, deleted |
| `EventQueue` | the two lanes of a CPE: senders, sessions, entry, restart |
| `Mailbox` | abstract: bounded first-in first-out mailboxes that may lose their contents |
| `CpeTable` | row and entry of a CPE: Informs, task tags, operators, offline job, restart |
| `CwmpSession` | composes rows and lanes: commands that go both ways, the dialogue that asks both, losses, restart |
| `Delivery` | abstract: parts of commands, of each one message and one row that wait, are handed over, received or noted as lost |
| `OltPoller` | rounds of polls, operators, network, restart |
| `OnuTable` | abstract: rows that belong to an ONU of an OLT and change to what a poll has found |
| `SettingsPage` | the page, its requests, the pushes |
| `MC...` | constants for TLC, one module for each of the above but the abstract ones |
| `PresetTaskProofs`, `EventQueueProofs`, `CpeTableProofs`, `CwmpSessionProofs`, `CwmpOrderProofs`, `CwmpDeliveryProofs`, `OltPollerProofs`, `SettingsPageProofs` | theorems |

In each module one action stands for the code between two points where another goroutine
can get in: a database statement, a channel operation, an SNMP walk, a write to a shared field,
a callback of the browser. Names are those of the Go functions or of the React handlers where they have one. Mutants,
i.e. definitions such as `Before_Desc` in front of `Before`, are plausible bugs; they are used nowhere, and serve to show that each
property can fail: with the mutant in place of the definition TLC finds it violated.

### PresetTask

`rows` is the table in order of insertion; a row has the columns that control
anything (`sn`, `preset_id`, `batch`, what it asks for, `onfail`, `status`,
`created_at`). `job` holds for each batch what the goroutine of
`CreateCwmpPresetEventTask` has still to insert, `async` the goroutines it leaves the
parameters to, `pick` for each session a row it has selected and not yet marked, `updates`
the goroutines that record a `TransferComplete`. `held` and `reports` are the CPE:
requests it has received, reports it wants acknowledged. `sent` and `faulted` only
observe.

* A dispatch is `Select` and then `Mark`, as in `GetLatestCwmpPresetTask`. The order is
  `created_at`, then the primary key, which `First` adds; ids grow with insertion.
  The request may be lost after it was marked.
* `AnswerSet` settles rows made by a preset only: the session ids of wifi, wan and reboot
  rows do not start with `PresetTask`, so they stay running. The dispatch that follows in the
  same handler is a `Select` of its own, because the lanes are asked in between.
* `RecvReport` starts the goroutine and may leave the report with the CPE (a lost reply,
  hence a duplicate). `UpdateStatus` and `UpdateBatch` are its two UPDATEs. The SELECT in
  front of them is part of `UpdateStatus`: a deletion in between changes no more than a
  deletion afterwards.
* A row that is deleted gets the status `deleted` and is touched by nothing afterwards.
* Statements that fail are modelled where the code goes on (an INSERT that fails in
  `CreateStep`, `CreateSet`); UPDATEs are assumed to work.

`TaskBoard` knows no job, clock, message or goroutine: tasks, claims, and the set of failed
tasks. A claim may be late (`Start` does not look at the status), because the UPDATE of
`GetLatestCwmpPresetTask` does not; that is as much as the code promises. `PresetTask` maps a
row to a task (batch, `onfail = cancel`, status), `pick` to the claims, `faulted` to the failures.

### EventQueue

`lane[<<e, TRUE>>]` and `lane[<<e, FALSE>>]` are the channels of entry `e`. Each message has a
goroutine that sends it, in `send`; each session has its state in `recv`. Both keep the entry
they got from `GetCwmpCpe` even after `ClearCwmpCpe` has dropped it. `Begin` gets the
pointer, `Accept` and `Refuse` are the two cases of the `select` of `SendCwmpEventData`,
`Take` and `GiveUp` those of `RecvCwmpEventData`.

* A `select` picks freely among its ready cases. A timeout of 0 (the reboot) counts as
  expired at once; all others are 50 ms or more, and a case that is ready when
  `select` looks is taken before such a timer can fire.
* Go hands a channel to waiting senders in order; the model allows any order.
* What was waiting at a restart is dropped from `accepted`: `Mailbox!Lose`.

### CpeTable

One CPE. `row` is its row in `net_cpe`, `cpe[e]` the entry behind pointer `e`: `isRegister`,
the cached task tags, the number of its `LastInform`, the age of `LastDataNotify`.
`handler`, `filler`, `edits` and `doomed` are the goroutines and requests under way.
`suspect`, `beside`, `calm` and `late` only observe.

* A handler goes through `CheckRegister`, `UpdateStatus`, `NotifyDataUpdate`, and then either
  `OnInformUpdateOnline` or `TakeInform`, `OnInformUpdate`, `Stamp`; a VALUE CHANGE adds a
  forced round.
* `data` stands for the columns only an Inform fills (manufacturer, product class, OUI).
* Ages count in units of the 300 s limit divided by `Quiet` and stop at `Quiet + 1`.
* `CheckRegister` is three steps: `CheckRegister` looks at the setting and the flag, `CreateCpe` is the INSERT and `MarkRegister` sets the flag once it has
  returned. `FailCreate` is an INSERT that fails, on the unique index since another Inform was first, or for any other reason; the error is logged
  and the Inform goes on, and without a row it is no longer `calm`.
* Not modelled: `/admin/cpe/import`, a serial number changed by an update, the torn
  read of the `taskTags` slice (nil between the check and the return, `app/cwmp.go:153`),
  the parameter rows of `UpdateCwmpCpeRundata`.

### CwmpSession

One CPE, with everything that decides what it is asked to do next. `rows` are its pending tasks,
each with its age in seconds (negative while dated ahead); `lane[TRUE]` and `lane[FALSE]` the two channels; `op` the handlers
of the operators' commands; `inform` what the goroutine of an Inform has still to do; `session` the dialogue;
`known` whether `LastInform` is there; `device` what the CPE has been set to; `owed` a finished download it has to report.

* A command (`cwmpSetWifiParams`, `cwmpSetWanParams`) sets parts, one after another. For each one it
  sends to the urgent lane (`SendPart`, or `GiveUpPart` after the timeout, which is only logged) and then inserts a row dated
  `taskCount` seconds ahead (`InsertPart`, or `FailPart`, which returns the error and leaves the other parts).
* `OnEmptyPost` and `Chain` are the two orders in which sources are asked. `AskTask` is SELECT and UPDATE in one step, `AskLane` one receive:
  what lies between those two statements is the subject of `PresetTask`, and several entries and sessions that of `EventQueue`.
* A row that is dispatched leaves `rows`; what becomes of it is the subject of `PresetTask`. A row older than `Window` is forgotten, and
  noted in `dropped`.
* `Inform` sets `known` at once, while `LastInform` is stored by the goroutine it starts (`tr069/handlers.go:354`). A CPE whose next message overtakes that gets 401
  and starts over, which the model has only after a restart: with a step of its own the runs take longer than five minutes.
* `LoseReply` stands for a request that is lost and for one that is answered with a Fault, which `ParseXML` cannot read. `Respond` after a restart
  gets 401. All of these are noted in `cut`.
* When a request fails, messages stay in the lane whose rows are gone already. The next session asks for rows first, so that such a message comes after the row of a
  later command; it is noted in `stranded`.
* `before`, `got`, `cut`, `stranded`, `dropped` and `ahead` only observe.

`Delivery` knows no order, no lanes, no sessions and no clock: of each part one message and then one row may be made, each is handed to the CPE once,
and is then received, or noted. Messages go at a restart; rows go only to the CPE or, noted, by age. `CwmpSession` maps `op` to what may still be made
(`Unsent`, `Due`), its lanes and rows to those of the parts, `cut` and `dropped` to what is noted.

### OltPoller

`olts` are the rows of `olt_device`, `rows` those of `olt_onu_data` in the order of their last UPDATE, `poll[r][o]` the goroutine of
round `r` for OLT `o`, with the address it has read (`pollAll` passes the row by value), the ONUs it has found and not written, and the row it has selected.
The network is outside: `where` an ONU is attached, `epoch` the number of its changes, `up` the devices that answer.

* A poll goes through `Test` (`TestConnection`), `RecordStatus`, `WalkSerials`, `WalkStates`, and then, for every ONU, `Find` and `Insert` or `Update`:
  the two statements of `FirstOrCreate` and `Updates`.
* The epoch an ONU has when its columns are walked stands for the columns; a walk that fails leaves them empty, because its error is dropped.
* `WalkStates` is an abstraction of six walks, at six moments, as one: a row holds one value and not six that may be of different ages. The walks go by the port and
  the number of an ONU and the model by its serial number: that a place passes to another ONU between two walks of one poll is left out.
* `DeleteOnus` and `DeleteOlt` are the two DELETEs of `/admin/olt/delete`. The errors of both are dropped, and the OLT goes though its ONUs stay
  (`FailDeleteOnus`), or the other way round (`FailDeleteOlt`).
* `Move`, `ChangeState`, `Power`, requests of operators, lost requests and restarts share the bound `MaxChange`.
* `raced` (OLTs polled during their deletion, or whose first DELETE failed) and `beside` only observe.

`OnuTable` knows no devices, addresses or phases: a poll finds out which ONUs there are, looks at some of them at one moment, and writes what it found, one by one,
to a row of that ONU at its OLT or to a new one; all rows of an OLT go together. `OltPoller` maps `todo` to what was found, and `epoch` to the truth.

### SettingsPage

`tab`, `form`, `dirty`, `cache`, `fetch` and `save` are the state of `Settings.tsx` and of its react-query client (external: a query is fresh for 30 s, an
equal answer keeps the object, `invalidateQueries` cancels a fetch under way); `db` is `sys_config`, `request[r]` a handler of `/admin/settings/update`, `push[x]` a push of web
credentials after a save or after an Inform, `device` what was put into the lane last. `save.of` tells which handler or push the page waits for. A value is the number of the
edit that made it; `emptied` are the edits that cleared a field. One device, whose vendor fixes which credentials have a parameter path (`OfVendor`).

* `Query` is the SELECT; a SELECT that fails is answered `{}` with 200, cached as fresh and taken for the settings.
* `UpdateKey` is one statement of the handler, in any order of keys, since it ranges over a map. `FailUpdate` is a statement that fails: the error is dropped, the answer is success.
* `LoseSave` is `onError`. The request never arrived, its answer is lost, or the browser gives up while the handler goes on: that one keeps its place in `request`
  and writes beside the save that comes next.
* `OnSuccess` uses the `activeTab` of the latest rendering, since the options of a pending mutation are replaced at every rendering.
* `PushWebCredentials` reads key by key (`ReadKey`, or `FailRead`, whose error is dropped). An empty value is not sent: the device keeps the one it has, and with nothing to send `Send` changes
  nothing. ZTE has no parameter for the username of the administrator, other vendors have none for the user (`app/cwmp.go:366`), so that what the labels in `Settings.tsx:123-126` call "pushed
  to all ONT devices" is a part of it for each vendor, and a credential that is cleared stays in the devices.
* `Refuse` is a push that comes to nothing: its request is lost, the device is not online, its vendor is not known because no Inform came since a restart, or its lane is full. It counts as done.
* `doubt`, `missed`, `typed`, `hasty`, `undone`, `blanked` and `astray` only observe.
* One administrator. The model of two adds nothing but lost updates, which a save of the whole form makes obvious.

## 3. What is checked

| run | instance | properties |
|---|---|---|
| `task_core` | 1 device, 1 session, 2 batches, 3 rows, 2 clock values, deletions, a preset that does not parse | `TypeOK` `CancelHasCause` `ResultIsFinal` `EndedBatchIsSilent` |
| `task_sessions` | 2 devices, 2 + 1 sessions, 2 rows, all commands that insert, 1 restart, fair | `SentOncePerSession` `StartInOrder` `IsTaskBoard` `PendingIsServed` `ReportSettles` |
| `queue_lanes` | 2 urgent, 2 normal messages, 1 session that comes back, 2 entries, fair | `TypeOK` `LanesInOrder` `TakenOnce` `UrgentFirst` `IsMailbox` `SendReturns` `WaitingIsTaken` |
| `cpe_tags` | 1 Inform, 2 readers, 2 editors, 1 deletion | `TypeOK` `StaleTagsHaveCause` |
| `cpe_data` | 2 Informs at once, INSERTs that race or fail, 1 deletion, fair | `DataIsNotOld` `SilentGoesOffline` `UnregisteredHasCause` |
| `session_order` | 2 commands for one part, a download for every periodic Inform, 1 fault, fair | `TypeOK` `AtMostTwice` `KeptUntilSent` `LastWinsUnlessCut` `IsDelivery` `CommandIsSent` `UrgentIsTaken` |
| `olt_poll` | 2 rounds, 2 OLTs, 2 devices, 2 ONUs, 2 polls at once, 2 changes, fair | `TypeOK` `OrphansHaveCause` `OneRowPerOnu` `RowsGoForward` `SettledIsShown` `StatusSettles` |
| `settings_save` | 2 tabs, 3 settings, of which 1 is a credential the vendor takes, 2 edits, 1 event, fair | `TypeOK` `EditIsKept` `DeviceIsCurrent` `BlankIsAwaited` `SaveIsNotReverted` `FormIsShown` |
| `task_cancel` | finding | `FailedBatchStaysStopped` is violated |
| `task_execute` | finding | `OneRunPerPreset` is violated |
| `cpe_register` | finding | `ConnectedIsRegistered` is violated |
| `session_last` | finding | `LastCommandWins` is violated |

Among the largest are `cpe_tags` (1,478,331 distinct states), `settings_save` (1,000,342), `olt_poll` (949,691) and `cpe_data` (721,749); no run takes more than five minutes.

The four findings expect a violation: the property is what a comment, a message or an answer of the program says, and TLC shows a behaviour of the code against it.

### Bounds

Nothing limits the models but the constants below; each is a guard with that name or a set of that size.

* `MaxRow` 3 in `PresetTask`: a task that fails, one of its batch, one of another batch. With two sessions of one device every pair of steps of
  two dispatches interleaves; a second device shows that a dispatch leaves other devices alone. `MaxClock` 1 and `Window` 0 (the 72 minutes)
  let a row get too old in one tick, `MaxOrder` bounds the seconds a wifi row is dated ahead.
* `Room`: one urgent place is the code's; two normal ones stand for 512, so that a lane holds more than one and fills up. `MaxEntry` 2: an entry dropped, another made, and somebody
  who still holds the first.
* `CpeTable`: two Informs at once are the least for the row to go back to an earlier one; a third one, in the run of the finding, comes after a deletion. `Quiet` stands for the 300 s.
* `CwmpSession`: two commands for the same part are the least for a last one to exist. `Timeout` (the 5 s of a send) is 0 or 2 and `Window` 0 or 3, in seconds of the model: a row gets too old at once, or not before
  the row dated ahead is due. `MaxFault` bounds lost requests, lost answers and restarts, and INSERTs that fail.
* `OltPoller`: `MaxPoll` bounds the polls at one time, `MaxChange` what operators and the network do: two changes are an ONU that moves and its OLT deleted, or a device that goes down and an
  address that is changed. Rounds go on for ever.
* `SettingsPage`: `MaxEdit` 2 is one value stored and one typed over it, or one typed in each of two saves that overlap. `MaxEvent` bounds Informs that push, statements that fail, requests
  and answers that are lost, refused pushes, and a cache that gets old; one of them is enough for each of the accidents the properties name. A handler or a push that nobody
  waits for has cost an event, so that `0..MaxEvent` is enough for the handlers (`Slot`) and for the pushes: one slot is always free.
* `MaxCrash`, `MaxInform` bound restarts and Informs.

Symmetry is used only for sets whose members no property tells apart, and never in a run with a liveness property. `CHECK_DEADLOCK FALSE` stands in the `PresetTask` configurations only: with all rows inserted and settled
there is nothing left to do.

### Fairness

* `PresetTask`: weak fairness of `Select` and `Mark` says that the CPE keeps opening sessions (its periodic Inform) and handlers finish; of `RecvReport`, that the CPE repeats
  a report until it is acknowledged, as TR-069 demands; of the updates, that goroutines run. Nothing is assumed of the CPE executing a request, of operators or of restarts.
* `EventQueue`: goroutines are scheduled and timers fire; the CPE comes back, which opens the next session.
* `CpeTable`: goroutines run, time passes, cron starts the offline job.
* `CwmpSession`: goroutines and the handlers of the ACS run, time passes while a command waits for room in its lane, the CPE opens sessions and goes on with those it has opened. `ReportInform` is strongly fair:
  a download that has finished is reported some time although periodic Informs come in between, since TR-069 makes the CPE open a session for it. No fairness for
  commands, losses or restarts.
* `OltPoller`: the ticker starts rounds, polls go on, and a deletion that has begun ends. Nothing for operators or the network.
* `SettingsPage`: a query is sent by an effect and is answered. Nothing for the administrator, the mutation or the pushes.

### Findings

1. `task_cancel`. A batch is cancelled by one UPDATE over its pending rows. A row that a session has selected and not yet marked is sent and its status `cancel` overwritten;
   the row of the parameters, which a goroutine inserts, may come afterwards. Against `assets/tr069_preset.yml:6`.
2. `task_execute`. The check in front of an execution by hand sees pending rows only and is not atomic with the insertion. Against the refusal in `controllers/cwmppreset/cwmp.go:90`.
3. `cpe_register`. A device that informs while it is being deleted is not registered again, though auto-registration is on. Against `reactui/src/pages/Settings.tsx:122`.
4. `session_last`. The rows of a command for several parts are dated ahead (`controllers/supervise/cwmp.go:513`), so that they come after those of a command that was
   issued when the first one was over: the device ends up with the older value. Against `controllers/supervise/supervise.go:178`.

### What the other properties say about known weaknesses

Many properties name the exceptions under which the code does not keep its promise. They are as strong as that: no other way leads there.

* A task may be sent once by each session of its device (`SentOncePerSession`); a report is lost when the server stops after acknowledging it (`ReportSettles`).
* The tasks of a failed batch are sent only while something of it is still selected or being inserted: once it has ended, by success or by a cancellation, nothing brings it back (`EndedBatchIsSilent`, next to finding 1).
* An accepted message is lost with its entry or at a restart (`WaitingIsTaken`).
* Cached tags are stale after three kinds of races only (`StaleTagsHaveCause`).
* An Inform that no deletion overlaps and that goes on without a row does so because its entry still says registered of a row there once was (`UnregisteredHasCause`): that flag, left by a deletion
  that came before, is the whole cause of finding 3, and two first Informs that both find it unset do no harm. An INSERT that fails without a row is excepted: the next Inform tries again.
* A row that was inserted reaches the CPE or is known to be lost, also when a later part of its command fails (`KeptUntilSent`); with the messages, this is `IsDelivery`.
* A command is sent once or twice, unless a request was cut or its row got too old before the CPE connected (`CommandIsSent`, `AtMostTwice`). The last command wins unless that has happened to it, or the
  earlier one was dated further ahead, lost its row by age, was reported as failed with its message in the lane, or left its message there when another request
  failed (`LastWinsUnlessCut`; the last needs a request of a third command or for another part, which the run does not have: it came up in the proof). Periodic tasks do not starve the urgent lane, although the database is asked first: the response to a task asks the lanes first, and the
  session after a download is opened by a `TransferComplete` (`UrgentIsTaken`).
* Rows of a deleted OLT stay only when a poll was under way during the deletion or the first DELETE failed (`OrphansHaveCause`), a second row for an ONU or an older value comes only from polls of one OLT that overlap (`OneRowPerOnu`, `RowsGoForward`); and in spite of all
  this, once changes cease, what is shown is right (`SettledIsShown`, `StatusSettles`).
* A save writes old values back, an edit is lost, devices lack stored credentials, or a form stays blank in the cases that `doubt`, `hasty`, `undone`, `astray` and `blanked` record,
  each at the callback that causes it, and in no others (`SaveIsNotReverted`, `EditIsKept`, `DeviceIsCurrent`, `BlankIsAwaited`, `FormIsShown`). `undone` and a handler nobody waits for are the price of two errors that nobody sees: an UPDATE that fails leaves
  the form looking saved, and a save that was given up may overwrite the one that came after it.

## 4. What is proved

Every theorem holds for all values of the constants that satisfy the module's `ConstantsAssumption`: any number of devices, sessions, batches, messages, commands, OLTs, goroutines, any bounds.

`PresetTaskProofs`
* `TypeCorrect`: `Spec => []TypeOK`, one step per action; the base of the others.
* `TasksStartInOrder`: a row that any session has selected or that has left `pending` was the earliest at that time. `StartInOrder` is
  inductive with `TypeOK` once one knows how a step changes the table: rows are appended as pending and not selected by anyone, a status never
  returns to pending, no age decreases (`TableStep`).
* `CancelledWithCause`: inductive with the invariant that an update in its second phase (`pc = "cancel"`) is about a row that
  failed and has `onfail = cancel` and a batch (`CancelInv`).
* `SentAtMostOncePerSession`: a session that has a row in `pick` has not counted it yet, and a row that was marked is
  never pending again, so it is never selected again. The invariant bounds `sent[i]` plus the number of sessions
  that hold `i` by the number of sessions of the device (`SentInv`), and rests on cardinalities of finite sets.
* `ImplementsTaskBoard`: initial states map to initial states, and every step to one step of the board or to a stutter. `CancelInv` gives the failed task
  that the cancellation of a group needs.
* `ResultsAreFinal`: `ResultIsFinal`, an action property, assuming that no two sessions serve one device: of two sessions that select the same row one would mark it
  after the other's result. `ResultInv` says that a task is selected, in the hands of the CPE, or reported on, never two of them, and has a result only in the last case.
* `EndedBatchesAreSilent`: an action property. That a batch has ended is itself inductive: rows of a batch are inserted only by its job or a goroutine of it
  (`NotInserted`), jobs and goroutines start once (`NotRestarted`), only pending rows are selected (`PickMoves`), and no status returns to pending (`TableStep`).
* `SelectIsDetermined`: exactly one of the rows that may be dispatched comes first. It needs that a set of numbers has a least one (`Least`), since the number of rows is arbitrary.

`EventQueueProofs`
* `TypeCorrect`, `LanesAreInOrder`: each lane accepted what it delivered followed by what waits.
* `NothingTakenTwice`: rests on `OnceInv`: the sender of every message in `accepted` is done (`pc = "accepted"`, so it
  writes no more), and no message stands at two places of `accepted`, in one lane or in two.
* `UrgentGoesFirst`: rests on `UrgentInv`, the same statement for a session that still waits on the urgent lane, in terms of
  what the lane holds.
* `ImplementsMailbox`: every step maps to a step of `Mailbox` or changes neither history; `LanesInOrder` gives the value
  that `Mailbox!Take` must deliver, `TypeOK` the room `Mailbox!Put` needs.

`CpeTableProofs`
* `TypeCorrect`.
* `StaleTagsAreExplained`: `TagsInv` adds that what a filler is about to store is the row's value unless the filler is
  marked `late`, that a row that does not exist has no tags, and that an entry not made yet holds none.
* `DataStaysTimely`: `DataInv` says of each goroutine that the Inform stored in its entry, and the one it has taken,
  is its own, a later one, or one that ran when it began; that holds because any two running goroutines began one beside the
  other.
* `UnregisteredIsExplained`: `RegisterInv` adds that while an Inform is calm no deletion is under way, so that a row it has found or inserted stays, also between the INSERT
  and the flag. `FirstInv` says that no entry is marked, and none is about to be, before the first INSERT of a row.

`CwmpSessionProofs`
* `TypeCorrect`.
* `SentAtMostTwice`: `AtMostTwice` is not inductive, since it says nothing of what may still be sent. The invariant bounds for each part of a command the number of times it was got,
  plus what the CPE has in hand, what its handler has still to send and to insert, and what waits in the lane and in the rows, by two; and no part waits twice in one place (`Apart`).

`CwmpOrderProofs`
* `LastCommandWinsButFor`: `LastWinsUnlessCut` speaks of quiet states only. `LastInv` says of every state in which the row of the later command has been taken
  and nothing excuses the earlier one, that the latter has neither row nor message nor request left, and that the CPE has other values or is about to get those of the
  later. That holds when the row is taken, because rows are taken in order (`OrderInv`: those of a later command come later, unless noted in `ahead`), and because a message whose
  row has gone is still in the lane only while the session goes on with the lane (`DrainInv`): the response to a request asks it first, and it is asked until it is empty.

`CwmpDeliveryProofs`
* `RowsAreKept`: `KeptUntilSent`, inductive with `TypeOK`: each action moves a part at most from one place to the next (`InsertedMoves`, `GotMoves`).
* `ImplementsDelivery`: every step maps to one step of `Delivery` or to a stutter. A send that gives up maps to `Send` without a message, a handler that
  returns an error to `Abandon`, the clock to `Expire`. That a message or a row is gone when it has been taken needs the invariant of `SentAtMostTwice`: no part waits twice in one place (`Apart`).

`OltPollerProofs`
* `TypeCorrect`; it needs that a poll that selects or writes a row has an ONU left to write, and that no walk has seen a change yet to come.
* `OrphansAreExplained`: `OrphanInv` says that an OLT that is deleted, or whose deletion has gone past its first DELETE, and that no poll raced and no error spared,
  has neither rows nor a poll under way (none can start, since the list of OLTs is read from the table).
* `RowsAreUnique`: `OneRowPerOnu`, an action property: a poll that ran alone and is about to insert has found no row, and nobody else can have inserted one since (`BesideInv`).
* `RowsGoForwardAlone`: `RowsGoForward`, an action property. `AgeInv` says that what a poll is about to write was true once, holds one value per ONU, and is no
  older than the rows of that OLT unless another poll ran beside it; and that the row a poll has selected is one for its ONU.
* `ImplementsOnuTable`: `TodoInv` says that a walk lists each ONU once and that a poll outside the phases in which it works has nothing left to write; with `AgeInv`, which says for whom a
  selected row is, an update maps to `Write` of that ONU's row, or of none if the row was deleted in between. TLC checks this refinement under `Spec`
  without fairness (950,000 states); it is in no run, because with the liveness properties of `olt_poll` it would take longer than the other runs together.

`SettingsPageProofs`
* `TypeCorrect`; `TypeInv` adds to `TypeOK` that answers and cached data have all keys of their tab or none (`Answers`), and that a handler has values for the keys it has left to write,
  and these are keys of its tab (`Handlers`).
* `BlanksAreAwaited`: `BlankInv` says that a form that is not filled and was not blanked by hand or by an empty answer has no data in the cache and a fetch under way, and that only a form that is filled has edits.
* `EditsAreKept`: `EditInv` says of each key typed and neither `hasty` nor `undone` (`Kept`) that the save the page waits for has the value typed, and has stored it or still has to write it;
  a form is clean only with it stored, and an answer which may replace a clean form has it too.
* `SavesAreNotReverted`: an action property. `SaveInv` bounds from below the age of every value that can get without doubt into the save the page waits for: values are no newer than the last
  edit (`Bounded`); those of the cache, while no handler writes the tab (`Recent`), of the form (`FormRecent`) and of the save (`SaveRecent`) are no older than what is stored, the last two neither than
  what any handler has still to write.
* `DevicesAreCurrent`: `DeviceInv` adds that what a push not flawed has read so far is what is stored, empty values left out (`Right`), and that the device has what is stored and not empty (`Current`) unless a push is due, the page waits for the save of a credential, or one of the accidents has happened.

Only model-checked: the findings and every liveness
property (fairness and `ENABLED` are beyond the prover). No module declares a RECURSIVE operator.

## 5. Not modelled, and the plan

Next, in this order:

1. `Scheduler`: the three jobs with their delayed goroutines, full lanes, and the cron table (`app/jobs.go:186` gives `@every 12`, which cron refuses, for the policy `12h`).
2. Configuration, firmware and factory sessions: the check in front of a configuration session (`controllers/supervise/cwmpconfig.go:33`) and what a
   `TransferComplete` does to it.
3. Events of the supervise page (`events/events.go`, `controllers/supervise/supervise.go:104`): listeners that come and go.
4. The import of devices and a changed serial number in `CpeTable`; branches of `Inform` that only differ in the preset event they name.
5. Pure functions against reference definitions: `MatchDevice`, `MatchTaskTags`, the dispatch of `ParseXML`, `parseWifiSsids`, the conversion of received power.

Not modelled although possible: two administrators at the settings page, an OLT that is seen twice by one device at two ports with the same serial number.

Left out for good: pages that read or write one row, the dashboard, logging, metrics, configuration of the process, the connection request client (one HTTP request), and the vendored JavaScript under
`assets/static` (webix, codemirror), which is most of the lines of the repository and none of its own logic. They have no behaviour in time that is TeamsACS's own.
