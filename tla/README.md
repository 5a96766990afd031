# Formal model of the Hikvision access integration

TLA+ specifications of the core of `custom_components/hikvision_intercom` and of
the request handling of its panel, the TLC configurations that check them, and
TLAPS proofs about them. Paths of `.py` files are relative to
`src/custom_components/hikvision_intercom/`, those of `.ts` files to
`src/frontend/src/`.

## The system

The integration keeps a central **ledger** of people, their keypad code and
cards, and the door stations they may use, and makes every station hold exactly
that. Stations are unreliable, may be edited on site, and answer late or not at
all; the process may be cancelled or killed between any two awaits. Everything
runs on one asyncio event loop, so the interleavings are those of tasks between
awaits.

| Component (files) | State | Operations | Hard behaviour | What makes it correct |
|---|---|---|---|---|
| Ledger, `access/repository.py`, `access/models.py`, `storage.py` | people, assignments with applied revision, bindings with fingerprint and open intent, tombstones, retired cards and PINs; saved as one file | create, update, delete, adopt, write intent, record observation, confirm absence or removals, resolve, load | edits between two steps of an engine; a crash after any commit; removals confirmed station by station | no credential is forgotten, no credential belongs to two people, what it stores it can load |
| Engine, `access/engine.py`, `access/normalize.py` | per reconciliation: inventory, list of people, snapshot of the person at hand | reconcile, compare ownership, journal, write, read back, confirm | stale snapshot and inventory, lost answers, ignored writes, cancellation | writes only what it announced, overwrites only what it recognises, reports only what it read back |
| Station client, `client/access.py` | transaction lock, pooled connection | read a person or the inventory, single writes | timeouts after the write took effect | - |
| Worker, `access/manager.py` | per station: driver, pending flag, task, timer, shared scan, inventory | request, worker, scan, attach, detach, close | requests while leaving the loop, cancellation before the first turn, scans shared with administrators | no lost request, one worker, nothing left after unloading |
| Operation journal, `access/sync_tracking.py` | latest operation per person and station | update in each commit, verified | verified before a second withdrawal is confirmed | verified only after a readback with nothing pending |
| Hold-open, `access/hold_open.py`, `access/hold_programs.py` | per door: owned, attempted window, status | tick, pause, remove, update | crash around a relay command, edits during a tick | an opened door is owned until it is restored, no window is opened twice in a row |
| Schedules, `access/schedule_journal.py`, `schedule_executor.py`, `schedule_work_queue.py` | deployments with one row per resource; preflight tasks | prepare, execute, recover, queue, cancel | crash around a write, cancelled callers | an ambiguous write is never repeated |
| Maintenance jobs, `maintenance_jobs.py` | jobs, rows, consent | decide, cancel, expire, run | cancel or expiry between check and write | nothing is sent after a cancel was seen, uncertain writes are never replayed |
| Checkpoint jobs and bulk, `access/checkpoint_jobs.py`, `access/bulk_operations.py` | jobs and rows in the ledger, receipts | start, pause, resume, cancel, run, apply | pause against a running row, repeated apply | a row is saved once, a repeated apply changes nothing |
| Visit requests, `access/visit_requests.py` | requests with revision and approver | create, decide, guard of every commit | activation on another path, superseded requests | nobody is activated without the second operator |
| Station lifecycle, `access/station_lifecycle_jobs.py` | transfer jobs with stamps | prepare, decide, apply, mark, guard of every commit | policy edits between review and apply | a retiring station gets no new assignments |
| Events, `event_manager.py`, `events.py` | bounded history, cursors, saved revision | ingest, stream, history, flush, close | replayed windows, saving while events arrive | the cursor never passes an event that was not ingested |
| Runtime and lock, `runtime.py`, `lock.py` | releasing and released relays, timers | unlock, finish, close | overlapping pulses, closing in flight | a pulse ends once, none is revived after closing |
| Audio and TTS, `audio_api.py`, `audio_tts.py` | sessions per station | start, cancel, run | cancellation before the task runs | at most three sessions, every one gives its place back |
| Panel session, `panel.ts`, with `websocket.py` and `panel_security.py` | session, lock, overview, subscription; per connection: lock and subscriptions | bootstrap, connect, refresh, lock, prove, notify | answers after a lock, reconnections, a connect under way while its owner goes | nothing is shown after a lock, no subscription is forgotten, the panel keeps up |
| Panel views, 25 files from `fleet-alerts.ts` to `visit-requests.ts`, `request.ts` | answer shown, requests and commands under way, question asked, review, uncertainty | load, poll, ask, prepare, write, command, reset | late answers, writes with unknown outcome, other persons, users and connections | an answer is shown only in its session and never goes back, no blind write |

They interact as follows. The administrator interface (`websocket.py` and the
`*_api.py` files) calls the ledger through the manager, which then *requests*
the stations concerned. Each station's worker scans the device and runs the
engine, which reads the ledger, writes to the device under the station's
transaction lock, and commits intents and observations to the ledger. Adoption
and conflict resolution take the same lock. Jobs, visits and lifecycles are rows
in the ledger file and change it in the same commits. Parsing, projections,
reports, settings and messaging are listed in `PROJECT.json` with the reason why
they are not modelled.

The panel is a web component in the browser. It reads and writes through the
websocket of Home Assistant, whose handlers authorise every command anew, and
keeps one subscription that tells it, without data, that something changed. It
holds the overview and passes person, station and authorisation to its views;
each view is a component of its own that asks for its data itself. The hold-open
programs are independent of the ledger: a timer of 15 seconds and the
administrator's actions tick them.

## Modules

| Module | Models | Correspondence |
|---|---|---|
| `AccessRepository` | the ledger | variables `users`, `progress` (the assignments' `applied_revision` and `sync_state`), `bindings`, `tombstones`, `retired`; one operator per commit |
| `AccessSync` | engines, devices, failures and administrators around the ledger | `pc` is the await at which a station's engine stands, `job` its snapshots, `todo` the people still to visit, `inventory` what it read; one action per step from await to await |
| `AccessSyncSafety` | the properties of both | |
| `CredentialCustody` | what ledger, engines and stations promise together about each card and code (abstract) | `owner` and `wanted` follow from the people on record, `owed` from tombstones and retirements not confirmed, `held` from the devices; `Agreement` in `AccessSyncSafety` is the mapping |
| `StationWorker` | the scheduling of one station in `AccessManager` | `driver`, `pending`, `task`, `timer`, `scan`, `inventory` as in `Station`; `worker` is the local state of `_worker` |
| `HoldOpen` | a hold-open program and its executor, with the relay | `stored` is the saved program, `worker` the executor in memory, `task` the await at which a tick stands |
| `MaintenanceJobs` | the door configuration jobs, the run that works through them, and the stations it writes to | `jobs` and `cursor` are `data` and `_cursor`; `task` is the await of `run` at which the queue stands, with its locals; `away`, `policy`, `elapsed` is what its guard looks at |
| `ReadView` | what a view of the panel promises (abstract) | `session`, `shown` |
| `ViewCatalogue` | each of the 25 views as the record of its choices | one definition per view, mapped to its file |
| `PanelViews` | the request cycle of a view and the server behind it, whatever the choices; implements `ReadView` | `read`, `write`, `command` the requests under way, `shown`, `pending`, `uncertain` the view's fields, `hidden` the page's visibility, `orphans` the writes the server may still execute |
| `PanelSession` | the panel's session and the server's side of its connection | `session`, `locked`, `data`, `held`, `pending`, `reading` are `_session`, `_locked`, `_data`, `_unsubscribe`, `_connecting`, `_refreshing`; `toServer`, `toPanel` the websocket; `served`, `dirty` the subscriptions and their timers |
| `AccessSyncProofs`, `AccessOwnershipProofs`, `AccessCustodyProofs` (each extends the one before), `StationWorkerProofs`, `HoldOpenProofs`, `MaintenanceProofs`, `PanelViewsProofs`, `PanelSessionProofs` | the proofs | |
| `MCTransfer`, `MCFleet`, `MCExternal`, `MCWorker`, `MCHoldOpen`, `MCMaintenance`, `MCViews`, `MCPanel` | small instances for TLC | |

`AccessSync` extends `AccessRepository` and composes it with any number of
engines. `StationWorker` is kept apart: of the ledger it needs only how many
edits there were (`version`) and up to which one the station is known to be
served (`served`), and `AccessSync` in turn abstracts the worker to weak
fairness of each engine.

### Abstractions of the ledger and the engine

* A commit of the repository is one step: `_commit` holds a lock from the copy
  to the publication, saves before it publishes, and does not let cancellation
  release the lock during the save.
* A person keeps one employee number, so people name device records. A
  fingerprint is a keyed hash of the canonical content; the model uses the
  content. Names, validity periods and timing plans are left out of it: an
  update that repeats the same data stands for an edit of those, `EditProfile`
  for an edit that no station stores.
* `granted` merges an active person with an enabled assignment. Retired cards
  and retired PINs are one set. `sync_state` "offline" is shown as "pending".
  The copies of the status in bindings and tombstones are left out.
* A device read and the commit that follows are one step, since the commit does
  not touch the device and the device does not touch the ledger in between; the
  same holds for `async_mark("syncing")` and the snapshot after it. The four
  readback attempts are one.
* A write that had not taken effect when its request ended never takes effect
  later. The device applies a write, ignores it, or applies it with a lost
  answer. Cards on a device always belong to a record.
* A ledger that `async_load` would refuse stops everything (`Reload` is enabled
  only when `Loadable`).
* Capacity limits and the timing activation of `_person`, which writes a denied
  period in the same journaled way when it fails, are not modelled.

### Abstractions of the worker

* The station's visible status, the back-off delays and the read semaphore are
  left out; the awaits of `_mark_station` are one step with what precedes them.
* `EditUnannounced` is an edit whose caller is cancelled during the shielded
  save: it is committed and nobody calls `request`.
* `Attach` waits for the end of the previous unloading, as Home Assistant's
  set-up lock of a config entry does. Two overlapping detaches during shutdown
  are not modelled.
* Tasks do not run before their first turn (`eager_start=False` in
  `access_runtime.py`), so one can be cancelled before it.

### Abstractions of the hold-open programs

* One door: programs of different doors share only the saved file, and each
  save changes its own key. Edits and ticks of a key exclude each other, as the
  lock of that key makes them.
* `Calendar` says which window a moment lies in, by the token that `window()`
  makes of the local date and the period, or that it lies in none. It may give
  a token again after another one: in the hour which the end of summer time
  repeats, the local time runs over the same periods twice. The contents of the
  schedule, the revision of an edit (an outdated one changes nothing) and the
  error note are left out.
* `latest` is history: the token of the window opened last, until another token
  is recorded or the program is edited.
* A command that was not executed before its request failed is never executed.
* Two consequences of the code that the model keeps: an edit that times out
  during its save leaves the executor of the old program in use, so the new one
  may miss a window the old one had tried (`Settles` allows it); and a pause
  that times out during the save before an opening leaves a stored owner of a
  door that nobody opened, which forbids edits until the next restart.

### Abstractions of the maintenance jobs

* The values of a door are compared as a whole, so they are one value. A review
  and the enqueuing that follows are one step: the review is bound to the
  stations and refused when they were exchanged; a value that changes between
  the two is the same as one that changes afterwards.
* `tried` and `withdrawn` are history: the rows whose request was begun, and
  those that were pending when their job was cancelled, refused or expired.
* A maintenance window that closes makes the guard postpone the row, as a busy
  station does (`GuardFails`); that the run skips the rows of closed windows is
  left out. The same action stands for exchanged stations and for requesters and
  approvers who lost their rights.
* `elapsed` is read at each step, although the loop over expired jobs uses the
  time at which the run began.
* A save is not cut off in the middle, and a request to a station has its effect
  before it ends or never. The last comparison, the write and the readback of
  `update_door` are one step, under the station's write lock.
* Of a refused job every row is cancelled, as in the code; see the weaknesses
  below.

### Abstractions of the views

The views were written one by one, but each makes the same few choices: whether
a second load is ignored, takes over or queues, what the loss of the connection
does to the data, and so on. `ViewCatalogue` states the choices of each view;
its comment lists their meaning and `PROJECT.json` maps each record to the
view's lines. `PanelViews` gives every choice its meaning once and is mapped to a
view that makes it. TLC explores all records as initial states and the proofs
cover all of them. Two views make the same choices, `access-comparison.ts` and
`access-scenario.ts`, and are one record of the set `Views`.

* The server's data is a revision; a write names the revision shown, or an
  older one its form was opened with, and is refused when another write came
  first. A change by somebody else, a write and a late write are the same
  advance of the revision.
* A request that is given up is aborted or fails the comparison of epochs; as
  neither leaves a trace in the view the model drops it at once. A write that is
  given up stays with the server, which may execute it at any time (`orphans`).
* `question` is what the controls ask. For the event list and the investigations
  it is the filter applied, which pages and refreshes repeat while the form is
  edited. Controls that wait for a button or for Enter (`"type"`: the search of
  the visit requests, the dates of the audit) change it without a load.
* Some records have more than one way with a new choice or a new surrounding, as
  different controls or properties of the view do different things (`ask`,
  `rekey`).
* The review of a prepared write (`pending`) and the hidden page are in the model
  where a timer waits for them; the timer of a hidden page is set again and
  loads when the page is seen. The timer of the panel session, which has the
  same guard (`panel.ts`), leaves it out: that module is about a panel in use.
* The loss of the right to manage (`canManage`) cancels what the alerts and the
  guest templates are doing and loads again; they keep their data and do not ask
  for a refresh (`Demote`). Other views forget everything (`Rekey`).
* The operations center also sends commands (`Retry`). They share the flag
  `_busy` with loads, so whichever ends first clears it; `command` is `"free"`
  then. What a command does to the data is a change of the server's.
* Error texts are left out, also those that one request sets and another takes
  away. A detail, preview, export or picker a view asks for besides its main
  answer goes through the same epochs and cancellations and is not modelled
  separately.
* The panel removes and creates views as a whole (`Remount`).

### Abstractions of the panel session

* Every handler that raises `_epoch` also cancels the requests, so the aborted
  reads are removed with their messages, and a `connect()` under way is
  forgotten; its subscription is given back when the answer arrives. Requests
  of a connection that is gone are removed with it.
* Each direction of the websocket keeps its order. Messages are removed from the
  middle of a queue only when they are cancelled, and of their kind there is
  never more than one (`Single` in `TypeOK`). The two reads of a refresh
  are one. Commands of the user, tabs, drafts, details and elevation for
  sensitive commands are left out.
* The library subscribes again after a reconnection if `preCheck` agrees, and
  does not tell the panel when that is refused.
* A user switch comes with a connection of its own. An administrator does not
  grant access again within the quarter of a second that the announcement of a
  revocation takes; otherwise the message about the older subscription would
  drop the newer one.

## Properties and runs

Device records that were there before the integration (`Unmanaged`) are exempt
from the promises about what the code wrote; so is everything once somebody
edited a record on site (`external > 0`), except where a property says
otherwise.

| Run | Instance | Properties |
|---|---|---|
| `transfer` (`MCTransfer.cfg`) | 2 people, 1 card, 1 station, 2 revisions, 1 failure of any kind | `TypeOK`, `NoForgottenCredential`, `ExclusiveCredential`, `OwnedOnDevice`, `SyncedIsTrue`, `JournaledWrites`, `CredentialsInCustody` |
| `fleet` (`MCFleet.cfg`) | 1 person, 1 PIN, 2 stations, 3 revisions, no failures | `NoForgottenCredential`, `BindingAccounted`, `SyncedIsTrue`, `RetiredLoads` |
| `fleet_live` (`MCFleetLive.cfg`) | 1 person, 1 card, fair engines: 2 stations over 2 revisions without failures, and 1 station over 3 revisions with 2 failures (`Budget`) | `DeletionCompletes`, `RemovalCompletes` |
| `external` (`MCExternal.cfg`) | 2 people, one with an unmanaged record, 1 card, 1 station, 1 edit on site | `UniqueOnDevice`, `BindingAccounted`, `NoSilentOverwrite` |
| `worker` (`MCWorker.cfg`) | 1 station, 3 edits, 3 failures, 2 worker identities, fair event loop; deadlock checked | `TypeOK`, `Scheduled`, `SingleWorker`, `DetachedQuiet`, `FinalInventory`, `EditsServed` |
| `views` (`MCViews.cfg`) | every view, 2 questions, 7 outside events, fair server | `TypeOK`, `SettledAnswersQuestion`, `Refines`, `NoBlindWrite`, `Converges` |
| `panel` (`MCPanel.cfg`) | 1 panel, 6 subscription identities, 4 outside events, fair server | `TypeOK`, `SealedUntilProof`, `SubscriptionsKnown`, `ShowsLatest` |
| `hold_open` (`MCHoldOpen.cfg`) | 1 door, 2 windows of which the first comes again after the second, 6 edits and failures, fair timer | `TypeOK`, `OpenIsOwned`, `NoBlindRepeat`, `Settles` |
| `maintenance` (`MCMaintenance.cfg`) | 2 jobs over 2 stations, one of them held at a time, 1 row per run, 3 edits, failures and changes of mind, fair timer | `TypeOK`, `OutcomeOnRecord`, `WithdrawnNeverSent`, `NeverRepeated`, `Settles` |
| `tombstones` (`MCFleetTombstones.cfg`) | as `fleet`, with a card | `TombstonesLoad`, violated |
| `reaccept` (`MCFleetReaccept.cfg`) | as `tombstones` | `NoRetiredOwnCard`, violated |
| `panel_revoked` (`MCPanelRevoked.cfg`) | as `panel` | `RevokedCleared`, violated |

What they show:

* `NoForgottenCredential`, `ExclusiveCredential`: the reservation of a withdrawn
  credential lives until *each* station that may hold it has confirmed its
  absence, also when the edit falls between two writes of an engine that still
  works from the old snapshot.
* `CredentialsInCustody`: every step of the system is, for each credential, a step
  of `CredentialCustody`: its owner gets it, it is withdrawn and owed by every
  station that holds it, a station confirms, the last confirmation makes it free,
  a station takes it up for its owner or puts it off. In `transfer` the card
  passes from one person to another at one station. Several stations that owe it
  at once, somebody who is taken over from a station only to be deleted
  (`Condemn`), and edits on site are not reached in this run: there the theorem
  `CustodyKept` is the evidence.
* `OwnedOnDevice`, `JournaledWrites`: whatever the engine changes on a device
  was announced by a durable intent, so a restart at any instant can tell its
  own record from a foreign one.
* `SyncedIsTrue`: the visible status never claims more than the device holds.
* `BindingAccounted`, `RetiredLoads`: nothing in the ledger is left without
  somebody responsible, and withdrawals can be loaded again.
* `UniqueOnDevice`, `NoSilentOverwrite`: foreign records and edits on site end
  in a conflict, never in an overwrite or a doubled card.
* `DeletionCompletes`, `RemovalCompletes`, `EditsServed`: the work ends.
* `Scheduled`, `SingleWorker`, `DetachedQuiet`, `FinalInventory`: the life cycle
  of a station's worker.
* `OpenIsOwned`, `NoBlindRepeat`, `Settles`: whatever fails around a relay
  command, an open door has a stored owner that closes it, an opening whose
  answer was lost is not repeated before another window was recorded, and in the
  end the door is as the program says. `NoBlindRepeat` does not say that a
  window is opened once: see the weaknesses below.
* `NeverRepeated`, `WithdrawnNeverSent`, `OutcomeOnRecord` and `Settles` of the
  jobs: a write is begun at most once and never after it was withdrawn; it stays
  on record, through failed saves, lost answers, restarts and the removal of old
  jobs, until its outcome is known or known to be unknown; in the end only rows
  of stations that are away wait, and they keep no other row from its turn.
* `Refines`: no view shows an answer outside the session (user, authorisation,
  selection) it was asked in, or an older one after a newer one.
  `SettledAnswersQuestion`: a view at rest shows no answer to an earlier question
  of its controls. It is a property of the views in which every choice loads or
  clears and a failed load leaves no older answer (`Answers`). Five views are
  not of this kind: the alerts, the operations center and the identity lifecycle
  keep the old page when the load of a new filter fails (and `prepare()` of the
  alerts takes the error away that says so), the last two also when they ignore
  it because they are busy; the visit requests and the audit have controls that
  wait for a button, and keep the page too.
  `NoBlindWrite`: a view that asks for a refresh after an unconfirmed write, or
  drops its data, really reads before the next write, whether the write timed
  out, broke off with its connection or ended with its session. It speaks of the
  views that react (`fail` is not `"keep"`) and write from what they show
  (`needs`; the schedule operations and the event trace do not). One way to an
  unknown outcome is not counted: the alerts and the guest templates give up a
  write when the right to manage is lost (`fleet-alerts.ts:189`,
  `guest-templates.ts:187`) and keep their data without asking for a refresh, so
  if the load that follows fails and the right is granted again they can write
  without knowing what became of the first; the revision the write names makes
  the server refuse it if the first was executed.
  `Converges`: polling views end with the server's state for their question
  unless they wait for a refresh, for the end of a review, or for a page that is
  seen (`Waits`), and views that do not poll end their requests. The schedule
  operations, which poll only while jobs run, are in neither half.
* `SealedUntilProof`, `SubscriptionsKnown`, `ShowsLatest`: the panel's lock, its
  subscription, and that it recovers from every lost notification.

**Bounds.** `MaxRevision`, `MaxFaults`, `MaxExternal` and `MaxVersion` bound the
edits, failures, edits on site and edits seen by the worker. Two people are
enough for a credential to change hands, two stations for one to confirm a
removal before the other, one card or one PIN for both (their commits are the
same but for the confirmation's `kind`). Three revisions let a credential be
withdrawn, wanted again and withdrawn again. Two failures let an answer be lost
and the retry be interrupted. `fleet_live` has two stations only as long as
nothing fails and there are two revisions (`Budget` in `MCFleet`): it holds back
edits and failures, never an engine. Three edits come before, during and after one
reconciliation, and two worker identities suffice to see a second worker.
Deadlock is not checked in the `AccessSync` runs: with the bounded edits used up
and nothing left to do that system stops, as the real one rests.
`MaxOutside` bounds what the surroundings do to a view, the panel, a door or the
queue of jobs; requests, answers, timers and polls are not bounded. Seven events let a view
change its question and back, prepare and lose a write, execute it late and write again;
two sessions overlap in any order. Four let the panel lock, reconnect, be
revoked and see a change (with five events and 2.1 million states the
properties hold as well, beyond the time of a regular run). Six edits and
failures let a hold-open tick fail at each of its steps in both windows; the
early one comes twice, as in a night at the end of summer time. Three
let a job of two rows lose an answer, restart and find its station away; as the
queue holds one of the two jobs, the second makes it forget the first, also in
the middle of a run. Six subscription identities are more than can be known at
once; `Fresh` would fail otherwise. Deadlock is not checked in these runs: a
system with no more outside events rests.
`transfer` and `fleet` use the symmetry of people or stations; the runs with
liveness use none.

**Fairness.** `AccessSync!FairSpec` has weak fairness of each station's engine:
a step that stays possible is taken, because a request or the timer always
starts the worker again. That is what `StationWorker` establishes (`Scheduled`,
`EditsServed`). Failures are bounded, so a station is not offline for ever, and
administrators have no fairness. `StationWorker!FairSpec` has weak fairness of
the tasks and of timers, that is of the event loop; edits, unloading and
administrators have none. The liveness runs leave out resolution in direction
"device", because of the second finding below.

`MCFleet!LiveSpec` is `FairSpec` within its budget. `HoldOpen!FairSpec` has weak
fairness of the periodic tick and of what a tick does; a command or a save that
is not made to fail succeeds, and failures are bounded. `MaintenanceJobs!FairSpec`
has the same of the timer of 30 seconds and of what a run does.
`PanelViews!FairSpec` has weak fairness of the server's writes, timers and updates
of hass, and strong fairness of reads and their answers. The timer has its guards:
nobody has to close a review, to show the page, or to start jobs. As to reads, the
operations center starts its read anew at every update of hass, so only if some
answer arrives between two updates does it ever show one. `PanelSession!FairSpec`
has weak fairness of message handling at both ends, of the timer, of updates of
hass and of the library's reconnection. Users, administrators and failures have
none.

Where administrators adopt a foreign record for a person that exists, or
resolve a conflict in direction "central", the record keeps credentials nobody
has reserved until the engine rewrites it. Hence the exemption of `Unmanaged`
records: on them only the inventory check of the engine protects the other
people, which `UniqueOnDevice` covers.

## Findings

1. `TombstonesLoad` (`access/repository.py:1197`). `async_confirm_absent` notes
   a station in `confirmed` although it is not among the deletion's `targets`;
   `async_mark` does check that. It happens when the station had the person on
   its list before the deletion for another reason. `_validate_journal` (line
   256) demands `confirmed <= targets`, so the file is refused
   (`invalid_storage`) at the next start, as long as another station has not
   finished the deletion.
2. `NoRetiredOwnCard` (`access/repository.py:1459`). `async_resolve` with device
   data brings a withdrawn card back without cancelling its retirement, unlike
   `_update_user` (line 811) and although its comment promises ordinary CRUD.
   No station will confirm the removal of a card that is wanted, so the entry
   stays until the card is withdrawn or the person updated again.

3. `RevokedCleared` (`panel.ts:1260`). A revocation is announced once, to the
   subscriptions that exist. If the connection was down, the resubscription is
   refused silently and every read fails as `unauthorized`, which `refresh`
   treats like any failed read: the panel keeps the data it shows, while the
   documentation says it clears private caches after effective grant changes. A
   second way, also in the model: `connect` does not ask whether the screen is
   locked, and a subscription made while it is locked is ended by the server at
   the next change with a message the panel ignores. The panel then holds a dead
   subscription; the timer of 30 seconds still brings changes, but no
   revocation.

Weaknesses met while reading, which no property here is about: a replaced
connection raises `_epoch` without clearing `_busy` and `_releases`
(`panel.ts:1048`), so a command under way leaves the panel busy; a connection
lost during `bootstrap` sets `_session` to null and `haReady` does not start it
again. Of the maintenance jobs: the refusal of a job cancels all of its rows
(`maintenance_jobs.py:235`), also one that was written, or whose answer was lost,
before dual approval was switched on and sent the job back to be approved; that
answer is then never read back, though `CHANGELOG.md:125` promises to recover
interrupted writes by readback. `OutcomeOnRecord` leaves refused jobs out. A job
cancelled while the run awaits a guard or a read that then fails has its row set
to pending or failed again (`_row` does not look at the job), without effect on
the device. A job whose approver lost the role is sent back to be approved but
keeps its consent, so nobody can approve it until it expires. A change of the
queue does not shield its save from cancellation (`mutate`), unlike the ledger.

Of the hold-open programs: `window()` says that a "repeated DST hour cannot
trigger twice" (`access/hold_open.py:33`). Its token is made of the local date
and period (lines 37 to 42), and the tick compares it with the one attempted
last, so one window in the repeated hour is indeed opened once. Two periods
inside that hour are each opened twice, since the second replaces the token of
the first. `NoBlindRepeat` therefore promises no more than that a window is not
opened again before another one was recorded, and the run contains the night in
which the early window comes back.

## Proofs

All theorems hold for arbitrary sets of people, stations, cards, codes and
questions and arbitrary bounds, from the `ASSUME`s in the modules: cards and
codes are disjoint, `NoPin`, `None` and `NoTask` are not confused with values, the
bounds are natural numbers (with at least one job), and the initial foreign records are as declared.

* `AccessSyncProofs!TypeCorrect`: `Spec => []TypeOK`. The types alone are not
  inductive, since a step of the engine reads what an earlier one stored: the
  invariant `TypeInv` adds `Transaction`. An engine that is not idle has a job;
  past the inventory it has read the device record it works on; while it writes
  or reads back, the binding exists and carries an open intent, because no one
  else touches that binding until the engine leaves. One lemma per commit, one
  per action.
* `AccessOwnershipProofs!Journaled` and `!Owned`. The program counter of the
  engine must be tied to the device: `Tracking` says that, as long as nobody has
  edited on site, the record an engine is about to journal or to write over is
  still the one it last read, and that the intent it writes under has that
  record as its before-image. With `TypeInv` and `Tracking`, `OwnedOnDevice` is
  inductive: only a write changes a device, and the intent names both contents.
* `AccessOwnershipProofs!BindingsAccounted` and `!RetirementsLoad`. The
  invariant `Accounting` joins `BindingAccounted` (a binding of a deleted person
  exists only at a target of the deletion that has not confirmed) with
  `RetirementsAccounted`: a withdrawal has an owner on record, its confirmations
  are targets and at least one target is missing, and if the owner is deleted
  the tombstone asks at least the same stations, and whoever confirmed the
  deletion has confirmed the withdrawal. The last part is what `async_load`
  demands and no single operation states.
* `AccessCustodyProofs!NothingOverwritten`. `Grounds` is what an engine may rely
  on inside its transaction: its snapshot is the person on record as long as the
  revisions agree (`Snapshots`), what it read last is still there or its write
  has taken effect (`LastRead`), and the binding describes it (`Recognised`).
  The last part needs no exemption for edits on site: what the engine finds
  there and does not recognise ends in a conflict before any write.
* `AccessCustodyProofs!NothingForgotten`, `!CredentialsExclusive` and
  `!DevicesUnique`, from `Custody`, which follows a credential through an open
  intent. Somebody answers for every credential on a device (`Held`) and for
  every one a write is about to add (`WritesAccounted`); a credential the engine
  does not find in its inventory was written since, for somebody who answers
  for it (`Listed`), hence no write brings a credential a second time
  (`WritesUnique`, `Distinct`). That an edit between two writes of an engine
  withdraws nothing silently is the lemma `AccountedKept`: no step ends the
  account of a credential at a station but a confirmation by that station. It
  rests on `PersonMove`, what one step may make of a person, and on
  `Collisions`, that a credential is reserved for one person.
* `AccessCustodyProofs!CustodyKept`: `AccessSync` implements `CredentialCustody`.
  A step is described by what becomes of the claims of people to a credential
  (`ClaimMove`), one lemma per commit: at most one person's claims move. Two more
  invariants carry it. `Unfinished` says that a deletion waits for some station,
  so the last confirmation is the one that frees the credentials; with it and
  `Accounting` a credential is reserved exactly for those who want it or owe it
  (`Faithful`), and by `Collisions` there is at most one of them (`Rivals`), whose
  move is then the move of the credential (`Sole`). `Backed`, from `Custody`, is
  why a station that holds the credential never is the one that confirms.
* `AccessCustodyProofs!SyncedTrue`. Every step either makes no claim
  (`Unclaimed`), carries a true one over an edit that no station stores
  (`Advanced`), or claims what the transaction has just read (`Settled`). The
  invariants `Applied` (no assignment is ahead of its person) and `Synced` add
  that no write is on its way to a record that is shown as synced.
* `StationWorkerProofs!TypeInvariant`, `!AlwaysScheduled`, `!OneWorker`, `!QuietWhenDetached`,
  `!InspectedAfterWrites`, from one invariant with four parts: `KnownWorker`
  (the only running task is `station.task`; a finished one stays there only
  while unloading), `Wakeup` (worker and timer exclude each other, and one of
  them exists), `Unloading` (how far the detach has come and what is already
  gone), `Inspection` (no write can follow the start of the scan for which a
  worker waits at the end).
* `HoldOpenProofs!Types`, `!NoOrphanedRelay`, `!NeverRepeatsBlindly`. `OpenIsOwned`
  alone is not inductive, because the relay moves while the owner is only in
  the middle of its steps: `Owned` adds the executor in memory, `Bracketed` says
  what each step of a tick may rely on (owned before the command to open, closed
  before the ownership is dropped), and `Remembered` that the window opened last
  is the one remembered in the store and in memory, so that another one is
  really another. No order of the tokens is assumed.
* `MaintenanceProofs!QueueTypes`, `!NothingForgotten`, `!WithdrawalHolds`,
  `!NoReplay`. `Staged` says what the run may rely on at each await: a row on its
  way to a write was never written, the row before the last guard is announced
  and not withdrawn, and what is about to be stored for a written row never says
  otherwise. `Closed` says that no step brings a stopped job back to the queue,
  which is why the second look at the job after the intent is enough. `Indexed`
  says that the run's list names rows that exist, though jobs may be forgotten
  meanwhile.
* `PanelViewsProofs!ViewsKeepThePromise`: `PanelViews` implements `ReadView`
  under the mapping that forgets all but the session and the revision shown.
  `InSession` and `Ordered` say that whatever may replace the answer shown is of
  this session and not older; `Alone` that a write never overlaps a read. The
  last holds only because of how the views combine their choices: the lemma
  `Catalogue` shows of each of them that if it writes it disables its controls
  meanwhile, queues nothing and does not load in the background.
* `PanelViewsProofs!WritesKnowTheState`: `Cautious`, that a careful view with an
  unknown outcome is waiting for a refresh or has nothing to write from. It
  rests again on `Catalogue`: the one view that gives up its writes on other
  occasions without forgetting its data (`maintenance-queue.ts`) makes no such
  claim.
* `PanelViewsProofs!SettledViewsAnswer`: `Answering`, that an answer to an old
  question is shown only while a load is running that drops it if it fails. The
  lemma `DirectCatalogue` shows of the views the property speaks of that they
  ignore no load of a new choice, do not load in the background and, if they
  keep the old answer meanwhile, lose it with the connection.
* `PanelViewsProofs!ViewsTyped`: `Bounded`, that the server's revision and the
  sessions are paid for by outside events, a write that was given up included:
  it is executed at most once.
* `PanelSessionProofs!SessionTyped`, `!ScreenStaysSealed`, `!NoneForgotten`. The
  websocket is two queues of any length, so the invariants speak about what is
  under way. `Basic`: types, at most one read of the overview at a time, and an
  empty closed connection. `Sealing`: while the screen is sealed no answer that
  shows something is on its way to the panel, and the server is locked, or will
  be before it answers any read. `Kept`: a subscription the server serves is
  held or awaited by the panel, is about to be ended by a message on its way, or
  is about to be dropped by the server because its user lost access, with the
  announcement of that still ahead. Most steps of the panel are of one kind in
  this respect (`Covered`, `Tended`), so the cases are few. The theorems assume
  `Unlimited`: subscription identities are the websocket library's counter of
  messages, so there is always another one. The run has six, which suffices for
  its bounds.

Model-checked only: the liveness properties (`DeletionCompletes`,
`RemovalCompletes`, `EditsServed`, `Converges`, `ShowsLatest` and both
`Settles`). They need fairness and `ENABLED`, which are beyond the prover. The
three properties under *Findings* are violated. Every other property of the
runs, that is each invariant and each action property, is a theorem.

## Not modelled

* Components with status `not_modelled` in `PROJECT.json`, each with its reason.
  Those of the plan below are left for want of time, not of substance.
* Most lines of JavaScript and TypeScript. Of the sources of the panel the model
  covers the request cycles; translations (`i18n.ts`), style sheets, templates,
  forms, formatting and media playback have no protocol to model, and
  `frontend/panel.js` is the bundle built from the same sources.
* Views whose requests overlap or that only send single commands, such as
  `checkpoint-jobs.ts`, `fleet-approval.ts`, `call-controls.ts`, `health.ts` and
  the user editor. They keep no epochs, so the promise of `ReadView` is not one
  they make. One is worth a look: the poll of `fleet-approval.ts` ends when it
  finds the connection down.
* `audio-controls.ts`: press, release, mute and stop of a talk session. The
  session at the server belongs to the planned `RelayPulse`.

## Plan

Order of the modules, the most consequential first:

1. done: `AccessRepository`, `AccessSync`, `StationWorker` and their proofs.
2. done: `HoldOpen` and its proofs; `PanelViews` with its refinement of
   `ReadView`, proved; `PanelSession` and its proofs.
3. `ScheduleDeployment`: journal, executor and work queue. Properties: no
   resource is written twice, verified means read back, no job is queued without
   a task. Run: two resources, one station, one crash.
4. `MaintenanceJobs`, done; `CheckpointJobs`: durable jobs with a running worker
   against approval, pause, cancellation, expiry and restart.
5. `EventRecovery`: stream, history window, cursor, coalesced save and closing.
6. `VisitRequests` and `StationLifecycle`: guards evaluated in every commit,
   composed with a reduced ledger.
7. `RelayPulse` with the audio sessions: timers and closing of a runtime.
8. The operation journal as a further variable of `AccessRepository`, and a
   `StoreCommit` module that discharges the atomicity of `_commit`.

Abstract specifications: `ReadView` and `CredentialCustody` are stated and
proved to be implemented. Worth stating is an *at-most-once writer* (planned,
announced, uncertain, verified) that `HoldOpen`, `ScheduleDeployment` and
`MaintenanceJobs` each implement.

Theorems worth proving next: the safety part of the at-most-once writer for each
of its users, for which `NeverRepeated`, `WithdrawnNeverSent` and
`NoBlindRepeat` are the steps.
