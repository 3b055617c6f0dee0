# TLA+ specifications of the Combustion integration

Specifications, model-checking configurations and machine-checked proofs for
the Home Assistant integration in `custom_components/combustion`. Every
definition is translated from the Python source; `PROJECT.json` names, for each
definition, the lines it stands for (`map`), and lists the runs, the faulty
variants that show each property can fail (`mutants`), the disagreements
between code and documentation (`findings`), what is hard to test in this code
(`hazards`) and the proved theorems.

    tlc -workers 2 -config capture.cfg CaptureRefinement   # check a run
    tlapm LocalCaptureProofs.tla                           # check proofs

Paths below are relative to `src/custom_components/combustion/`.

---------------------------------------------------------------------------

## 1. The system

The integration runs inside Home Assistant's single event loop. Bluetooth
advertisements and GATT notifications arrive as callbacks and update
per-device managers. Two optional parts persist evidence in an SQLite archive
with one writer thread: *local capture* stores what the radios heard, and a
*reconciliation supervisor* imports the cook history of a linked vendor cloud
account. Config flows link, replace and remove that account while the rest of
the system runs.

### Inventory

| Component | State it keeps | Operations |
|---|---|---|
| Local capture (`local_capture.py`) | bounded queue, pending gaps, pending regular points with their timers, last signature per stream, writer task, health | start, BLE and prediction callbacks, interval timer, writer loop, stop |
| Archive repository (`storage/repository.py`) | runs, observations and gaps of local capture; accounts, sessions, manifests, samples with versions, coverage, gaps, work units, discovery runs of the cloud | one transaction each: recover, begin, commit, gap, finish; discover, claim, fail, complete manifest, commit samples |
| Archive database (`storage/database.py`) | command queue, writer thread, availability, path ownership, binding file, backup | start, write, read, backup, bounded stop |
| Schema (`storage/schema.py`) | tables, CHECK constraints, unique indexes, schema version | create, migrate, validate |
| Reconciliation supervisor (`reconciliation/sync.py`) | client and its fence (generation, subject), account id, next refresh time, cycle lock, health | loop, one cycle, manual cycle (`sync_now`), refresh of the context, one unit of work |
| Account link (`cloud/auth.py`, `cloud/ha.py`, `config_flow.py`) | API key, refresh token, subject and generation in the config entry; access token in memory; config flows in progress | link, reauthenticate, replace, unlink; refresh and rotate tokens; one-shot check |
| Cloud client (`cloud/client.py`, `firestore.py`, `models.py`, `sessions.py`) | the token manager | authorised request with one refresh, page traversal, response validation |
| Runtime (`runtime.py`, `__init__.py`) | owned tasks, managers, archive, supervisors | set up, start archive, unload in order |
| BLE listener, probe manager (`bluetooth_listener.py`, `probe_manager.py`) | sources per probe, latest advertisement and instant read, listeners, availability timers | advertisement callback, expiry, listener registration |
| Connection manager (`connection_manager.py`) | one maintain task per connected probe, kick event, back-off, client | maintain loop, on-demand connect, send command, shutdown |
| Prediction manager (`prediction_manager.py`) | latest prediction per probe, expiry timers | notification, expiry, disconnect |
| Controls (`control_manager.py`, `number.py`, `select.py`, `button.py`) | remembered targets and alarms | set value, combined alarm frame, restore |
| Sensors (`sensor.py`, `binary_sensor.py`, `entity.py`) | presentation only | update callbacks |
| BLE parsers (`combustion_ble/`) | none | decode one packet, encode one frame |
| Websocket API, diagnostics (`websocket_api.py`, `diagnostics.py`) | none | reads, `sync_now` |
| Card (`www/combustion-card.js`) | browser view | rendering |

### Interactions

* The probe and prediction managers call local capture's two observation
  callbacks. They must not block, so capture offers records to its queue and
  its writer task awaits the archive.
* Every archive call is a command put on the queue of the writer thread
  (`ArchiveDatabase.async_write`); the caller awaits a future. Between call and
  result other callbacks and tasks run.
* `_async_start_archive` (`__init__.py:129`) opens the archive, recovers what a
  crash left open, then creates the capture supervisor and, if an account is
  linked, the reconciliation supervisor. `CombustionRuntime.async_stop`
  (`runtime.py:94`) stops the producers before the archive.
* The supervisor reads the credentials from the config entry, awaits the token
  endpoint and the data endpoints, and commits each response in one
  transaction. A flow may change the entry at any of these awaits and schedules
  a reload; `sync_now` runs a cycle outside the owned task.

### What is hard

* **Interleaving at awaits.** A check made before an `await` may be stale after
  it (link fences, expected subject of a reauthentication, queue event).
* **Crashes** between the start of a run, its commits and its end, between the
  claim and the completion of a unit of work, and between recovery and begin.
* **Partial failure.** A command may fail before or *after* its commit: a
  checkpoint failure is reported for a write that is durable. A batch leaves the
  queue before its commit is known.
* **Bounded resources.** A full queue must give something up and say so.
* **Ordering.** Points that wait for the interval timer reach the archive after
  transitions that are newer; sample responses arrive partial and in any order.
* **Things that must go on for ever.** Rechecks, retries and audits are chains
  in which each unit has to enqueue its successor; one broken link ends the
  chain silently.

### What makes each component correct

* *Local capture*: a run marked `clean` has no silent loss of a record (an
  observation that cannot be normalized never becomes one), and its rows, dropped
  counts and coalesced points add up; overflow gives up regular points before
  transitions and predictions; after a crash the uncertain window contains the
  transitions and predictions that were lost; the writer is always woken; stopping
  ends, unless its final write is never answered. To a reader of the archive: runs
  open one at a time, end once, and evidence that is durable is never taken back.
* *Repository, local evidence*: never two open runs.
* *Repository, cloud*: the coverage table is exactly the set of archived
  numbers; every session remains scheduled; every open gap with absent numbers is
  retried; two versions of one sample are never silently resolved; while somebody
  restarts the supervisor that ended or left a unit behind, what the cloud serves is
  eventually archived and audited again and again.
* *Account link*: the token in the entry belongs to the linked subject; data
  fetched as one account is stored under that account; a loop that ended because
  the link changed is replaced; a late rotation disturbs nobody.
* *Archive database*: one writer thread, also when a stuck one outlives its owner;
  a path once ready can be opened again after any crash or failed migration; a
  backup's manifest stands only beside the bundle it describes, unless it could not
  be unlinked; no caller awaits an answer that nobody will give; once the stop of
  the archive is reached, it ends although the writer hangs.
* *Connection and prediction*: a value of an earlier connection is not presented
  as one of the present; an expiry removes the value it is about, neither sooner
  nor later; the adapter's slot is given back; an attempt that fails is followed
  by another, unless a call without a timeout hangs or a listener raises while a
  link is closed; an unload ends although the adapter hangs.
* *Probe view*: what ages without an event (silence, the end of an instant read,
  a lapsed mode, a throttled reading) reaches the entities within one availability
  tick; a repeater does not undo what the probe itself said.

---------------------------------------------------------------------------

## 2. Plan

In the order of their importance. All of it exists, but for the last point.

1. `LocalCapture`: capture composed with the transactions and the writer thread
   it depends on; proofs in `LocalCaptureProofs` (types, one open run, no silent
   loss in a clean run, what an overflow gives up).
2. `Ranges`: interval arithmetic against plain sets; proofs in `RangesProofs`.
3. `SyncLedger`: cloud work ledger, with sets where `Ranges` has intervals; proofs
   in `SyncLedgerProofs`.
4. `AccountLink`: credentials, flows, reload and all awaited cloud work; proofs in
   `AccountLinkProofs`.
5. `ArchiveDatabase`: ownership of the path, creation and migration, writer
   thread, bounded stop, backup, over crashes; proofs in `ArchiveDatabaseProofs`.
6. `LiveConnection`: maintain task, commands, predictions, unload; proofs in
   `LiveConnectionProofs`.
7. `ProbeView`: selection of sources, modes, throttle, availability; proofs in
   `ProbeViewProofs`.
8. `CaptureLedger`, the abstract promise of capture, and `CaptureRefinement`, the
   mapping under which `LocalCapture` implements it; proof in
   `CaptureLedgerProofs`, with what goes beyond one run or counts over it: the
   uncertain windows, the recovery, the sums of a clean run.
9. *(ahead)* The remembered targets of `control_manager.py` and the projection of
    single sensors, if a document says what is to be expected of them.

Modules meant for proofs declare no `RECURSIVE` operator; loops are folds. Every
safety invariant and action property of a passing run is stated by a theorem; the
liveness properties are model-checked.

---------------------------------------------------------------------------

## 3. The modules

### LocalCapture

One action is what the event loop, or the archive thread, does between two
suspension points. The thread's command in flight is the variable `op`; `Execute`
commits it and `RollBack` does not, and either may report an error.

| State | Code |
|---|---|
| `buf` (queue, gaps, event) | `_queue`, `_pending_gaps`, `_queue_event` |
| `pending` with `due` | `_pending_regular`, `_regular_timers` |
| `lastEmitted`, `known`, `ordinal`, `coalesced` | `_last_regular_emitted`, keys of `_last_signature`, `_event_ordinal`, `health.coalesced_observations` |
| `writer`, `writing` | where `_async_writer` is suspended, and the gaps it took |
| `stopPc` | where `async_stop` is suspended |
| `status`, `attached`, `stopping`, `failed` | `health.status` with the phases of the archive start, the registered listeners, `_stopping`, `_failed` |
| `runStatus`, `startedAt`, `archived`, `gapRows`, `lossWindows` | tables `local_capture_runs`, `local_observations`, `local_capture_gaps` |
| `unreadable` | `health.dropped_observations` of category `normalize` |
| `admitted`, `buf.dropped` | history: every record made of what a supervisor received; the records a full queue gave up |

`Open` to `StartFails` are `_async_start_archive` and `async_start`; the three
`Observe...` actions the callbacks with the interval policy; `Writer...`,
`GapRecorded` and `BatchCommitted` the writer loop; `Stop...` and `Unloaded`
`async_stop` and the runtime's unload. `Crash` forgets the memory at any moment.
A status signature is abstracted to "changed or not", so both answers are
explored for every advertisement of a known stream. `NormalizationFails` is the
early return of an observation that cannot be normalized: it is counted in the
health of the supervisor, and no record, gap row or failure of the run follows.

Abstractions: wall clock and monotonic clock agree within one process and tick
together; the model's clock may step back only in a crash, when `ClockStepsBack`.
The projected fields of an observation are data. A thread that never answers is the
absence of `Execute` and `RollBack`, which carry no fairness; closing an archive
whose thread is stuck is in `ArchiveDatabase`, so `Unloaded` waits here until no
command is queued.

### CaptureLedger and CaptureRefinement

`CaptureLedger` is what a reader of the archive may rely on, without queue,
timers, writer or restarts: a run is `none`, `running`, `clean` or `interrupted`;
one at a time is opened; while it is open, records are received and become
accounted for, never the reverse; it ends clean only when everything received is
accounted for. `CaptureRefinement` maps it to `LocalCapture`: the state of a run
is its row, `received` what its supervisor admitted, and an observation is
accounted for when it is archived, covered by a gap row, or replaced by a newer
point for which that holds.

### Ranges

`normalize_ranges`, `_merge_coverage`, `_subtract_coverage`, the chunk selectors
and the helpers of `cloud/sessions.py` as operators on interval ends, driven by a
state machine that commits any part of any bounded request. The properties
recompute each result with plain sets of numbers.

### SyncLedger

The cloud tables and the transactions over them: `RecoverInterruptedWork`,
`BeginDiscovery`, `RecordDiscoveryPage`, `FinishDiscovery`, `ClaimWork`,
`FailWork`, `CompleteManifest`, `CommitSampleWork`. A unit of work is identified
as the unique index `idx_sync_active_equivalent` identifies it, so that an insert
of an equivalent active unit is the no-op it is in the code. `AbandonClaim` is any
exception of a unit's processing that only the last handler of `async_run`
(`sync.py:364`) catches, the one of `numeric_session_token` among them: the unit
stays `running`, nobody claims it, and the supervisor goes on with other units and
without a recovery. `Interrupted` (crash, unload, changed link, closed archive) may
fall between any two transactions, and only `RecoverInterruptedWork`, at the next
start, makes what was left `running` claimable. `source` is what the vendor's cloud
advertises and has; both may change while units of the old manifest are queued.

Abstractions: coverage and ranges are sets of numbers, which `Ranges` justifies;
a delay is a flag that the passage of time sets; rows in state `done` are dropped;
a manifest's metadata hash is identified with its set of numbers; attempts are
capped at `MaxWorkAttempts`, beyond which they make no difference; of a discovery
run only the sessions on its recorded pages are kept (`paged`).

### AccountLink

`MCAccountLink` and `MCSyncLedger` add the symmetry of accounts and of payloads
for TLC.

The cloud part of the config entry (`link`), the flows in progress, the scheduled
reload, the supervisor's context (`context`, `account`) and the awaited cloud
work (`acts`): one act of the current runtime (the cycle lock admits one) and one
`sync_now` that outlived its runtime, which the reload does not cancel. Every
await is a step: `refreshing` (token endpoint), `calling` (data endpoint),
`registering`, `claiming` and `storing` (archive). The endpoints answer with
success or any kind of failure. A credential is abstracted to the subject it
belongs to; a rotated refresh token is a new token of that subject.

`Rotate` is `_persist_rotation`; `TokenIssued` has the conversion of its refusal
into an authentication failure (`cloud/auth.py:123`); `Matches` is
`async_link_matches`; `Recorded` and `Publish` are the handlers that turn a failure
into a state of the loop and, for refused credentials, into an offer to
reauthenticate. A loop that came to the end of a cycle, or was just started, is
`settling`: `LoopSettles` is the awaited recovery of `async_run`, or the count of
the queue that each of its handlers awaits (`_refresh_queue_health`, `sync.py:345,
356, 366`), and the exception of either ends the loop for good. `OfferReauth` models
`async_start_reauth` of Home Assistant, which does nothing while a flow of the entry
is in progress (external).

### ArchiveDatabase

The archive objects that successive loads of the config entry build, over one
path. Home Assistant bounds how long an unload may take, so a load may begin while
the stop of the previous one is still waiting; a load is a number, and everything
an object owns is a function of it.

| State | Code |
|---|---|
| `binding`, `db`, `rows` | binding file, database file (`empty` before the schema, `v1`, `v2`), committed commands |
| `guard`, `owns` | `_OWNED_PATHS`, `_owns_path` |
| `th`, `init`, `shut` | where `_writer_main` is, its initialization and shutdown futures |
| `acc`, `queue`, `answer` | `_accepting`, `_commands`, a failed command whose caller has not resumed |
| `start`, `stop` | where `async_start` and `async_stop` are suspended |
| `bundle` | per backup: where `_backup_sync` is, and the files it made |
| `wasReady` | history variable: the archive has been ready once |

`Open` to `Migrate` are `_open_writer` with the four cases of which files exist,
`Execute`, `TakeStop` and `Checkpoint` the loop of `_writer_main`, `StartReady`
to `StartFailed` the end of `async_start`, `AskStop` to `PoolShut`
`CombustionRuntime.async_stop` and `ArchiveDatabase.async_stop`, `OpenCopy` to
`UndoBackup` the backup and its cleanup. A file operation succeeds, fails, or
never ends: writer steps carry no fairness. A transaction is one step, done or
rolled back (SQLite is external). `Crash` keeps the files. In the cleanup of a
backup each unlink succeeds or fails by itself, and the next one follows either way
(`Unlinked`); `kept` remembers that the manifest's own unlink failed. `AskStop` begins
where `CombustionRuntime.async_stop` has awaited the stop of the capture.

### LiveConnection

One probe as the connection manager and the prediction manager serve it.

| State | Code |
|---|---|
| `task`, `cancelled` | await of `_maintain_connection`; a `CancelledError` that waits for it |
| `backoff`, `delay` | the local back-off in doublings; the delay it sleeps |
| `link`, `tx` | the adapter's slot; whether `start_notify` was called on it |
| `client` | the serial is in `_clients` |
| `command`, `polls` | await of `async_send_command` and its polls left |
| `status`, `mode`, `received`, `age`, `timer` | `_status_serials`, `_status_mode_seen`, `_last_received`, its age, the expiry handle |
| `shown` | the entities show a prediction |

`link` is `stuck` when the adapter failed to give the slot back. Connection listeners
and new-probe callbacks are not guarded, so each may raise: at the announcement
(`AnnounceFails`) the handler backs off and the link that is up is closed; in the
`finally` block (`AnnounceFails`, `DisconnectRaises`) `disconnect()` is skipped and the
task is over (`raised`), with a link that is still up `left` open. The next
advertisement or command starts a task again. The prediction manager's listener is
registered first, and runs before any that raises. The origin of `mode` and
`received` says over which link they arrived, or that the link had been given up
(`late`): notifications begin before
the client is recorded, and the listener of connection changes also runs for other
probes (`OtherProbeChanges`). `Unload` is the pass of `on_unload` callbacks, which
Home Assistant runs last to first without an await; `ShutdownTimesOut` and
`ShutdownEnds` are `_async_shutdown`. A timer armed by a notification after the
unload fires without an effect. A second cancellation merges with the first.

### ProbeView

What the entities show of one probe: `update` of the probe manager with the
preference for the probe's own advertisements, mode evidence of advertisements and
of the connection, instant reads, the throttled notification, the entities, which
read the manager only when notified, and the availability tick. A time stamp is the
age it has; ages stop where nothing tells them apart.

Assumed: the availability tick is punctual (time does not pass beyond `due`), and
a repeater's copy is not older than the preference window (`Lag <= DirectWindow`,
from the comment that calls copies "slightly stale"). The error and reserved modes
are treated like the normal one. The stopping guard, advertisements that do not
parse, counters and the removal of listeners are left out.

---------------------------------------------------------------------------

## 4. The runs

All of them finish within two to three minutes on two workers.

| Run | Constants that matter | What it shows |
|---|---|---|
| `capture` | queue 2, batch 2, 4 observations, one timer delay, 2 runs, `LoopSpec` (623 k states) | with the queue overrun, observations that cannot be normalized, an archive that fails, reports an error for what is durable or falls silent, an unload racing the writer and a crash between two supervisors: `CleanRunAccounted`, `CleanRunReconciles`, `OverflowSparesTransitions`, `OneOpenRun`, `LostTransitionsInWindow`; the writer wakes (`QueueDrains`), stopping ends (`StopReturnsOnceAnswered`), and the whole implements the ledger of runs (`ImplementsLedger`) |
| `ranges` | numbers 0..4, up to 3 ranges, chunks of 2 (166 k states) | all manifests, all orders of partial responses: coverage, missing ranges and both chunk schedules agree with sets |
| `sync_ledger` | 2 numbers, chunks of 1, two manifests, two payloads, one change of the source in the middle of the work (6.4 M states up to symmetry) | `SessionsStayScheduled`, `GapsAreRetried`, `AuditFollowsCoverage`, `SelectedIsUnrivalled` |
| `sync_progress` | 2 numbers, chunks of 1, one change of what the cloud has, `FairSpec` (255 k states) | liveness: `ArchivedUpToFirstAbsence`, `AuditsRecur` |
| `account_link` | two accounts (symmetric), two generations (4.9 M states) | `TokenIsOfLinkedAccount`, `DataStaysInItsAccount`, `StoppedLoopIsReplaced` |
| `archive_database` | 3 loads, 1 crash, 1 command, 1 backup (539 k states) | stuck threads, overlapping loads, failed starts, failed unlinks, crashes: `OneWriter`, `BusyOnlyWhileOwned`, `OnceReadyStaysOpenable`, `ExitAnswersAll`, `ManifestBlessesBundle`, `StopReturns` |
| `live_connection` | freshness 3 ticks, 2 doublings, 2 commands of 2 polls (627 k states) | drops, cancellations, late and early timers, listeners that raise, a hanging adapter: `EvidenceIsOfThisLink`, `ProjectionInStep`, `NoSlotLeaks`, `WritesFollowSubscription`, `KeepsTrying`, `UnloadEnds` |
| `probe_view` | windows and intervals of 2 and 3 ticks (437 k states) | all orders of direct and repeated receptions, GATT evidence, ticks: `ShownIsRecent`, `DirectNeverUndone`, and that time can always go on (deadlock is checked) |

### Why the bounds are enough

* *Capture.* Four observations against a queue of two overrun it twice, in one step
  or in two, and give every combination of drops of one class while a gap of that
  class is pending, taken, or recorded; what is kept stands before and after what is
  given up. One source with one data stream and its predictions has all three record
  classes; gaps of different sources do not interact. An observation may come after
  the stop began only in `capture_clock_step` (`LateObservations`). Two runs are
  enough for one run to recover another. The theorems of section 6 remove the bounds.
* *Ranges.* Five numbers hold two separated ranges with a hole wider than the
  chunk of two, ranges that touch, overlap or are nested, and a range longer than
  a chunk; three ranges allow one to bridge two others.
* *Ledger.* With two numbers and chunks of one, a chain has a first unit, a
  successor and a retry, and a gap may lie before, in or after a request.
  `MaxWorkAttempts` is 1, so every failure is also one that gives up; the
  violation run uses a chunk size above 1 where the behaviour needs it.
  A delay may elapse at any time, so a manifest check can come due in the middle of a
  chain and every set of due units is met. The manifests {1} and {1,2} let the source
  grow, or shrink, while units of the other manifest wait or run. In `sync_progress`
  the manifest is one and the samples come and go, since its properties are about
  what the cloud advertises *and* has.
  A token the numeric endpoint refuses (`OddTokens`) is not in `sync_progress`: its
  session's unit may be the first one claimed after every restart, and be left
  `running` again, so that no assumption about restarts alone lets another session
  come to its turn. In `sync_ledger` what such a token does is `AbandonClaim`.
* *Link.* Two accounts distinguish "mine" from "another's"; generation 2 is
  reached by linking and then replacing or unlinking, so a fence of generation 1
  meets both a replacement account and an entry without a link. At most one
  `sync_now` is left over from stopped runtimes.
* *Archive database.* Three loads allow one to be refused while an earlier is
  stuck and another to come after both; a crash may fall between any two steps of
  each. One command is enough, since commands do not interact; one backup, since
  each has its own files.
* *Connection.* Freshness of three ticks lets a timer fire early, in time and
  late, and a link drop and return within one window. Two doublings reach the
  maximum and stay there. Two commands poll and write at different points of the
  link.
* *Probe view.* Each window is longer than a tick and not a multiple of another
  where that matters, so that evidence lapses before, with and after its
  neighbours; the throttle outlasts the availability interval.

### Fairness

* `LocalCapture.LoopSpec`: weak fairness of the writer task, of due timers, of
  the stop sequence and of its timeout (the asyncio loop runs every ready callback).
  The archive owes nothing: its thread may never answer, and the properties say what
  happens then. Crashes and observations are never forced.
* `SyncLedger.FairSpec`: every delay that runs elapses (`DelaysElapse`, stated by
  what the passing of time ends); a supervisor that runs again and again completes a
  discovery again and again (`DiscoverySucceeds`); claims, the completion of a
  manifest check and, for each number, the commit of a request that begins there are
  strongly fair: a request that is made again and again is not refused, abandoned or
  interrupted for ever. Nothing makes anybody start a supervisor that ended, so a
  restart is not assumed but a hypothesis of the two properties: `Restarted`, the
  entry is reloaded whenever its supervisor ended or a unit was left behind
  `running`. `AuditsRecur` needs `KeepsUp` as well: a supervisor that is never done
  with its rechecks (priority 150) never comes to its audits (priority 200). Nothing
  forces the source to change or not to.
* `ArchiveDatabase.Spec`: the event loop runs and its timed joins end; backup
  threads make progress, since `pool.shutdown(True)` waits for them without a
  timeout (`PoolShut`). Nothing is assumed of a writer thread.
* `LiveConnection.Spec`: the event loop resumes what is ready, the shutdown
  timeout included. `start_notify`, the canary write and the `disconnect()` of a link
  that is up have no timeout: none of them need return (`InAdapterCall`, `Unwound`),
  and `UnloadEnds` needs the cancellation and `ShutdownTimesOut`. Establishing a link
  ends, in success or failure (`bleak_retry_connector` bounds it). Links need not
  drop, advertisements and notifications need not come.

### Findings

Each run below checks one statement that documentation, a comment or a test
makes and that the code does not keep. `PROJECT.json` quotes the statement.

| Run | What the counterexample shows |
|---|---|
| `capture_clock_step` | after a restart with an earlier wall clock the window's end precedes its start, the CHECK constraint rejects it, and the archive starts degraded with the stale run still `running` (`storage/repository.py:1460`) |
| `sync_hidden_gap` | two chains of one manifest overlap: the retry of a part resolves the whole gap, the rest is absent without an open gap (`storage/repository.py:1263`) |
| `link_stale_rotation` | a rotation that is refused because the link was replaced surfaces as an authentication failure and offers to reauthenticate the replacement account (`cloud/auth.py:123`) |
| `link_reauth_switch` | a reauthentication that is being validated while the link is replaced or removed writes its own subject back (`config_flow.py:318`) |

### Known limits

Met while modelling and not the subject of a run of their own.

* *Capture.* An observation that cannot be normalized is counted in the health of the
  supervisor, and nothing in the archive tells of it: the run still ends clean
  (`local_capture.py:169`). `CleanRunAccounted` is therefore about records.
* The final write of `async_stop` has no timeout (`local_capture.py:677`), and
  `CombustionRuntime.async_stop` awaits it before it comes to the archive: a writer
  thread that never answers keeps the unload waiting, although the comment at
  `runtime.py:125-127` says that it remains possible. `StopReturnsOnceAnswered` and
  `StopReturns` say what holds: the stop of the capture ends unless that one write
  stays unanswered, and from there on the unload ends whatever the writer does.
* The uncertain window after a crash begins at the newest archived observation; an
  older regular point that still waited for its timer is lost outside of it
  (`storage/repository.py:1424`). `LostTransitionsInWindow` is therefore about
  transitions and predictions.
* Gaps belong to a manifest, coverage does not: numbers that arrive under a newer
  manifest leave an old gap open, and no unit is left to close it
  (`storage/repository.py:1361`).
* A unit whose processing raises anything but the expected failures stays `running`
  while the supervisor goes on, until the next start of the supervisor
  (`sync.py:364-368`).
* A loop that ends by a failing recovery, by a failing count of the queue inside a
  handler, or by an error of the archive is over until the entry is loaded again:
  nothing schedules a reload (`sync.py:342-346, 356, 366`). `StoppedLoopIsReplaced`
  is about loops that ended because the link changed.
* A backup whose cleanup cannot unlink the manifest leaves it without the files it
  describes, since the next files are unlinked all the same
  (`storage/database.py:704-715`); `validate_backup_sync` refuses what is left.
* An exception of a connection listener inside the `finally` block ends the maintain
  task until the next advertisement or command, and leaves a link that is up open:
  the client was already taken out of the table, so that the fallback of
  `_async_shutdown`, which is documented for "a client left behind by a task that
  already exited on its own", has nothing to disconnect (`connection_manager.py:241`).
  What such a link, or one closed after a failed announcement, still delivers is
  evidence that no disconnection takes back; it lasts until it is stale, or any
  connection of any probe changes.
* A crash during the first creation can leave a binding without a database, which
  every later start refuses until it is repaired by hand
  (`storage/database.py:324`). `OnceReadyStaysOpenable` is therefore about
  archives that were ready once.
* A mode whose evidence lapsed and returns with the same name notifies nobody until
  the next availability tick (`probe_manager.py:306`); `ShownIsRecent` bounds it.
* The on-demand connect of a command does not wake a task that sleeps in its
  back-off: the command fails when its polls are used up
  (`connection_manager.py:267`).
* A device whose binary sensors could not be created stays as it is until the
  entry is loaded again (`probe_manager.py:207`).

---------------------------------------------------------------------------

## 5. Properties

A type invariant per module where a plausible fault breaks one; the others by the
question they answer.

* **Is a loss ever silent?** `CleanRunAccounted`: for a clean run every observation
  that became a record is archived, covered by a gap row of its source and class, or
  replaced by a newer point of its stream within the interval that is itself
  accounted for. `CleanRunReconciles`: the counts add up exactly.
  `LostTransitionsInWindow` bounds the loss of a crash: the uncertain window holds
  every transition and prediction without evidence, except the very ones a full
  queue gave up (their gap was in memory when the crash came, or has its row).
  `ImplementsLedger` says it of the whole history, over runs.
* **What is given up first?** `OverflowSparesTransitions`, an action property.
* **Does it always go on?** `QueueDrains`, `StopReturnsOnceAnswered` (of the
  capture), `StopReturns` (of the archive), `UnloadEnds`, `KeepsTrying`,
  `SessionsStayScheduled`, `GapsAreRetried`, `ArchivedUpToFirstAbsence`,
  `AuditsRecur`, `StoppedLoopIsReplaced`, `ExitAnswersAll`.
  `ArchivedUpToFirstAbsence` also states a limit of the design: the first number the
  cloud lacks holds up every number after it, since the first missing chunk is
  always requested next.
* **Is derived state what it stands for?** `CoverageIsExact`, `MissingIsExact`,
  `FirstMissingIsFirst`, `AuditStepsForward`, `AuditFollowsCoverage`,
  `SelectedIsUnrivalled`, `ManifestBlessesBundle`, `ProjectionInStep`.
* **Is anything stale taken for new?** `EvidenceIsOfThisLink`, `ShownIsRecent`,
  `DirectNeverUndone`, `WritesFollowSubscription`.
* **Who owns it, and is it given back?** `OneOpenRun`, `OneWriter`,
  `BusyOnlyWhileOwned`, `NoSlotLeaks`, `OnceReadyStaysOpenable`.
* **Do two accounts ever mix?** `TokenIsOfLinkedAccount`,
  `DataStaysInItsAccount`.

Each property of a passing run has a mutant: a faulty variant of one definition
(a forgotten wake-up, an off-by-one, a dropped guard) under which the same
configuration violates it. The variants are the definitions commented
`faulty variant`.

---------------------------------------------------------------------------

## 6. Proofs

The theorems hold for all values of the constants that satisfy the assumption of
their module: bounds are naturals, what has to hold something holds at least one,
names that have to differ differ (`LocalCaptureAssumption`, `RangesAssumption`,
`LedgerAssumption`, `LinkAssumption`, `ArchiveAssumption`,
`LiveConnectionAssumption`, `ProbeViewAssumption`; the last one also has
`Lag <= DirectWindow`). They are about `Spec`; none uses fairness. Two have a
hypothesis more, `~ClockStepsBack`: see *lost in the window*.

| Module | Theorems |
|---|---|
| `LocalCaptureProofs` | `TypeCorrect` (with: the queue never exceeds `MaxQueueItems`), `AtMostOneOpenRun`, `CleanRunsAreAccounted`, `OverflowSpares` |
| `CaptureLedgerProofs` | `LedgerImplemented`: `Spec => ImplementsLedger`; `LostInWindow`, `RecoverySucceeds`, `CleanRunsReconcile` |
| `RangesProofs` | `CoverageExact`, `FirstMissing`, `MissingExact`, `AuditExact` |
| `SyncLedgerProofs` | `LedgerTypeCorrect`, `SessionsRemainScheduled`, `GapsRemainRetried`, `AuditsFollowCoverage`, `SelectionIsUnrivalled` |
| `AccountLinkProofs` | `LinkTypeCorrect`, `TokenStaysWithAccount`, `AccountsNeverMix`, `StoppedLoopsAreReplaced` |
| `ArchiveDatabaseProofs` | `OneWriterHolds`, `BusyOnlyWhileOwnedHolds`, `ManifestBlessesBundleHolds`, `ReadyArchivesStayOpenable`, `ExitsAnswerAll` |
| `LiveConnectionProofs` | `LiveTypeCorrect`, `EvidenceOfThisLink`, `ProjectionStaysInStep`, `SlotsAreReleased`, `WritesFollow` |
| `ProbeViewProofs` | `ShownStaysRecent`, `DirectStays` |

**Capture, types.** `TypeOK` alone is not inductive: that the begin transaction
updates the row of a run in range depends on the phase of the start. `Base` adds
`Control` (what each phase says about the command in flight and the writer),
`Idle` (nothing of a supervisor exists before it is started) and `Ownership`
(what the memory holds belongs to the present run). `EnqueueKeeps` and
`SplitQueue` are the lemmas on the bounded queue: what an enqueue returns, and
that a batch and the rest are the queue before.

**Capture, one open run.** `OpenRuns` adds to the property that no stale run exists
while a begin is queued or a recovery has succeeded: this is what makes the
sequence recover, create, begin safe across a crash at each step and across a begin
whose effect is durable although an error was reported.

**Capture, no silent loss.** `CaptureInv` follows a record from its reception
until the run is closed. `NothingLost` says that while the supervisor works, each
observation of its run is *accounted*: it is kept (archived, queued, in the batch
or the gap in flight, noted in a pending or taken gap), or it is replaced by a
newer one that is kept, or a pending point stands for it. The remaining parts
make this inductive: `Draining` (a stop that may still close the run has emptied
the memory), `Succession` (observations belong to the runs so far), `Policy` (the
interval policy: a pending point is due at most one interval after any point it
stands for), `Durable` (a successful command had its effect). The key lemmas are
`NoteDropCovers` and `DisplaceKeeps` (a displaced record is covered by the gap
it is noted in), `KeptStays` and `AccountedStays` (no step loses evidence), and
`DrainedIsEvident` (an empty memory turns "accounted" into "evident or replaced").
With `stopPc = "finish"`, `Draining` empties the memory, so the finish
transaction establishes `CleanRunAccounted` for the run it closes.

**Capture, overflow.** `OverflowSparesTransitions` is about one step, but a step
may enqueue twice (a pending point, then the transition that flushed it).
`EnqueueSpares` says what one enqueue takes out of the queue, `EnqueueAdds` what it
puts in, `ReceivedInto` how an observation composes them; a record that leaves by
the writer is found in the batch (`TransitionsSpared`).

**Capture implements the ledger.** `LedgerInv` adds `Custody`: a command in flight
and the writer that submitted it belong to the open run, and a run has no row
before its begin. Each action is then a step of the ledger or a stutter: `Execute`
of a begin is `Begin` (`OpenRuns` says that no other run is open), of a batch or a
gap `Work` (`Custody` says whose evidence grows, the lemmas of the previous proof
that none is lost), of a finish `Close` or `Interrupt` (`CleanRunAccounted` in the
state after it gives the condition of `Close`), of a recovery `Interrupt` of the
one run that was open. Everything else leaves rows and accounts alone or receives
an observation.

**Capture, lost in the window.** The window of an interrupted run begins at its
newest archived observation, so what is missing must not be older than what is
archived. `WindowInv` follows this along the way to the archive: whatever stands
before a transition or prediction in the queue is not newer (`Arrival`), a batch is
not newer than what is missing outside of it (`BatchFirst`), nor is what is archived
(`ArchivedFirst`). What a full queue gave up is set aside in `dropped`, a history
that only grows (`DroppedGrows`, `EnqueueDrops`); what is missing beside it is still
on its way while the writer works (`OnTheWay`). `Chronology` says that no time is
ahead of the clock; it needs `~ClockStepsBack`, since a crash may set the clock
back: the run `capture_clock_step` is the counterexample without it. Under the same
hypothesis `RecoverySucceeds` proves what that run refutes, so the clock is the only
cause of a refused recovery.

**Capture, the counts.** `CleanRunReconciles` is an equation between sizes of sets,
true only when nothing is counted twice. `Balanced` says where every ordinal is:
records and gaps in the buffer have different ordinals, none of them that of a
pending point, and none *settled*, that is archived, in a batch, or the opening of
a gap that the writer took (`Fits`); and the count of all these places, with the
coalesced points, is `ordinal`. It is claimed while no command of the supervisor
has failed (`Reckoned`): a command whose effect is durable although it reported an
error is counted twice, but then the run ends degraded (`Quiet`: the writer submits
one command at a time and gives up after a failure). `NoteDropCounts`,
`EnqueueCounts`, `TakeBatchCounts` are the accounts of the operators; each step of
the supervisor moves what was counted (`GapTaken`, `BatchTaken`, `ExecuteBalance`)
or counts what is new (`TakesBalance`). The sum over the counts of a set of gaps is
turned into the size of a set of tokens, one for each drop (`CountsAreTokens`), so
that the library's facts about cardinality apply.

**Ranges.** The arithmetic is made of folds and of sorting, both defined by a
`CHOOSE`. A fold is shown to be a function that makes one pass per element
(`FoldExists`, and a `...Passes` lemma for each fold), and a loop invariant is
carried along it by `Climb`, an induction proved from the existence of a least
counterexample; `RanksOrder` does the same for `ORDER BY`. Every result is then
compared with the canonical form of a set, the list of its maximal runs, of which
there is one (`CanonicalIsUnique`): two computations of the same numbers agree row
by row. The inductive invariant is short, `IInv`: the types and `CoverageIsExact`.
`InOrderOf` is stated with ranks and not with `SortSeq` of the library, whose
definition is evaluated by TLC only.

**Ledger of work.** `SyncInv` ties the units to the manifests they were cut from
(`WorkFits`) and the gaps to theirs (`GapsFit`). `GapsAreRetried` is not inductive
without both: when a chain ends because its manifest is covered, no gap of that
manifest has an absent number, since gaps lie in their manifest; and an audit that
ends without a successor is of a manifest that is covered (`AuditFollowsCoverage`).
`ChunkFits` and `ChunkUnitFits` say what the chunk selectors return;
`AfterRequestExtends` and `AfterManifestExtends` when there is a successor.
`LedgerKeeps` reduces every transaction but the commit of samples to three facts
about units; `CommitKeeps` is the commit.

**Link.** `LinkInv` says that the fence of the act in progress and of the context
*stands*: it is the one of the entry, or a reload is on its way (`Fences`). A loop
therefore ends with a changed link only while a reload is scheduled; one that a
failing recovery or a failing count of the queue ends is `over`, not `changed`, and
nothing is claimed of it (`LoopSettlesKeeps`). Once an act is
past the registration, the account is the one of its fence (`Namespace`); a context
kept from an earlier cycle carries its account with it.

**Archive database.** `GuardInv`: the guard is held exactly by the one object that
owns the path (`GuardOwned`), a live thread is owned, and one whose object is past
the join is gone (`ThreadsOwned`); the order of loads and stops (`StopOrder`) then
gives `BusyOnlyWhileOwned`. `BundleInv` says, for each step of a backup and of its
cleanup, which files exist: past the manifest's own unlink, a manifest is there only
if that unlink failed (`kept`), and the files it describes may go.

`FilesInv` says what files a writer thread has left at each of its steps
(`FilesOf`), so that a crash between any two of them leaves an archive that was
ready once in a state the next open accepts; no other thread works on them, by
`OneWriter`. `QueueInv`: the stop sentinel is the last command of a queue, so that a
writer that takes it has answered all before it.

**Connection.** `LiveInv` ties the client table, the link and the evidence to the
await at which the task is suspended (`TaskInv`, `EvidenceInv`), and a fresh
prediction to its timer (`ProjectionInv`). A link can be up while it is being
closed, after an announcement that raised; what it still delivers is `late`, and
`EvidenceInv` says that nothing else is on record then.

**Probe view.** `ShownIsRecent` is not inductive: `RecentInv` replaces each bound by
one that counts down with the tick that is due, and `EvidenceInv` says that
`_projected_mode_name` still names all evidence that is fresh, so that a mode that
is shown is supported. `DirectInv` is the invariant behind `DirectNeverUndone`.

**Only model-checked.** Liveness: `QueueDrains`, `StopReturnsOnceAnswered`,
`StopReturns`, `ArchivedUpToFirstAbsence`, `AuditsRecur`, `KeepsTrying` and
`UnloadEnds` need fairness and ENABLED, which are outside the prover. The
properties of the violation runs are refuted, not proved.

---------------------------------------------------------------------------

## 7. Not modelled

* *Schema*: installation, migration and rollback are steps of `ArchiveDatabase`;
  constraints appear in the modules as guards where a property depends on them. The
  column lists and the comparison of an existing schema are data.
* *Reads of the archive* (counts, listings): pure functions of tables other modules
  hold.
* *Remembered targets* (`control_manager.py`): a command of `LiveConnection` has no
  content. A target is remembered before its write is known to have succeeded, and
  the next combined frame repeats it; whether that is wanted is said nowhere.
* *Sensors, entity base*: `ProbeView` and `LiveConnection` have what entities write
  when they are notified; single measurements, units and restored values are data.
* *Platform setup* is Home Assistant's.
* *Frontend card*: rendering; no state that outlives a callback.
* *BLE parsers*: bit fields of single packets, stateless and covered by unit
  tests.
* *Cloud client*: the authorised request with its single refresh is in
  `AccountLink`; HTTP retries, page traversal and validation of responses are
  the nondeterministic answers of `AccountLink` and `SyncLedger`.
* *Registration of an account* is an await of `AccountLink`; `SyncLedger` starts
  with registered accounts. The unused `async_record_discovery` is left out.
* *Concurrent requests of one cloud client*: the code makes none.
