# Smart X PoE: a TLA+ model of the monitoring system

The repository is a monitoring system for a pipeline: simulated devices publish
readings over MQTT, a C# backend ingests them, keeps alerts, batches, snapshots
and insights in memory, accepts commands, and pushes changes to a React
dashboard. The backend is one process with many threads: the MQTT callback, one
telemetry consumer, a timer, and the request threads. Its state is a set of
singletons with a lock each, so most of what can go wrong lies *between* two
locks. The modules here model the system at that grain: every locked section,
every call on a separately locked set and every compare-and-swap is one step.

## 1. Inventory

| Component | State | Operations | Meets | What is hard |
|---|---|---|---|---|
| Telemetry queue (`TelemetryQueue.cs`) | FIFO queue, priority queue, semaphore, sequence, counters | `Enqueue`, `DequeueAsync` | producers on the MQTT callback; one consumer | `Release` after the lock; readings taken on others' permits; overtaking counted from two counters |
| Telemetry consumer (`TelemetryConsumer.cs`) | loop, cancellation token | dequeue, `Process` | queue, processor | an exception outside the `try` of `Process` ends the loop for good |
| Telemetry processor (`TelemetryProcessor.cs`) | none of its own | `Provision`, `Ingest`, `Process` | registry, thresholds, alerts, histories, batcher | readings of a device out of order; five sets with five locks |
| Alerts (`LockedSet.cs`, `AlertLog.cs`) | active, acknowledged and muted sets, log of active and recent alerts | `TryAdd`, `Remove`, `Raised`, `Cleared` | consumer and command threads | sets that must agree and are never locked together |
| Device registry (`DeviceRegistry.cs`) | concurrent map of immutable states | `Register`, `RecordTelemetry`, `TryApply` | consumer, commands, provisioning | lost updates, endless retries |
| Commands (`CommandService.cs`) | undo stack, history, last id, lock | `Issue`, `Undo`, `GetHistory` | registry, alert sets, batch clock | saved overrides that are stale when restored; expiry from the top entry only; limits |
| Batch clock (`BatchClock.cs`) | counter | `Advance`, `Current` | timer thread; read by everybody | read once and used later |
| Threshold evaluation (`ThresholdEvaluator.cs`) | settings | `Evaluate`, `SeverityFor` | processor, snapshots | division by a range of 0 |
| Batcher (`TelemetryBatcher.cs`) | anchor, open batch, arrival time, ring of 7 | `AddPackets`, timer callback | consumer, timer | packets between two closes; late packets; handlers outside the lock |
| Batch close handler (`BatchCloseHandler.cs`) | none | `OnBatchClosed` | clock, detector, snapshots, summary, insights, clients | two handlers at once |
| Disconnect detector (`DisconnectDetector.cs`) | disconnected set, offline-since map | `Detect` | registry, batch | device by device against a registry that moves |
| Snapshots and summary (`Services/Snapshots`) | timeline per scope, last batch | `AddBatch`, `RecordBatch`, `Build` | handler, endpoints | batches out of order; capacity |
| Reading history (`Services/History`) | timelines and last readings | `Add`, `UpdateLatest` | consumer, endpoints | capacity, order |
| Insight engine (`InsightEngine.cs`) | response counts, latest insights | `LearnFromCommand`, `Forget`, `Rebuild` | commands, batch handler | learning outside the command lock; a rebuild from six unrelated snapshots |
| MQTT session (`MqttWorker.cs`) | connection, subscription flags | ping, connect, subscribe, receive | broker, processor | a failed subscription after a successful connect; flags never reset |
| Provisioning (`TelemetryProcessor.Provision`, `DeviceEndpoints.cs`, `DeviceStore.cs`) | database rows and registry | upsert, register, load at start | broker, database | half done on failure; check then act |
| Topology (`Services/Topology`) | none | tree building, validation, aggregation | registry, histories | algorithms |
| Search (`Services/Search`) | click log | rank, page, record click | registry | algorithms, bounded log |
| File upload (`FileEndpoints.cs`, `FileStore.cs`) | files, rows | upload, list | disk, database | half done on failure |
| Frontend live cache (`LiveConnectionProvider.jsx`, `api/`) | connection, query cache | push, fetch, invalidate, reconnect | hub, endpoints | pushes against answers under way; pushes missed while disconnected |
| Frontend pages (`pages/`, `components/dashboard`, `components/device`) | what the queries hold | mount, leave | live cache | a page that takes data to be there; two ways to mark a breach |
| Notification bell (`NotificationBell.jsx`) | recent alerts, unread count, marks | push, open, close, clear | hub | the click works on the last render |
| Search box and filters (`components/search`) | text, timers, address | type, choose, remove, Back | router, search pages | timers that act on an old address |
| Command stream's address (`CommandStream.jsx`) | address, session storage | choose, link, Back | router | an address without parameters is replaced |
| Device pages, registration (`DeviceDetails.jsx`, `DeviceRegistration.jsx`) | uploads and registrations under way | upload, register, navigate | endpoints, live cache | answers that come when the user has gone on |
| Simulator (`simulator/src`) | device battery and dropout | publish, provision | broker | source of inputs |

Data flows broker → `Ingest` → queue → consumer → `Process` → (registry, alert
sets, batcher); the timer closes batches → clock, detector, snapshots, summary,
insights → clients; command requests → registry and alert sets.

What makes each correct: readings are neither lost nor stuck (queue); alerts
follow the newest reading of each device and clients are told once (alerts); no
update is lost (registry); the override shown is the newest one that stands
(commands); every reading in its window is in one batch and the disconnected devices are those
the last batch misses (batching); a page that waits for nothing shows what the
server has, whatever was pushed, missed, asked and answered in between (client).
`PROJECT.json` lists the hazards line by line.

## 2. Modules

    PriorityBuffer  <-- implemented by --  TelemetryQueue
    AtomicRegistry  <-- implemented by --  DeviceRegistry
    AlertLifecycle  (uses the order of PriorityBuffer, atomic registry updates)
    Commands        (uses atomic registry updates)
    Commands  <-- EXTENDS --  CommandHistoryPage  (an answer and its page)
    Batching        (batcher + handler + detector + timeline + summary)
    MqttSession     (broker + worker + provisioning, message by message)
    Provisioning    (database + registry, provisioner against endpoint)
    Insights        (alerts, commands and batch closes as single steps)

    QueryCache  <-- EXTENDS --  LiveViews  <-- EXTENDS --  PageViews
    QueryCache  <-- EXTENDS --  DevicePage  (pages, endpoints, disk and rows)
    AlertFeed, DeviceSearch, CommandStreamPage, ThresholdViews
    MCClient        (all parts of the client, each explored by itself)

| Module | Models | Abstracts |
|---|---|---|
| `PriorityBuffer` | abstract: accept, take the first in the priority order | |
| `TelemetryQueue` | both queues, semaphore, counters, producers, the consumer loop, cancellation | a reading is its sequence number and severity |
| `AtomicRegistry` | abstract: each call takes effect at one instant | |
| `DeviceRegistry` | `TryAdd`, the read/build/`TryUpdate` loops, and what each call returns | device fields: last seen, battery, override |
| `AlertLifecycle` | `Ingest`, `Process`'s alert loop call by call, mute, unmute and acknowledge | the queue is the buffer it implements; a reading is its breaching metrics, stamp and severity |
| `Commands` | `Issue`, `Undo`, `GetHistory` device by device under the lock, the clock beside them | mute, unmute, acknowledge are one "note" type; times are batches |
| `CommandHistoryPage` | `GET /api/commands`: the history and the undoable id under the command lock, then the clock; the Status column and the Undo button made of the answer, while commands, undos and batches go on | one page and its latest answer |
| `Batching` | `RecordTelemetry` then `AddPackets`, the timer's check, `OnBatchClosed` step by step for overlapping batches, `Detect` device by device, `AddBatch`, `RecordBatch`, the pushed summary | time is "quiet for more than 5 seconds or not"; a reading's packets stand and fall together, as they share its time stamp; one scope; `Rebuild` left out |
| `MqttSession` | the worker's ping, connect and subscribe; publishing, queueing, delivery, handling and acknowledgement of provisioning messages; lost connections, broker and backend restarts | the broker and the client library, from how the worker uses them; telemetry, which is sent at most once |
| `Provisioning` | the handler's upsert and registration, the endpoint's test, upsert, registration and rollback, failures of the database, restart and load | the row is the device's place |
| `Insights` | learning and forgetting around commands and clicks, the six rules, `Merge`, the rebuild read by read, dismissals, the best k of a type | commands, alerts and batch closes are single steps; one subzone, one metric per sensor; a drift is a fact about a sensor; confidence in percent; the ids of `Suggestion` in place of its text |
| `QueryCache` | one entry of the client's query cache: when it is asked for, what an answer, a failure, an invalidation, a cancellation and a write do to it | the query library (external), from the options that the hooks pass; an answer is what the server computed it from |
| `LiveViews` | the hub connection with start, automatic reconnect and close; the three pushes and what the provider does on each; mounting, leaving, focus, the browser offline; a command sent by this client | the entries do not act on one another, so one of them is followed, whichever it is; retries are one request |
| `PageViews` | what each component shows of its query: loading, error, nothing, data, blank or a crash | layout and wording |
| `AlertFeed` | the pushed alerts, the limit of the list, the unread count, the bell's toggle and clear on a render that may be old | an alert is its number |
| `DeviceSearch` | search text and least chainage with their timers, zone, subzone, chips, the browse pages, Back, leaving and coming back | filters that are set and removed as the zone is; sorting; suggestions but for opening a device |
| `CommandStreamPage` | the parameters, the copy in session storage, the effect that restores it, every link in and out | metric, statistic and order, which are handled as the range is |
| `DevicePage` | upload and registration from the form to the disk, the row and the answer, failures and stops of the server, the refreshed lists, moving between device pages | what is in a file; other devices' lists |
| `ThresholdViews` | `Severity`, `IsCritical`, the accumulator and the worst readings of `SnapshotBuilder`, and the pages' `isPastThreshold`, `pickStat`, shading and axes | values are small integers; the average |

Correspondence: variables carry the names of the fields they stand for, in the
comment where the name differs; an action is one locked section or one call on
a thread-safe structure; `consumer`, `thread`, `holder`, `command`, `handler`
hold the local variables of the code under way. History variables are written
and never tested by a guard (in `Insights`, `clicks` and `causes` also count
against the bound on inputs); their declarations say so. Definitions
named `Action_Fault` (as `Take_AppliesStale`) above an action are faulty variants that show that the
properties can fail; no specification uses them.

In `TelemetryQueue`, `WaitAsync` with both a permit and a cancellation at hand
may do either. In `AlertLifecycle` two arrivals may share a stamp, since
`ReceivedAtUtc` has the clock's resolution. `DeviceRegistry` compares states
field by field, because they are records: an override that was set, undone and
set again is equal to the one read, and the update succeeds.

## 3. Runs

| Run | Question | Bounds |
|---|---|---|
| `queue` | Does the consumer never meet an empty queue, are overtakes counted rightly, is it the priority buffer, is every accepted reading processed unless the host stops? | 2 producers, severities 0..2, 4 readings |
| `alerts` | Do the alert sets agree, do alerts follow the newest reading, are they announced once and as muted? | 1 device, 2 metrics, severities 0..2, 3 readings, 2 commands, log of 2 |
| `alerts_ack` (finding) | Does an acknowledgement end with its alert? | 1 device, 1 metric |
| `registry` | Are the loops an atomic registry, and does every call return? | 1 device, 3 threads, 4 calls |
| `commands` | Is the override shown the newest that stands? Do undone ones stay away, reboots stay, the history tell the truth, its page label what an undo takes back? | 2 actuators, 4 commands, grace 2, history 2, clock to 3; the history is asked for, and its answer followed, among the first 3 commands |
| `commands_history` (finding) | Is what `Undo` takes back in the history? | as above |
| `batching` | Is each reading in one batch, or dropped once and for its window? Do the detector, ring and timeline keep to the newest, with handlers overlapping, and do clients end with it? | 2 devices, 3 readings, stamps 0..2 with a window of 2, ring 2, timeline 2, 2 handlers |
| `mqtt` | Is every provisioned device registered or known to be lost, every queued message handled, the subscription made again? | 2 devices, 3 faults, sessions that end with their connection and sessions that stay |
| `provisioning` | Do table and registry agree but for the overlaps and failures named? | 2 devices, 2 places, 2 requests and the handler, 4 registrations, 2 faults |
| `insights` | Do concurrent rebuilds publish in the order they read, do dismissals stay, are counts the credits, is the best of all rules shown? | a sensor and a valve at one point, 2 threads, clock to 2, limits of 1 batch and 1 response, 1 suggestion shown, 3 inputs |
| `insights_dismiss` (finding) | Is a suggestion kept from the page only for the cause it was dismissed for? | as above |
| `client` | Do quiet pages show what the server has and never guess; are unread alerts the unmarked ones; do address, box and stored view agree; are stored files and new devices listed; do pages mark what the server counts? | 2 days closed, 1 change, 2 pushes under way, 1 lost connection; 5 alerts in a list of 3; 1 text, 1 chainage, 2 zones, 1 page to go back to; 2 addresses behind the command stream; 2 devices, 1 upload or 1 registration; 2 sensors, values 0..3, 3 readings |

Why the bounds are enough. The two-producer queue lets `Release` calls come in
either order; three severities distinguish normal, critical and more critical;
the readings are enough for a critical one to overtake several and for the
overtaken to be served in between. The unit of contention of the registry is
one device, and three threads let one lose twice to different winners. One
device with two metrics lets one reading raise one alert and clear another
while a command is between its two calls; three readings give an overtake and
a stale reading, and fill a log of two. Four commands on two devices give an
undo whose saved override belongs to a command that was itself undone or
replaced, partly overlapping targets, and overflow a history of two; a clock up
to 3 with a grace of 2 gives expired and live entries. The history page is
followed among the first three commands only (`MaxAnswered`): they overflow the
history, leave two records on the page, and give an answer with its two reads
around a batch that expires the undoable command, before or after an undo or
another command; the fourth adds orders of commands and undos that no answer
sees. The theorem has no such bound. In batching, three
readings make three batches, which wrap the ring and overflow the timeline;
stamps 0 and 2 are outside each other's window and 1 is inside both; two
handlers are the least that overlap. Three faults let a connection be lost
between connecting and subscribing, again while a message is handled, and the
backend or the broker restart besides. Two requests and the handler give every
overlap of two registrations of one id with a third that comes later. In
`insights`, an input is a change of what the rules read (an alert, a battery, a
drift, a device gone or back), a command, a click or a dismissal, and undos come
on top: three give an alert with two commands credited to it and one undone
before or after its learning, two rules for one device with a dismissal of
their suggestion, and a change or a dismissal before or after each of the seven
reads of a rebuild; a limit of one suggestion makes the heap choose between two. Its run
issues `OpenValve`, `Acknowledge` and `Mute`; the other types follow the same
branches.

In `client` the parts of the page share no variable, so their interleaving
says nothing new: the variable `part` picks the one that moves, and the run
explores the states of each part and not of their product. The exception is
`DevicePage`, whose uploads and registrations meet in the page that is mounted;
the run explores each of them, and the theorems about `DevicePage` cover both
together. Two days and one change give a push that makes up for an older answer
and one that is lost; two pushes under way let one be handled between a request
and its answer; five alerts overflow a list of three while it is open. One entry
of the cache at a time is enough because every handler treats each entry by its
own key.

Devices, producers and threads are only compared, so symmetry is used where
only safety is checked (`commands`, `batching`, `provisioning`, `insights`) and
never with liveness.

Deadlock is not checked: every bounded run ends when its inputs are used up
and every thread is idle.

Limits of the code that the constants stand for: `RecentCapacity`,
`HistoryLimit` 100, `GraceBatches` 3, ring 7, timeline 30, and of the insight engine
`RecencyBatches` 6, `MinSupport` 3, `NeglectedBatches` 6, `LongOfflineBatches` 3,
`MaxSuggestions` 5.

### Properties

- `ConsumerNeverFaults`: `Release` follows the lock, so a reading may be served
  on another's permit; still `_fifo.Dequeue()` never throws, which would end the
  consumer.
- `OvertakenCountsInversions`: a statistic from two counters equals the number of
  pairs actually served in reverse.
- `ImplementsBuffer`, `EveryReadingDelivered`.
- `LogExact`, `AnnouncedOncePerEpisode`, `AlertsMatchNewest`,
  `AnnouncementFollowsMute`.
- `LastSeenMonotone`, `ImplementsAtomic`, `CallsReturn`.
- `NoUndoneOverride`, `OverrideIsNewestStanding`, `RebootNotInterrupted`,
  `DropsOnlyExpired`, `HistoryAccurate`.
- `ReadingsBatched`: each reading handed to the batcher is once in a closed batch,
  once in the open one, or was dropped once, and dropped only if it is outside the
  window of a batch opened before it. `NewestKept`. `ViewCurrent`, of a last
  handler that overlapped no other: of two that overlap the older summary may be
  pushed last. `DisconnectedMatchesBatch`, which holds after a handler that overlapped no other even if earlier ones did,
  because every `Detect` looks at every device; `OfflineSinceExact`, only as long
  as no handlers have overlapped, because the map is touched only when the set
  changes: an overlap can leave a disconnected device without an entry until it
  reports again.
- `EveryDeviceAccounted`, `EveryMessageHandled`, `SubscribedAgain`: the worker
  acknowledges a message after it has handled it, and a failed subscription drops
  the connection. `SubscribedAgain` is stated for sessions that end with their
  connection. Which kind the broker keeps follows from the protocol version the
  client library speaks by default, which the repository does not say, so the
  model has both (`sessionsKept`); where sessions stay, a connection lost between
  connecting and subscribing leaves a session that is found without its
  subscription.
- `TableAndRegistryAgree`, `CreatedOnce`.
- `LabelsMatchUndo`: the endpoint reads the undoable id under the command lock and
  the clock after it, so a batch may close in between and the page then labels
  "Expired" the very command its Undo button offers. What remains true of an
  answer, whatever came between its reads and after it: "Undone" and "Expired" are
  over for good; until a command or an undo overtakes it, `Undo` takes back the
  command the button offers or nothing, and "Active" commands come after it; and as
  long as the batch it tells lasts, "Next to undo" is exactly what `Undo` takes
  back.
- `QuietViewsAreCurrent`, `NoViewGuesses`: see "What the client does not promise"
  for the cases named in `excused`, for paused requests, and for the two components
  (`Unguarded`) that take no answer for an empty one. Of these `NoViewGuesses` says
  that whenever they say there is nothing without an answer, another component of
  the page shows that it loads or failed.
- `UnreadAreUnmarked`, `BoxMatchesAddress`, `SubzoneHasZone`, `ViewAsAsked`,
  `ToldIsShown`, `RowsHaveFiles`.
- `PastIsMarkedAlike`: severity is computed once on the server and the test for
  a breach again in four places of the client, for metrics that are bad when
  high and when low.
- `BestShown`: what a rebuild publishes while another thread waits for its turn
  is never older than what a later reader saw, each id carries the best of the
  rules for it and names them all, and the heap leaves out nothing that outranks
  what it kept. `DismissedStaysAway`: the rebuild lock, and not the lock of the
  dismissals, is what keeps an older rebuild from showing a suggestion again.
  `CountsAreCredits`: learning and forgetting are not under the command lock; an
  undo that overtakes the learning leaves a credit behind for ever, and nothing
  else does.

A batch that closes between `RecordTelemetry` and `AddPackets` takes a device
that has just reported for the first time as disconnected. The model contains
this; no text of the repository promises otherwise, so it is a hazard with a
note and not a finding.

### Fairness

Safety needs none. Liveness assumes weak fairness of what is inside a call: a
producer past its lock, the consumer, a registry call under way (the .NET
scheduler runs them and none waits for a lock held across a wait); in
`MqttSession`, of the worker's loop, which goes round every 5 seconds, of
delivery, handling and acknowledgement of the messages the broker holds, and of
the network coming back. Faults are bounded. Nothing obliges readings, commands
or a shutdown to come. Two qualifications:

- `EveryReadingDelivered` holds for a bounded supply of readings. With critical
  readings arriving for ever at the consumer's pace a normal one would wait for
  ever; that is what priority means in this code.
- `CallsReturn` holds for finitely many calls: a compare-and-swap fails only
  because another succeeded, which is progress of the whole and not of each.

### Findings

1. `alerts_ack`: the acknowledge command tests the active set and then adds to
   the acknowledged set; when the consumer clears the alert between the two, the
   acknowledgement outlives it and the *next* alert on that metric is born
   acknowledged. The frontend tells the user "Each acknowledgement ends when its
   alert clears." (`frontend/src/lib/commands.js:37`).
2. `commands_history`: the dialog says "You can undo this from Command History."
   (`CommandDialog.jsx:50`), but the history holds the newest 100 records of all
   types; a valve command followed by 100 others before it expires is still on
   top of the undo stack and no longer in the history.
3. `insights_dismiss`: "Dismiss until the cause changes"
   (`frontend/src/pages/Insights.jsx:72`), but a dismissal is an id and a version
   string, and two rules for `Inspect:<device>` take theirs from unrelated small
   numbers: the batch since which a device is offline and its battery divided by
   5. Dismissing a battery at 5 to 9 percent also hides that the device has been
   offline since batch 1.

## 4. Theorems

Proved by TLAPS for all values of the constants (any devices, producers,
threads, limits), from the named assumptions in the modules only.

| Module | Theorems | Argument |
|---|---|---|
| `IngestProofs` | queue: `TypeCorrect`, `PermitsAccounted`, `NeverFaults`, `OvertakenCounted`, `Implementation`; session: `SessionTypeCorrect`, `NothingVanishes` | Queue: `PermitsMatchItems` with the order of the queue: `fifo` holds normal readings by growing sequence, `priority` critical ones, all numbers up to `sequence` and distinct. The permit balance gives a non-empty queue whenever the consumer holds a permit; the order makes the head of `fifo`, or the first key, the reading `PriorityBuffer` takes. All other steps stutter. For the count of readings overtaken (`CountsInv`): a reading taken after a later one was counted, once, when the later one overtook it. Session: while its connection stands, the callback works on the head of the broker's queue, and what it is about to acknowledge is registered or known to be lost. Only an acknowledged message leaves the queue. |
| `DeviceRegistryProofs` | `TypeCorrect`, `NeverBack`, `Implementation` | Invariant: a thread about to call `TryUpdate` read a registered state its operation may change, and an unregistered device has no telemetry. With that, a successful `TryUpdate` is the atomic operation on the state it finds; reads and lost updates stutter. |
| `CommandsProofs` | `TypeCorrect`, `NoneUndone`, `RebootKept`, `NewestStands`, `HistoryIsAccurate`, `LabelsAreTrue`, `OnlyExpiredDropped` | Invariant: every override that can still come back (saved in an undo entry, in the entry being undone, or in the command being issued) is older than that entry and belongs to a recorded command that is not undone; if that command can still be undone, it is a valve command that reached the device. Undo takes the newest entry, so nothing saved below it can have been undone: `NoUndoneOverride`, which alone is not inductive, follows. An undo replaces valve overrides only, and `Issue` tests with a batch that is not later than the clock: a live reboot stays. The batches of the records and of the undo entries grow with their ids (`BatchesGrow`), so what is dropped from the bottom of the stack is older than what stays: only expired entries go. The page (`PageSpec`, `PageInv`): a record that was read agrees, in its batch and its mark, with every override and undo entry its command still has (`RecordKept`, from `LabelsInv`), an answer that nothing overtook was made from the stack as it is but for expiries (`NotOvertaken`, `ActiveKept`), and the clock only grows, so the labels match. That a device shows the newest command standing for it (`NewestInv`) needs the same of every saved override: it is the newest of those before its entry. |
| `ProvisioningProofs` | `TypeCorrect`, `Agreement`, `CreatedAtMostOnce`, `PlaceStays` | Invariant: a thread's place in its call tells what row and registration there are: the row is written before the registration, a row without registration is awaited by a thread or named as half done, and a device tested as absent by one thread alone stays absent until that thread writes it; whatever breaks the last is recorded as an overlap. |
| `AlertLifecycleProofs` | `TypeCorrect`, `LogIsExact`, `AnnouncedOnce`, `NewestIsActive`, `MuteIsFollowed` | Invariant: the newest reading of a device waits in the queue unless it is the one last applied (`Waits`), the checks that are done left the breaches of their reading active (`Applies`), and a device that is not being checked shows those of its newest (`Applied`); an alert on its way to the clients was raised and not announced (`CountInv`), and the mute history tells the mute until it is tested (`MuteInv`). None of the four properties is inductive alone: each speaks of the moments in which the consumer is idle or between two calls. |
| `ClientProofs` | views: `LiveTypeCorrect`, `ShownIsCurrent`, `NoGuesses`; pages: `SearchTypeCorrect`, `BoxIsKept`, `SubzoneIsKept`, `StreamTypeCorrect`, `ViewIsKept`, `FilesAreThere`, `StoredIsShown`, `DeviceTypeCorrect`; bell: `FeedTypeCorrect`, `NoneMarkedTwice`; thresholds: `ThresholdTypeCorrect`, `MarkedAlike` | Views: a cache entry that is neither invalid nor excused holds the server's state, or a push or an answer that will bring it is under way, or the connection is down and the start that ends this invalidates it; a page is mounted only on an entry that has data, an error, a request or an invalidation to follow. Search: every address a timer or the history holds was one of the search, with a zone for its subzone, and a pending timer holds what is typed unless the box has taken over another query since. Command stream: besides the view on the page, the stored one shows what was asked for last. Files: where the server is in an upload tells whether its file and its row are there. Lists: a list that is quiet holds every row the user was told of, unless a request older than the row is under way (`missed`); each step of an upload or a registration hands this on from the server to the answer to the refreshed list. Bell: the alerts that are not marked are those that came since it was opened last. Thresholds: the accumulator has the extremes of what was measured and counts the readings past the threshold (`ExtremesKept`, `PastCounted`), and the reading kept of a device is past it with none worse (`WorstKept`); the rest is that a padded axis contains what it was made for, whichever side of the critical line is the bad one. |
| `BatchingProofs` | `TypeCorrect`, `ReadingsAreBatched`, `DisconnectedAreMissed`, `OfflineSinceIsFirstMissed`, `NewestAreKept`, `ViewIsCurrent` | Invariant: a batch is closed by the handler alone, one after the other, so each closed batch has its handler at one of its steps (`HandlersCount`, `LatestAlone`). Each reading the batcher was given is in one batch or was dropped (`ReadingsPlaced`), and what is dropped has a number behind that of the reading that anchored the open batch (`DropsStep`); a batch leaves the ring only for a newer one (`RingInOrder`). What the detector has done to a device is what the batch says up to the batch it handles (`DetectedBy`, `SettledBy`): the set of the disconnected and the batch since when are each exact only between two handlers. |
| `InsightsProofs` | `CountsAreTrue`, `BestIsShown`, `DismissedStayAway` | Counts: a thread that is still to be credited has an id of its own that nobody was credited with (`ThreadsAt`, `IdsIssued`, `LearnedOnce`), and a command that is forgotten while another thread learns from it is in `early` (`ForgottenEarly`). So each credit adds one to the count of one response and `Forget` takes that one back. Suggestions (`ShownInv`): one thread at a time rebuilds; if nothing changed since it began, each part it has read is what the world still says, and the dismissals it has read contain every one whose call returned (`Rebuilding`). What it publishes holds one candidate for each id on offer, the best of its offers with the sources of all (`Built`): adding an offer keeps this (`Merge`), and so does every fold over the rules' offers, by well-founded induction over the finite subsets of what is folded, as the step and the invariant are fixed sets there. The heap of the best holds as many as fit and none behind one left out after each insertion (`TopK`). |

Only model-checked: liveness (`EveryReadingDelivered`, `CallsReturn`,
`EveryMessageHandled`, `SubscribedAgain`), which is out of the prover's reach.
Every other property of a passing run is stated by a theorem of the table. Types
are proved for every module the table covers except `Insights`, where the
theorems rest on the parts of it that they need (`WorldTyped`, `Holds`,
`CandidatesBuilt`): the rest of its `TypeOK` bounds the inputs of a run, which
is about the model and not about the code. `Batching` checks its type invariant
in its run too; the others are in no run's list, and TLC finds that of `Insights`
true when it is added to `MCInsights.cfg`.

## 5. What the client does not promise

Met while modelling; no text of the repository claims otherwise, so the
properties leave these cases out by name and nothing is listed as a finding.

Answers and pushes. An answer of a first load can overtake, and then overwrite,
the push that came after it was computed (`LiveConnectionProvider.jsx:26`), and
what was pushed before the first connection was up is not made up for; the next
push repairs both (`excused`). Days that close do not refresh the list of
devices and its recent batches (`["devices"]`, `["recentBatches"]`), and
commands do not refresh the results of a search. Alerts raised while the client is disconnected are not
repeated. While the browser is offline a first request is paused, which the
library reports as neither loading nor failed: `Insights` and `DeviceList` then
read data they do not have, outside any `CardBoundary`, and `DeviceDetails` says
that the device was not found. `RecentReadingsTable` asks neither whether its
query loads nor whether it failed (`RecentReadingsTable.jsx:30-36`) and says "No
readings received yet." during a first load and after it failed, online as well;
`DeviceCommands` has "No unacknowledged alerts" as its reason then
(`DeviceCommands.jsx:8-24`). The model mounts the components of a device's page
with the page; the code mounts those but `DeviceDetails` once the list of devices
is there.

History of commands. `GET /api/commands` reads the undoable id and then the clock
(`CommandEndpoints.cs:48-53`). When a batch closes in between, the page labels
that command "Expired" and its Undo button stays enabled; the click is answered
409, "Nothing to undo."

Addresses and timers. A timer's callback acts on the address of the render it
was set in: a late one drops a filter chosen since, and the chainage timer,
which is never cleared, brings the user back to `/devices` from another page.
Choosing "All zones" while the zone filter is the only parameter is undone at
once, since an address without parameters is replaced by the stored one. A
page number past the last page shows an empty result.

Answers to somebody who has left. The success of an upload refreshes the list
of the device of the last render: opening a second device before the answer
comes leaves the first one's list old, and an upload paused while offline goes
to the device shown when it resumes. A late answer of a registration takes the
user to the new device's page from wherever they are. A second submit of the
form is answered 409 and shown as a failure, though the device is registered.

Server. A failed copy leaves a part of a file without a row
(`FileEndpoints.cs:71`; the file is not offered). With `Normal` equal to
`Critical` every breach is infinitely severe: the first one is kept as the
worst, and infinity has no JSON number. `IsSubscribed` is set and never reset
(`MqttWorker.cs:112`). A snapshot of a straggler's batch replaces the full one
of the same day (`SnapshotStore.cs:24`). Normal readings wait as long as
critical ones keep coming (`TelemetryQueue.cs:86`).

## 6. Plan

Done, in this order: the queue, the registry, alerts, commands, batching,
provisioning, the MQTT session, insights, the client with its files and
thresholds, and a proof of every safety property that a run checks. What is
left, by what it would add:

1. Theorems: what the pages of `PageViews` are given, and the three findings
   each with the condition under which its sentence does hold.
2. The pure parts without state: topology (building, validation, aggregation),
   search ranking and paging.
3. The bounded timelines of `ReadingHistory`, as `Batching` has them for
   snapshots, and the severities that the search reads from them.

## 7. Not modelled

Rendering, formatting, logging, HTTP and JSON details, read-only endpoints and
wiring in `Program.cs`: no state whose interleaving matters. The database, the
broker and the query library come in only through the calls made to them. The
float arithmetic of readings and severities is abstracted to what comparisons
tell apart. Topology and the ranking of a search are pure functions of one
request; the simulator is the source of inputs; the sidebar, the dialogs, the
landing and demo pages keep open, collapsed and staged flags that one component
sets and reads. Development mode, which mounts every component twice, and the
library's placeholder of the previous page's data are left out of the client.
