# Verification of the Borges firmware

TLA+ models of the Borges e-reader firmware, the TLC runs that check them on
small instances, and TLAPS proofs of the properties that matter most. Paths
below are relative to the repository; `DurableQueue` and its neighbours are in
`lib/BorgesSync`, the user interface in `src/activities`.

## 1. The system

The firmware is an e-reader for an ESP32 with an SD card. Its own logic, as
opposed to book parsing, drawing and drivers, is the synchronisation of reading
positions, statistics and annotations with a server, over a connection that
comes and goes and on a device whose power may go at any time; replacing its own
firmware; and a two-task user interface. Sync and user interface run on the main task, drawing on a
render task, so concurrency is of two kinds: two tasks sharing a mutex and
notifications, and one task against power loss, a failing card and a server.

| Part | State it keeps | Operations | Hard behaviour | What makes it correct |
|---|---|---|---|---|
| Atomic file writer (`writeAtomic`, `recoverAtomic`) | a file, its `.bak`, its `.tmp` | write, recover, repair at boot | power loss between any two storage calls, failures whose result is ignored | looks like one atomic write; nothing torn, nothing left behind |
| Checkpoint (`saveCheckpoint`, `loadCheckpoint`, `selectNewestCheckpoint`) | two slot files, `state` | `reserveIdentity`, `commitAppliedCursor`, `setWallAnchor`, `begin` | saves cut short, 32-bit generations that wrap, unreadable slots | no sequence twice, no acknowledged cursor lost |
| Outbox | `NNN.pending`, `NNN.sent` files | `enqueue`, `replaceUnattempted`, `nextBatch`, `markAttempted`, `retireAcknowledged` | rewriting against attempting, lost answers, late retirements, backups that come back | one body per identity; nothing lost, nothing resurrected; delivered |
| Reading events | session, `progressIdentity`, statistics, a held position | `beginBook`, `recordPosition`, `retryPendingProgress`, `endBook` | failed card writes during reading; another book opened before the retry | the last movement of a book is in its newest event, or held for it |
| Sync client | none between calls | `syncOnce`, `fetchProgress` | truncated and wrong pages, failures between deferral and commit | cursor covers the inbox; upload only after a complete pull |
| Progress inbox and consent | `NNN.json/.accepted/.dismissed`, `recovery_<book>.json`, the reader's `pendingAppliedRemote` | defer, offer, accept, dismiss, apply, resolve | operations of several storage calls, stale items, two screens that ask | no jump without standing consent; consent survives |
| Sync scheduler | deadline, failures, `pending`, `wifiWasConnected` | `tick`, `notifyLifecycleCommit`, `flushBeforeSleep` | `millis()` wraps, Wi-Fi flaps, events committed while a retry is scheduled | backoff kept, pending work tried |
| Activity manager | current activity, stack, pending action, mutex, waiter | `loop`, navigation, `requestUpdate`, `requestUpdateAndWait`, render loop | two tasks, callbacks that navigate | nothing destroyed while drawn; results and redraws arrive |
| Progress file (`ProgressFile.h`) | `progress.bin`, `.bak`, `.tmp` | write, open with fallback | as the atomic writer, but nothing is repaired at boot and the backup stays | an atomic register; a reader is at most one save behind |
| Bookmark sync | the list, its file, annotation events in outbox and inbox | `reconcile`, `enqueueLocalUpsert`, `enqueueLocalDelete` | three persistent stores updated in turn; changes of two devices that cross | an annotation leaves the inbox only when it is saved; both sides end up the same |
| Pairing and credentials | pending claim, token | `request`, `pollAndClaim` | lost answers | one claim, kept |
| Name resolution and trusted clock | caches, flags | `resolve`, `ensureTrustedClock` | fallbacks | always ends |
| Migration (`BorgesMigration.h`) | directory names | three renames | power loss | resumable |
| Firmware update | two otadata slots, two app partitions | `switchTo`, `flashFromSdPath`, `installUpdate` | power loss between and inside flash operations | always exactly one whole firmware to start |
| Web server, WebDAV, downloads, OPDS, KOReader sync | one transfer | request handlers | I/O | not state machines of interest |
| Settings, recent books, stores | whole JSON files | load, save | none beyond the writer | |
| Storage, power, USB HAL | recursive mutex, card ownership | | hand-over to the USB host | |
| Epub, Xtc, Txt, fonts, graphics, dictionaries | caches | | sequential data code | |
| freeink-sdk, expat, miniz, uzlib | | | vendored | |

How the parts interact: the reader records positions through `ReadingEvents`,
which reserves an identity from the checkpoint and writes the outbox; the
scheduler lets `syncOnce` run from the main loop while no book is open; the sync
client reads the outbox, defers pulled events to the inbox, commits the cursor to
the checkpoint and retires outbox files; the reader and the settings screen read
the inbox, ask, and resolve; the reader and the bookmark list reconcile bookmarks
with the annotations of the inbox and queue their own changes. Every persistent
record of the queue but the renames of outbox and inbox files goes through
`writeAtomic`; the reader's own position goes through `ProgressFile`; the bookmark
list and the settings are written in place. The screens are activities run by
`ActivityManager`.

## 2. Modules

| Module | Models | State and actions against the code |
|---|---|---|
| `AtomicRegister` | what a caller of `writeAtomic` may rely on | `val` is the surviving content; `Commit` the instant a write takes effect; `Return` its answer; power loss before or after |
| `Files` | what a file of the card may hold | contents are abstract values, `NoFile`, `Torn`; shared by the two atomic writers |
| `AtomicFile` | `writeAtomic`, `recoverAtomic`, the repair in `begin` | `final`, `bak`, `tmp` are the three files; one action per storage call, each with its failing branch; refines `AtomicRegister` |
| `ProgressFile` | `ProgressFile::writeAtomic`, `openForRead` | as `AtomicFile`, one action per storage call; refines the same `AtomicRegister`, whose value is the file `openForRead` opens |
| `FirmwareUpdate` | `flashFromSdPath`, `installUpdate`, `switchTo` | `image` per app partition, `otadata` per slot; one action per flash operation; the bootloader (`Boot`, `Judge`) is external |
| `Writers` | `AtomicFile`, `ProgressFile`, `FirmwareUpdate` side by side | the three replace different things and share no state; each behaviour is about the writer chosen in its initial state |
| `Checkpoint` | the checkpoint half of `DurableQueue` | each slot is a register; `Save` prepares, `SaveReachesCard` takes effect, `SaveSucceeds`/`SaveFails` is what the caller learns; `Begin` reads both slots |
| `Outbox` | the outbox, with `persistProgress` and the exchange half of `syncStep` | `pend`, `sent`, `bak` per identity; `pc` is the place of the main task; one action per storage call or message; a batch may pass over an event it cannot read |
| `ReadingEvents` | the session above the outbox | extends `Outbox`: every write and exchange step is one of `Outbox`; adds `book`, `seen`, `held`, `screen`, `tracked` and what follows the write under way (`resume`) |
| `BookmarkSync` | bookmarks of one book, their events, the inbox, the server | `card` the file, `list` the memory, `out` and `inbox` the queued and pulled annotations; `Load` applies the inbox in memory, `EnqueueUpsert`, `Save`, `ResolveInbox` follow, each of which may fail; `DeferPulled` defers a page and may leave its cursor uncommitted; the server takes an event, returns a conflict or refuses it |
| `SyncClient` | `syncOnce` against the server's stream | `cursor`, `inbox`, `outbox`; `Receive` any page a server may send, `Defer` one event, `Commit` the cursor, `FinishPull` the gate |
| `ProgressInbox` | the inbox for one book, and the two prompts | `file[n]` is the extension, `manual` the record, `place`, `offered`, `applying` the screens; removals are one action each; `Reads` is a scan and a read of the record, either of which may fall short |
| `SyncScheduler` | when `syncOnce` is called | `Tick` is the whole of `tick`, a burst included, with its duration and outcome; `NotifyLifecycleCommit` comes at any time |
| `ActivityManager` | main task and render task | `pc`, `rpc` the two program counters; a callback of an activity is any sequence of `Change`, `RequestUpdate`, `RequestUpdateAndWait`, `StartActivityForResult`, `Finish`, `ReplaceActivity` |

`MC*` modules define the sets the configurations substitute; `*Proofs` modules
hold theorems. How they rest on each other: `AtomicFile` implements
`AtomicRegister`; `Checkpoint`, `Outbox` and `ProgressInbox` take a write of a
file as that register's step (with `Outbox` also modelling what the register does
not promise about the backup); `SyncClient` takes the cursor as the value
`Checkpoint` shows it to be, and the events of the outbox as `Outbox` shows them;
`BookmarkSync` takes both: an event is attempted and retired in a step, and pages are
pulled in order, again when their cursor was not committed.

Ghost variables record what the code does not: `issued`, `acked`, `last`, `prev`,
`unread` in `Checkpoint`; `wire`, `newest`, `skipped` in `Outbox`; `resolved`, `uploaded` in
`SyncClient`; `consent`, `granted`, `taken`, `rare` in `ProgressInbox`; `rare` in
`BookmarkSync`; `last`, `before` in `ProgressFile`; `moved` in `ReadingEvents`; `hold`,
`bursts` in `SyncScheduler`; `version`, `shown`, `asked` in `ActivityManager`. No
action's guard reads one, with exceptions that only bound the model: `IssuedBound` of
`Checkpoint`, the bound on `version`, and the bounds `MaxRare` and `MaxRareLog` on
`rare` of `BookmarkSync`. Two configurations add a state constraint: `FewRareKinds` on the
ghost `rare` of `ProgressInbox`, and `ShortReplay` on the replays of `BookmarkSync`.

Every module has, between its initial state and its actions, a block of faulty
variants: single definitions changed the way a slip in the code would change
them. No action uses them. Put in the place of the original, each breaks one
property, so each property is one that the code could fail. `SyncScheduler` has two of them
for the backoff (a commit that sets its own deadline, deadlines compared as numbers) and for
pending work (a commit without a deadline, a burst that leaves none).

## 3. The runs

`tlc -config X.cfg MCX` in this directory repeats each.

| Run | Configuration | Shows | Distinct states |
|---|---|---|---|
| atomic_file | `Writers.cfg` (module `Writers`) | nothing torn, nothing left behind, two refinements of the register, a reader at most one save behind, always one firmware | 37 749 |
| checkpoint | `MCCheckpoint.cfg` | sequences never repeat, cursor never falls, an unreadable slot costs at most one save | 272 774 |
| outbox | `MCOutbox.cfg` | one body per identity, nothing lost, order, no resurrection, delivery, with events that cannot be read | 30 603 |
| reading_events | `MCReadingEvents.cfg` | no event vanishes, the last movement is kept, with unnoticed failures, short scans and exchanges while a position is held | 1 245 497 |
| sync_client | `MCSyncClient.cfg` | cursor covers the inbox, gate, decisions survive, catches up | 11 834 |
| progress_inbox | `MCProgressInbox.cfg` | no jump without consent, consent is durable, no suggestion lost | 1 179 815 |
| progress_inbox_review | `MCProgressInboxReview.cfg` | finding 1 (violation) | |
| bookmark_sync | `MCBookmarkSync.cfg` | retired is saved, settled means same | 3 003 416 |
| sync_scheduler | `MCSyncScheduler.cfg` | backoff, pending work, idle poll, with commits at any time | 66 816 |
| activity_manager | `MCActivityManager.cfg` | drawn is alive, results, waiter, redraw | 28 726 |
| activity_unlocked | `MCActivityManagerUnlocked.cfg` | finding 2 (violation) | |
| activity_dropped | `MCActivityManagerDropped.cfg` | finding 3 (violation) | |

The type invariants of `Checkpoint` and `SyncClient` are proved and therefore not run.

Bounds, and why they are enough for the question asked:

* `Writers`: three contents distinguish the old value, the new one, and one before
  them that a stale backup could bring back, and as images the two that the partitions
  hold and the one that comes. Writes, failures and power losses are unbounded.
  `MaxSeq` 6 lets several updates follow each other, so that each slot is rewritten
  more than once.
* `Checkpoint`: `GenModulus` 6 wraps after six saves, so every pair of slots
  straddles the wrap; four sequences and three cursors order any two saves. Saves
  and power losses are unbounded, `Len(issued)` is bounded. The modulus has to be
  even, as 2^32 is, and above 3 for two consecutive generations to be told apart.
* `Outbox`: three identities are the least for a session to burn one in
  `persistProgress` and have two more in one batch; two bodies tell a rewrite from
  a repetition; two power losses let one hit the recovery from the other.
  `ScanLimit` 4 lists everything. Any event may be unreadable when a batch is made
  (`Faults` is `{"read"}`), as often as it takes.
* `ReadingEvents`: two books with two positions each, so that a held position of one
  can meet a movement of the other; three identities; `ScanLimit` 1 never lists
  everything when two files exist; backups that cannot be removed and roll-backs that
  fail; one reset. An exchange starts whenever no book is open, whatever is held: the
  scheduler retries first, the sync screen does not (`BorgesSyncActivity.cpp:113`).
* `SyncClient`: two stream events, pages of at most two, one local event, one
  reset. A page may begin at or below the cursor and end anywhere, with a flag
  that lies; `ValidatePull` has to sort that out.
* `ProgressInbox`: three events and two manual requests give an older and a newer
  candidate on both sides of an accepted one, and a record that replaces a record.
  Resets, failures and openings are unbounded. A behaviour is followed until a third kind
  of rare thing happens in it (`FewRareKinds`).
* `BookmarkSync`: bookmarks do not interact but through the batch an opening applies,
  so one mark; a local and a remote content; two events of the device (an add and its
  deletion, or two upserts that cross a remote change), three of the server, of which
  an opening applies at most two, so that one is left for the next. One kind of rare
  event (`MaxRare`), with a shorter stream (`MaxRareLog`). Of a page whose cursor was not
  committed, and of all such pages together, at most one item is in the inbox at a time
  (`ShortReplay`); it is pulled again any number of times. Openings, failures and resets
  are unbounded. (Without `ShortReplay` the run ends well too, in twice the states.)
* `SyncScheduler`: a clock of 16 ticks with steps of 2; every delay is a small
  even number, the clock is odd, so that the sentinel 0 is never met by accident
  (see section 6). The clock wraps any number of times.
* `ActivityManager`: three activities (four in the violation runs), a stack of two,
  one change of state. One activity requires the exclusive storage loop.

`CHECK_DEADLOCK` is left on everywhere.

Options of a module that a run switches: `Faults` (which storage failures go
unnoticed), `ScanLimit` (whether a directory scan may miss files), `Missed` (which
slots a boot may fail to read), `StorageFails`, `Rarities`, `UnlockedChanges`. A property
checked with an option off is claimed only there. `Faults` of `Outbox` are
an event that cannot be read, a backup that cannot be removed and a roll-back that fails.
`Rarities` of `ProgressInbox` (a scan that misses files, a record that cannot be read, an event
pulled again, the settings screen's review) and of
`BookmarkSync` (a torn or unreadable list, a scan that misses files, an unknown directive,
a bookmark without a sync id, a rejected event, a replay that ends before what is left of the
first pull) is on in the runs; the ghost `rare` records which of them
have happened, and a property names those it sets apart. What happens then is in the
findings and in the departures after them.

### Fairness

* `Outbox!Fairness`: the scheduler starts exchanges again and again
  (`PendingIsServed` is that claim), and storage calls, posts and complete answers
  are not refused for ever. Writing is weakly fair because it is straight-line code.
  Nothing is assumed of the reader. Reservation is bounded, so the session does
  not write for ever.
* `SyncClient!Fairness`: the same, and of the server that it sends honest pages
  again and again, in the pull as in the exchange. Wrong pages may come any number
  of times in between.
* `SyncScheduler!FairSpec`: the main loop runs and time passes; a burst that is due
  is not preempted by the environment for ever (strong fairness), as Wi-Fi that
  goes away whenever the deadline comes leaves the code nothing to do.
* `ActivityManager!Fairness`: FreeRTOS runs both tasks; a callback returns
  (activities are event handlers, not loops), not always with a request to
  navigate; gestures do not consume every loop; and the render task does not begin
  every turn in the instant in which no activity exists. Mutex acquisition is strongly
  fair, as FreeRTOS queues waiters.

## 4. Findings

1. *A declined position keeps jumping* (`progress_inbox_review`). The settings
   screen offers declined events too. Accepting one while an accepted manual record
   exists stores its sequence in the record as "superseded"; the file stays
   `.dismissed`. `resolveProgress` removes `.json` and `.accepted` files and does not
   touch the record, so `nextApplicableProgress` returns the event at every later
   opening. "The server can recommend a location, but only the reader may authorize a
   jump" (`BorgesSyncCore.cpp:290`).
2. *requestUpdateAndWait may show the old state* (`activity_unlocked`).
   `BorgesSyncActivity` changes `working` and `pendingAction` without a RenderLock. A
   render that began before the change also clears `waitingTaskHandle`, so the wait ends
   with the old screen. With the mutex (`activity_manager`) it cannot.
3. *A pending activity is dropped* (`activity_dropped`). A gesture leaves
   `pendingActivity` set when `loop` returns, and the next pass looks for a gesture and runs
   the callback before it launches anything. The run's trace is the shortest: gestures in
   two passes, one after the other, the second of which pushes an activity and throws the
   first away. A callback of that pass that calls `finish` or `startActivityForResult` does the
   same. The comments at `ActivityManager.cpp:319` and 329 say "Should never happen in
   practice".

Departures without a run of their own; a property sets each apart, or its hazard in
`PROJECT.json` says why none covers it:

* An event is deferred, but the cursor is not committed; it is accepted against a manual
  record, applied and resolved; it is pulled again (there is no tombstone) and the record,
  still superseded by its sequence, applies it without asking
  (`BorgesDurableQueue.cpp:297`). `OrdinaryJumpOnlyWithConsent` is about behaviours in which
  nothing of `Rare` happened; with all of it, `JumpOnlyWithConsent` fails in this way too.
* A bookmark made before pairing has no sync id until `reconcile` has applied the inbox
  (`BorgesBookmarkSync.cpp:171`, 255). An annotation of the same place that arrives at that
  opening is added beside it under the same sync id, and the two are never merged.
* The result of `BookmarkFile::load` is ignored (`EpubReaderActivity.cpp:2661`) and its save
  removes the file before writing it anew (`PersistableStore.cpp:14`). A list that was torn
  or could not be read is reconciled as empty and saved over the file.
* A rejected event is retired like an accepted one (`BorgesSyncClient.cpp:286`); only
  `lastError` keeps the code. The device then shows a bookmark, or misses one, that the server
  does not, the outbox is empty, and no conflict is flagged. `SettledMeansSame` sets it apart
  (`rare` has "refused"). To `Outbox` a rejection is one of the two ways in which the server
  decides: its claims are about what reaches the server, not what it makes of it.
* A page of annotations is deferred and its cursor is not committed; the reader applies and
  retires part of it; it is pulled again, but only in part, so that the inbox has a gap
  (`LeavesGap`). What is applied then is not the newest part of the log: a replayed deletion
  removes the bookmark, the user adds it again and its event cannot be queued, and the
  conflict left over from the first pull gives it the newest revision. Its event overwrites
  what the server had, and that stays on the device alone. `SettledMeansSame` sets it apart
  (`rare` has "gap"); all other replays it covers.
* `readProgressInbox` returns nothing for a manual record that exists but cannot be read
  (`BorgesDurableQueue.cpp:568-573`), and `nextApplicableProgress` takes that for no record: it
  applies the newest `.accepted` event of the scan (306), although the comment at 293 says "A new
  manual request supersedes old consent for this book. It must not accidentally activate an older
  .accepted stream entry before review." With `Rarities <- OnlyUnread` in
  `MCProgressInboxReview.cfg` TLC shows it: an event is accepted, a manual request replaces it,
  and an opening that cannot read the record moves to the event without asking
  (`JumpOnlyWithConsent`). `OrdinaryJumpOnlyWithConsent` sets apart behaviours in which the
  record was unreadable.
* An unreadable manual record also turns the acceptance of an event into a rename beside the
  record (`BorgesDurableQueue.cpp:335`): once the record can be read again it decides alone, and
  the acceptance that was reported does not. `ConsentIsDurable` sets apart behaviours in which
  the record was unreadable.
* An event that cannot be read when a batch is made is passed over, and newer ones are attempted
  before it (`BorgesDurableQueue.cpp:191`). `AttemptsInOrder` is about the others; that it is
  attempted in the end is `EventuallyDelivered`.
* A directive this firmware does not know stops the loop of `reconcile`, at every opening again:
  later annotations of the book are never applied (`BorgesBookmarkSync.cpp:246`).
  `SettledMeansSame` asks for an empty inbox.
* `wifiWasConnected` is set also while the device is not paired (`BorgesSyncScheduler.cpp:39`):
  pairing after the connection starts no sync before the next connection or commit.
* When a position of book A is held and book B is opened, B is not tracked for that whole
  opening (`EpubReaderActivity.cpp:244`); `LastMovementIsKept` speaks of movements that were
  tracked.
* The flag of an explicit jump is a property of one event and may be lost when the event is
  rewritten by a later ordinary position before it is attempted
  (`BorgesReadingEvents.cpp:93`).
* `OtaBootSwitch.h:10-12` speaks of bypassing the verification of `esp_ota_*`; the card path
  does, `OtaUpdater` uses `esp_ota_begin`, `esp_ota_end` and `esp_ota_set_boot_partition`. The
  model has both paths, with the same steps on flash.

## 5. Proofs

All are checked by TLAPS for every value of the constants that satisfies the named
assumptions of the modules (`FileAssumption`, `CheckpointAssumption`, `OutboxAssumption`,
`SyncClientAssumption`, `ActivityAssumption`, `InboxAssumption`, `ReadingAssumption`,
`SchedulerAssumption`, `BookmarkAssumption`). What a theorem assumes beyond them is in its statement.

* `WritersProofs`, first part: the queue's writer. The inductive invariant adds to `TypeOK`
  what each place in `writeAtomic` knows: which of the three files exist and whether `tmp` is
  whole at the moment it is published. `NeverTorn` and `QuietFile` follow, and
  `WriterIsAtomic`: the initial state maps to the register's, and each storage call maps to
  `Begin`, `Commit`, `Return`, `PowerLoss`, `Boot` or a stutter. The one subtle step is the
  roll-back, which must not change the surviving content.
* `WritersProofs`, second part: the three writers side by side, where a step of one is a
  stutter of the others (`QueueTogether`, `PositionsTogether`, `PositionsAtomic`,
  `FirmwareTogether`). For the position writer, `PositionInPlace` says where the new position
  is at each step, `LatestInPlace` that the last one published is in `progress.bin`, or, while
  that is retired or was never put back, alone in the backup; otherwise the backup is the one
  before. `FallbackIsOneSaveBehind` follows, and the refinement of the same register.
* `WritersProofs`, third part: the firmware. `ImageInPlace`: what is about to be selected is complete.
  `SlotsDiffer`: the two slots never claim the same sequence, and only the active one is on
  trial. `SelectionStarts`: what the slots select starts, and so does what they would select
  if the new image were rejected. `RunningIsSelected`: between boots that is the running
  partition. `OneFirmwareAlways` follows; the case that needs the strengthening is the erased
  slot, after which the other one must select the running partition.
* `CheckpointProofs`. `IInv` is `TypeOK`, `SaveFollows` (the save under way is one
  generation after `state` and keeps or raises its fields) and, as long as no boot missed a
  slot, `Sighted`: the slots' generations select them, what the session knows is the newer
  slot by the wrapped comparison, and everything promised to a caller is below it. The
  arithmetic of the wrap (two consecutive generations always compare the right way) is one
  lemma; from there `IdentitiesNeverReused`, `AckedCursorIsDurable` and `CursorIsMonotone`
  follow. `OneSaveAtMost` allows boots that miss a slot, if none misses both: `SlotsHold` and
  `SessionHolds` say that the slots hold the last two records and that a save never writes
  over the record its session stands on.
* `OutboxProofs`. The invariant ties the place of the main task to the files: a marked
  event's body on the card is the body in the batch, what was posted is no longer pending,
  the server holds only what was posted, and an identity not yet reserved has no file.
  `IdentityMeansBody`, `NothingIsLost` and `RetiredForGood` follow when no write, rename or
  removal fails unnoticed (`FaultsNoticed`; an event may still be unreadable). `TypeCorrect` and `NothingVanishes` hold with every fault and
  scan limit; their invariant keeps a copy of every written event among the three files or at
  the server. `AttemptsOrdered` needs `FaultsNoticed` and `ScanListsAll`: a batch is the
  oldest part of what is on the card and could be read, what it passed over is recorded
  (`PassedOver`), and a new event is the newest.
* `OutboxProofs`, the session above. `SessionIsOutbox`: every step of `ReadingEvents` is a
  step of `Outbox` or leaves it alone, so that the theorems above hold under it
  (`SessionKeepsEvents` states one). `LastMovementKept` needs no assumption on the card. Its
  invariant says that what is held or being written is the last movement of the session's own
  book (`PositionAtHand`), that a tracked book is the one shown, that what waits for a write
  runs only when nothing is held (`ResumeWaits`: otherwise `beginBook` would put another book
  in front of a held position), and that the session's identity is the newest of all and has
  only ever been the event of this book (`NewestIdentity`, `OwnIdentity`: otherwise a rewrite
  would replace another book's last event). None of it needs an exchange to wait until nothing is
  held: the sync screen does not, and an event that is attempted meanwhile only makes the retry
  reserve a new identity.
* `SyncClientProofs`. The invariant says that during deferral every event between the
  cursor and the page's cursor is on the card, done with, not for the inbox, or still in the
  answer. `CursorIsCovered`, `PullBeforeUpload`, `DecisionsSurvive` and `DoneIsDone` follow.
* `ActivityManagerProofs`. Seen as one sequence, the stack with the current activity on
  top: who waits for a result waits for the screen right above, or for the pending one
  (`ChainInv`, `TopInv`); the mutex is held exactly during a turn of the render task, and
  only the launch of the home screen changes the screens without it, which only adds
  (`RenderInv`). `RenderedStaysAlive` and `ResultsReach` follow. `WaitShows` adds that under
  the mutex a turn shows the state it ends with, and therefore assumes
  `UnlockedChanges = FALSE`; without it finding 2 is the counterexample.

* `ProgressInboxProofs`. The record is empty without a request (`RecordInv`); what is shown,
  applied or operated on is an event or the request (`ItemsInv`); what decides where the book
  opens was taken once, and an operation removes nothing after its item (`TakenInv`, from which
  `SuggestionsKept` follows); between two removals the accepted item stays and what was granted
  is newer (`StepInv`); and what a scan finds accepted was consented to (`ConsentInv`).
  `GrantedInv` says that the acceptance reported last is what `nextApplicableProgress` would
  return if it reads the record, a greatest element, whose existence is a lemma: `ConsentLasts`,
  about behaviours in which no scan missed a file and the record was readable. `OrdinaryInv` adds
  what replays, short scans, an unreadable record and the settings screen break:
  `JumpsAreConsented`.
* `SyncSchedulerProofs`. While a part of the backoff is left, there is something to send and
  the deadline is ahead of the clock, modulo its width, by at least that part and at most half
  the width (`BackoffScheduled`). A commit meanwhile finds a deadline that is not 0 and leaves
  it; a retry whose deadline is 0 by accident is the one the claim leaves out (`hold` is 0). Then the signed comparison says that it is not reached, the
  idle poll is off as it needs an empty queue, and a connection that starts a new deadline is
  not due at once: `NoEarlyRetry`. Half the width is a real limit: a longer delay would be taken
  for one that has passed. `SchedulerAssumption` has it, and `CONNECT_DELAY_MS` above 0.

* `BookmarkSyncProofs`. `Replay` applies the inbox to a list, one annotation after the other,
  and `Without` removes the bookmarks of a mark; both are recursive functions. `Told` states
  what a replay does to the bookmarks of one mark, without order or steps: the last annotation
  that decides says what is shown, the echo of this device's own upsert shows it again where it
  is gone, a conflict only flags. It holds of every replay by induction over the log; a second
  replay of what was applied therefore changes nothing.

  Three inductive invariants, each resting on the one before:
  `TypeInv` gives `TypeCorrect`.
  `SavedInv` adds that the list in memory shows what was applied to it, whatever was queued or
  deleted by the user since (`Absorbed`), and that the list is the file once nothing is left to
  save (`Written`). What leaves the inbox is then in the file: `RetiredSaved`, as long as the
  file could be read and no bookmark was without its sync id.
  `SettledInv` names every reason why the file and the server may differ (`Fits`): something
  about the mark is still in the inbox or in the rest of the log; an event that deletes it is
  open; a conflict is flagged, or on its way; it is still to be added. It holds of the file and,
  while a reader is open, of the list with what that reader has not yet applied (`Kept`). It needs
  that what is not yet applied (`Remaining`: the inbox, and of the rest of the log what no item of
  the inbox is newer than) is always the newest part of the log (`Upper`), that a
  bookmark's event carries its base revision (`Book`), and that nothing of this device overwrites
  a remote change it has not seen, unless it deleted it first (`Waits`, `Careful`). Once all is
  delivered, pulled and applied, the flagged conflict is the only reason left: `SettledSame`.
  A page that is pulled again is applied twice, which changes nothing the second time
  (`KeptWider`). It is about behaviours without one of the `Rarities`, like the property: a
  rejected event leaves no reason in `Fits`, and a gap breaks `Upper`. Before it was
  proved, `SettledInv` was an invariant of the run, and of random runs with more marks and
  events.

Every invariant and action property the passing runs check is stated by a theorem of this
section, with the restrictions named above. Only model-checked are the liveness properties
(`EventuallyDelivered`, `CatchesUp`, `PendingIsServed`, `PollsWhenIdle`, `WaiterWakes`,
`RequestedIsDrawn`): liveness under fairness, and `ENABLED`, are out of the prover's reach.

## 6. Abstractions and limits

* The card: a storage call happens whole or fails and changes nothing; only the write of a
  `.tmp` can be cut short. `flush` and closing the file put it on the card.
* The server: it may send wrong pages and lose or delay answers; it keeps the first body it
  gets for an identity. Authentication, JSON and transport errors are one thing, an attempt
  that fails.
  In `BookmarkSync` it checks revisions: an update based on an older revision of a bookmark
  is returned as a conflict. It may refuse any event ("rejected"). Its steps, and those of the exchange, are taken while no reader
  is open; an open reader sees nothing of them, so they commute with its steps.
* Pairing only begins: a device that is paired stays paired.
* `ReadingEvents` leaves out the started, ended and page statistics events of a session.
* The bootloader selects as ESP-IDF documents it, falls back to the other partition when the
  selected image is not whole, and may reject a new image once. The validation of an image
  before it is installed is the guard that a started update has a whole source; the manifest,
  the download and the header checks are that free choice.
* Sizes are not modelled: an event over the inbox limit or a page over 14 KiB would fail
  every pull at the same place, and `CatchesUp` assumes it away.
* `nextAttemptMs == 0` and `lastSuccessMs == 0` mean "none". `millis()` plus a delay can be
  exactly 0 once in 2^32; then pending work waits for the next connection or commit, and a
  commit sets its own deadline although a retry was scheduled. The run's clock never meets it;
  the proof of `NoEarlyRetry` covers it by the definition of `hold`, which is 0 then.
* Both slots of the checkpoint unreadable: `begin` starts again from 1. Nothing is promised.
* `ProgressInbox` is about one book. Whether a position can be mapped to the local book is a
  free choice. With several interrupted clean-ups an older accepted position may be applied
  after a newer one was resolved; the consent for it was given, and no property forbids it.
* The home screen may be drawn between its launch without the mutex and its `onEnter`;
  what that would show is not modelled. `resultText` is written without a lock and read by the render
  task: a data race on a string, not modelled beyond finding 2.

### Not modelled

* Recovery selection, name resolution and trust: pure choices and chains of network
  fallbacks. The client sees a position, or an attempt that failed.
* Pairing: `request`, `pollAndClaim` and the claim retry; next in the plan.
* Directory migration: three renames at boot; next in the plan.
* Web server, WebDAV, downloads, OPDS, KOReader sync: request handlers over one transfer.
* Settings and other stores: whole-file load and save without interplay.
* HAL, main loop, input: the modelled parts see the card as calls that happen or fail; the
  loop calls them in order.
* Book parsing, fonts, graphics, dictionaries: most of the repository's lines, sequential
  transformation of data and large generated tables, outside what a model checker can say
  anything about; likewise the vendored libraries.

## 7. Plan

Done, in the order of the plan: `AtomicFile`, `Checkpoint`, `Outbox`, `SyncClient`,
`ProgressInbox`, `SyncScheduler`, `ActivityManager`, `ProgressFile`, `FirmwareUpdate`,
`Writers`, `ReadingEvents`, `BookmarkSync`; the proofs of section 5, which cover every
safety property the passing runs check.

Next, models:

1. Page statistics, session chunks and the lifecycle events of `ReadingEvents`. Claim: a
   session's statistics are not counted twice.
2. Pairing: a claim whose answer is lost, composed with `SyncScheduler`, where pairing after
   the connection starts no sync.
3. `BorgesMigration`, resumable after a power loss between the renames.
4. The storage mutex and the hand-over of the card to the USB host.

Next, proofs: those of the models above, and which of `Rare` of `BookmarkSync` its
`SettledMeansSame` could allow.
