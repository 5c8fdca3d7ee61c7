# NextKDE in TLA+

A specification of the parts of NextKDE (the KOS desktop shell for KDE Plasma
6) that keep state, share it between goroutines, sockets and processes, and
have to survive restarts. The modules are translated from the source under
`src/`, model-checked with TLC on small instances, and the properties that
matter most are proved with TLAPS for every value of the constants.

- [1. The system](#1-the-system)
- [2. Modules](#2-modules)
- [3. Runs](#3-runs)
- [4. Proofs](#4-proofs)
- [5. Where the code and its comments disagree](#5-where-the-code-and-its-comments-disagree)
- [6. What is not modelled](#6-what-is-not-modelled)
- [7. Plan](#7-plan)

## 1. The system

Four programs carry the logic; everything the user sees is QML on top of them.

| Part | State it keeps | Operations | Talks to |
|---|---|---|---|
| **kos-data-service** (Go, `services/data-service`) | one `State` under `s.mu`: desktop entries and placements, weather, activity, metrics; `state.json` and `snapshot.json` on disk | requests of connections, a 1 s settle tick, a 5 s directory reconciliation, a 10 s save and sampling tick, a directory watcher, weather goroutines | the shell and the applications over a Unix socket: a request and its reply per line, `desktop.changed` and `weather.changed` broadcast to subscribers, who then re-read the snapshot |
| **kos-platform** (Qt, `platform/src/daemon`) | reply cache, requests in flight, client buffers, D-Bus watches; keep-awake leases, each with a bus connection; a folder of pinned clipboard entries; file operations on a pool of threads | some sixty operations over a Unix socket, by helper processes or D-Bus calls | NetworkManager, BlueZ, PipeWire, KWin, Plasma, cliphist; invalidated by their notifications; the power service and the screen saver, which give out cookies and may restart |
| **AiWorkerClient** (`platform/src/ai`) inside kos-platform | a queue of two, the active request, three timers, a cooldown | `depth.generate`, `spatial.*` | the process `kos-ai-worker`, by lines of JSON on its standard streams |
| **PIM service and client** (`services/pim-service`, `shared/pim`) | a calendar, lists and a revision in memory; `calendar.ics`, `metadata.json` and the widget snapshot on disk; in the client a copy, serials and generations | mutations over D-Bus, a debounced save, reminders | calendar, tasks and the widgets, by the D-Bus signal `Changed` |

Beside them: the KWin bridge (window icons and thumbnails), ListenFree (a
music player with its own playback state machine), the settings application
with its application store, KWin effects and decorations, the QML shell.

What makes them hard, and what correctness means for each:

- **Persistence.** `persist()` is called by every handler, by the watcher and
  by tickers. It captures both documents under `s.mu`, but writes them
  outside of it, through shared temporary paths. Correct: no torn document,
  no older document over a newer one, nothing announced that a restart
  forgets, nothing served before the start-up snapshot, every change saved in
  the end.
- **Desktop icons.** Which screen owns an icon is kept by path and followed
  across renames by inode. A scan lists the names in several system calls and
  then looks at each file in one more, the user edits at the same time, screens come and go, placements race scans.
  Correct: the two copies of the owner agree, only placements move icons,
  they act on connected screens, a racing rename forgets nobody, a missed
  event is repaired.
- **Weather.** Answers come late, for locations and units no longer selected;
  the tick competes with requests under way; the state is saved in the middle
  of a request. Correct: what is shown was asked for, `loading` has a request
  behind it and ends.
- **Activity.** Two clocks, midnight, suspends, restarts, and a boot history
  folded in beside the live accounting. Correct: no time is counted twice (the
  code has three ways out, section 5), applications never outrun the day.
- **Dispatcher.** Requests for one key share one worker; clients leave or stop
  reading; notifications race workers. Correct: every request is answered
  once, one worker per key, limits hold, no stale answer after a notification.
- **Inference worker.** A timeout races the late answer, a kill takes effect
  later, an idle shutdown races a new request. Correct: an answer belongs to
  its request, every request is completed once, no idle process stays.
- **PIM service.** Events and todos are linked in both directions and mirrored
  at every edit; lists live in another file than the todos that name them; a
  save is three writes behind a debounce that each edit restarts, and a widget
  file is refreshed by a timer beside it. Correct: links and lists agree
  whatever is edited, saved and loaded (an import may split a pair or name a
  list that is gone); the widget shows nothing that
  a crash can undo; a calendar that could not be read is not overwritten;
  every edit is saved although writes fail.
- **PIM client.** Replies of an earlier service, or of an earlier request,
  arrive after newer ones; a snapshot is asked for only when a signal is newer
  than the copy. Correct: the copy catches up, and its range with it.
- **Keep-awake.** A lease holds the cookies of two services that may restart
  and give the same number to another lease; a reply may arrive after the
  lease was dropped, its client gone, or the connection closed. Correct: an
  enabled lease is held, a gone one is released, a client is answered.
- **Clipboard pins.** Three files make a pin; a failure or a crash may come
  between any two. Correct: what the list shows can be copied.
- **File operations.** A free name is chosen before it is taken; a move
  between file systems is a copy and a removal; other jobs, requests and
  programs use the same disk. Correct: nothing is lost.

## 2. Modules

| Module | Models | State | Actions |
|---|---|---|---|
| `DurableDocument` | what `persist()` promises its callers: one document that is changed, saved, shown and told of in that order | `working`, `saved`, `shown`, `told`, `up` | change, save, show, tell, stop, restart |
| `Persistence` | `persistence.go`, the start and the loop of `main.go` | memory as a generation, `persistMu`, a program counter per goroutine, both `.tmp` files, both documents, the disk's health | one per step of `persist()` and `writeJSONBytes`; `Start`, `Change`, `ChangeInMemory`, `SaveTick`, `WriteError`, `Publish`, `Crash` |
| `DesktopPlacement` | `desktop.go`, `desktop_placement.go`, the desktop requests of `protocol.go` | the directory (path to inode) and the one under it if it is a mount point, entries, placements, `state.json`, screens, `desktopMu`, the scan of its holder: positions not yet listed, names not yet looked at, what was seen | the user's create, remove, rename and link, `Remount`; `Lock`, `ReadNames`, `ReadInfo`, `FailScan`, `CommitScan`, `Assign`, `Save`, `Respond` |
| `WeatherRefresh` | `weather.go` | `s.state.Weather`, the request serial, requests in flight by stage, the saved copy | `SetLocation`, `SetUnits`, `RefreshRequest`, `StartRefresh`, `Launch`, `Forecast`, `Drop`, `Commit`, `PublishResult` |
| `ActivityLedger` | `activity.go` | wall and monotonic time of the last settle, uptime by day, today's rows, what was saved, the journal, the boots that are listed and their folding | `SettleTick`, `ActiveApp`, `Persist`, `SeedStart`, `SeedBoot`, `SeedEnd`, `Restart`; `Tick`, `Sleep`, `Reboot` |
| `ReplyCache` | the dispatcher of `PlatformServer.cpp` and the watches | requests and their replies, in-flight queues, workers, cache entries, the truth of each service and what was notified of it | `ServeCached`, `Refuse`, `Join`, `Start`, `Ends`, `Disconnect`, `Kick`, `Change`, `Invalidate`, `Tick` |
| `AiWorkerClient` | `AiWorkerClient.cpp`, its use in `PlatformServer.cpp`, the protocol of `services/ai/worker/main.cpp` | queue, active, stopping, timers, cooldown, the completions called per request in their order; the process, its job and its unread lines | `Submit`, `Cancel`, `Clear`, the timers, `Started`, `StartFails`, `Ends`, `Exits`, `Answer`, `Babble`, `Read` |
| `PimStore` | the PIM service: `PimStore.cpp` | calendar, lists and revision in memory, `dirty` and the timer, the write that comes next, the three files | one per request that edits; `TimerFires`, `WriteCalendar`, `WriteMetadata`, `WriteWidget`, `WidgetTick`, `Quit`, `Crash`, `Damage`, `Start` |
| `PimClient` | `PimClient.cpp` and the bus, composed with `PimStore` | calls and messages under way, the copy, whether a reply still counts | `SetEventRange`, `RequestEdit`; the handlers of owner changes, signals and replies; `Timeout`; the service's answers |
| `KeepAwake` | `KeepAwakeLease.cpp`, `keepawake.set` in `PlatformServer.cpp`, two services and the bus | leases with stage, cookies and mail; what each service has to handle, holds and has issued | `Enable`, `Disable`, `Leave`, the handlers of replies and owner changes, `CallTimeout`, `Delete`; `Grant`, `Refuse`, `Release`, `ServiceEnds`, `ServiceStarts` |
| `ClipboardPins` | `PlatformServerClipboardPins.cpp` | which contents have which of the three files, the request under way | one per file written or removed, `PinCrash` |
| `FileTransfer` | `PlatformServerFiles.cpp` | the disk by path, the jobs with their position, the name that a new file has chosen | one per system call of a job that others can see the effect of; `CreateChoose`, `Create`, `RenameFile`, `OtherWrites`, `FileCrash` |
| `PlatformDaemon` | the last three in one process | `part`, which of them a behaviour exercises | those of the three |

`DesktopPlacement`, `WeatherRefresh` and `ActivityLedger` save in one step.
That is the abstraction `DurableDocument` states; `Persistence` is shown to
implement it (`ImplementsDurableDocument`, checked and proved).

The `MC` modules give the constants their values. A definition named in a
comment as a *faulty variant* is a plausible bug in the definition that
follows it; the properties have been checked to tell the two apart. Variables
marked `history` record what a property refers to and enable no action.

**Abstractions.** The contents of the service state are a generation number in
`Persistence`. A file is its inode; the directory has one listing position
per path. A weather reading is the selection it was
asked for. Seconds are units of time, a day has three. A cached reply is the
version of the service state that its worker read; the queue of a key is a set,
whose requests are numbered in the order in which they joined. The rows of
applications are the set of their seconds. Requests to the inference
process are model values; the text of lines, the JSON and the error messages
are left out. An item of the calendar is its uid with its links, its list, its
parent and whether it has a reminder; titles, dates and recurrence are left
out. What a file or folder consists of is a set of things. Whether a reply on
the bus still counts, which the client decides by generation and serial, is
kept with the call. While an application is open, one kind of edit stands for
all: it sees of an edit only its revision. The three parts of `PlatformDaemon`
share no variable, so their properties are those of each alone, and a
behaviour that exercises one of them at a time shows as much as one that
interleaves them. A Go critical section or a Qt event handler is one step; what
happens outside a lock, between two events or in another process is a step of
its own.

## 3. Runs

Bounds are constants named `Max...` with a comment where they are declared.

| Run | Bounds | Why they are enough |
|---|---|---|
| `persistence` | two goroutines, three generations, one crash, one failing operation | two callers of `persist()` give every interleaving of a pair; three generations let one be saved, one be captured and one be in memory; a crash falls between any two steps |
| `desktop` | two paths, two inodes, two screens, main and two connections, one edit, three requests, one crash | rename, atomic replace, hard link and inode reuse need two paths and two inodes; an output change racing a placement needs two connections; the initial directory is arbitrary, so one edit during a scan already gives every race of a scan with an edit; two positions give a listing in two blocks with a rename between them |
| `desktop_progress` | as above with one connection and two edits, no symmetry | liveness after the last edit |
| `weather` | two locations, two units, one connection and the loop, three requests, one outage, one crash | the least in which an answer is late for the location, the units or both |
| `weather_air` | as `weather` | see section 5 |
| `activity` | three-unit days up to the ninth unit, a window of two days, one suspend, one restart or reboot, two past boots, of which two are folded (`BootLimit`); the applications are symmetric | a gap can straddle midnight, the service is installed in the middle of a day the journal knows of, the window has days to forget, the folding has a middle in which to save and crash, and after a reboot the oldest boot is beyond the limit |
| `activity_sleep` | one suspend longer than the gap | see section 5 |
| `dispatcher` | two clients, one of them slow to read, three keys of one domain, three requests, one change, one expiry, limits of two, a cache of one | a shared worker, a second key, a prefill that evicts, and every limit is reached. The limit per client equals the total here; `BoundedByLimits` is about each on its own |
| `dispatcher_stale` | as `dispatcher`, smaller | see section 5 |
| `ai_worker` | three generations, an initialization, a clear, one cancellation, two faults, a queue of two | the queue fills, a late answer meets the next request, a kill meets a new request, a clear is cancelled by its own completion |
| `pim` | two events, two todos, two lists, an import, two edits, one fault; with an application open: one range, one question (`MaxAsks`) | a pair and a second item on each side; an edit falls between a save and its timer, and a fault between any two writes; the import holds one half of a pair that the service already has. The store alone takes every edit, the open application follows plain ones |
| `platform_daemon` | two clients, two leases, one end of a service; an image and a text; two sources of one name, two slots, two jobs, one operation beside them | a cookie is given out again to the other lease; the second source needs the second slot, and both jobs can work on the same source |

The bound on operations beside the jobs of `platform_daemon` was raised to two
for the files alone, and the ends of a service to two for the leases alone;
nothing more was found.

**What they show.** *persistence*: documents are whole and never regress on any
disk; on a sound one what was announced survives a restart, the abstract
document is implemented and every generation is saved or lost in a crash.
*desktop*: owners agree in both maps and on disk; an icon with an owner
changes it by a placement only, and onto a screen connected at that moment; a
new name of a file has the default screen unless it is the only one of a file
that had one name before, so a hard link borrows nothing; and a file renamed
before a scan, or during it once the names are listed, has the screen of the
path it left. *desktop_progress*: the icons become the
files. *weather*: late answers and restarts never show what is not selected,
and `loading` ends. *activity*: a day never has more uptime than hours but
for three ways the property names, and rows never outrun it. *dispatcher*: one fate per request, one worker per key,
limits, and staleness only by a worker that a notification overtook.
*ai_worker*: own answers, each completion called at most once (the calls are
counted, whatever their outcome), nobody stranded, no idle process left.
*pim*: links agree on both sides until an import splits a pair, todos are in
lists that exist but for those an import or a start with two files of two
saves left without one, the widget file shows only what a restart would load, an unreadable calendar is
kept, every edit is saved, and an open application catches up unless its call
failed. *platform_daemon*: an enabled lease is held by both services, a lease
that is gone by none in the end, and no client waits for ever; a pin has its
data; nothing on the disk is lost.

**Exceptions.** Six of these properties name exceptions: what the code does,
at a line that can be pointed to. A history variable records when one occurs, so that
nothing else can hide behind them; each is reached in its run, and section 5
lists those that a comment or a document speaks of.

| Property | Exceptions | Recorded by |
|---|---|---|
| `RacingRenameForgetsNoOwner` | two or more edits during one scan; a rename while names are still listed; a file created during the scan; another directory mounted in place | `raced` |
| `DayHoldsADay` | a service that begins with a ledger saved in the middle of the folding, or after a reboot with one saved before the marker; a boot whose first entry cannot be read | `again`, `misread` |
| `StoreConsistent` | links, from the first import that splits a pair; lists, for each todo that an import, or a start with files of two saves, put in a list that was gone | `split`, `strays` |
| `PinsWhole` | a second pin whose description fails, a removal cut short | `half` |
| `NothingLost` | what came to a source between its copy and its removal, a file truncated by `file.create-file`, one that `file.copy` was asked to replace | `late`, `blanked`, `replaced` |
| `EnabledIsHeld` | a cookie released before the lease had handled the end of the service that gave it | `crossed` |

A split is an exception for all links that follow: the half that was left may
take the partner of another pair. A stray todo is one for itself only.

`CHECK_DEADLOCK FALSE` appears where the bounds stop the model or where the
system may rest with nothing to do.

**Fairness**, and what in the code justifies it:

- goroutines and event handlers that can run do run (weak fairness of a
  thread's steps): the Go scheduler and the Qt event loop;
- `LockPersist` and `Lock` are strongly fair: a Go mutex passes to a waiter
  that has starved for a millisecond;
- tickers tick (`SaveTick`, the refresh of `Main`, `StartRefresh(Main, ..)`,
  `Elapse`);
- requests and workers end (`RequestStep`, `Ends`): HTTP requests carry a
  timeout, helper processes a watchdog, D-Bus calls a timeout; success is never
  assumed;
- the inference process: timers fire, a start succeeds or fails, a killed
  process or one at the end of its input ends. That it answers is not assumed;
- PIM: the save timer fires and a write ends, well or not (`Save`; failures are
  bounded by `MaxFaults`, a disk that fails for ever saves nothing); the
  service answers the calls it has been sent (`Answer`), the application's
  event loop handles what arrived (`Client`), and a call to a service that is
  not running starts it (`Activate`, D-Bus activation);
- keep-awake: the event loop handles mail, fires the two-second timeout and
  deletes what `deleteLater()` left; a service handles what it was sent and is
  started again after it ended. Whether it grants or refuses is not assumed;
- the process is started again after a crash (`Start`): systemd restarts it.

No fairness is assumed of users, clients, other programs or crashes, and none is
needed for clipboard pins and file operations, which claim safety only.

## 4. Proofs

The assumptions are the named `ASSUME`s of the modules: that the constants for
"no thread", "no file" and so on are no members of the sets they complete and
differ from each other, that bounds are natural numbers, that leases, the paths
of a transfer, jobs and applications are finitely many (the arguments about
files and rows count), that a cached key and what is prefilled with it have one
domain, and that past boots do not overlap: one machine ends a boot before it
starts the next, and the journal lists them newest first. TLC evaluates them in
the runs. Each component has its proofs in a module of its own.

- `PersistenceProofs`. `IInv` says that the goroutine at a step between
  capture and unlock is the holder of `persistMu`, that a goroutine about to
  rename finds its own generation in the shared temporary file, and that
  `disk <= raw <= mem` while a document is being written. `NeverTorn` alone is
  not inductive: it needs to know whose bytes are in `.tmp`. It gives
  `TypeCorrect`, `WholeDocuments` and, with the step, `MonotoneState`. For a
  sound disk `DInv` adds that whoever is past a rename has put its generation
  on disk, and that what a goroutine owes is in what it captured; it gives
  `AnnouncementsSurvive`, `SnapshotBeforeSocket` (both through
  `AnnounceAfterDurable`) and `Refinement`: initial states map to initial
  states of `DurableDocument`, every step to a step or a stutter.
- `DesktopPlacementProofs`. Mutual exclusion by `desktopMu` of everything from
  the lock to the assignment gives `PlacementsOnConnectedOutputs`; that the
  entries were made from the placements by the same scan gives `OwnersAgree`,
  in memory and in what was saved, and with the step `OnlyPlacementsMoveIcons`.
  `RenamesKeepOwners` says for each path that a scan forgets, and whose file
  the directory still has, at which path the file is remembered and that its
  screen went with it. It needs what a scan knows while the directory changes
  under it (`RaceInv`): before any edit what was listed and seen is what the
  directory holds; after one edit each file has been seen, or will be at a
  name that is listed or still to be listed, or a name has vanished and the
  scan will fail rather than commit.
- `WeatherRefreshProofs`. The invariant orders serials: none in flight is
  newer than the current one, two requests never share one, and a request with
  the current serial asks for the current selection. From it
  `ShownWeatherIsSelected` and `LoadingIsLive`.
- `ActivityLedgerProofs`. `DaysHoldDays` counts units of time: a day has no
  more of them in the ledger than there are units of that day before the last
  settle that seeding will not credit any more (`FoldInv`). What is still to be
  folded (`ToFold`) is set aside until it is credited, and boots that do not
  overlap take different units out of it, so the journal and `settle()` never
  count one twice; the bound itself, `DayLength`, is not inductive.
  `SavedInv` keeps the same of what was saved, against the journal as a
  restart would fold it and as a reboot would, which adds this boot to it:
  that tells a start that repeats nothing from one that does, so that only
  the latter are exceptions. `JournalInv` keeps the boots in order, also
  those that reboots add.
  `RowsAreCovered` holds the rows of today against the uptime of today in
  memory and in what was saved (`RowsInv`), and needs that trimming spares
  today because no later day is recorded. `TrailingWindow` is about `Trimmed`
  alone, for every ledger: it takes the least day kept and the greatest removed
  from the well-foundedness of `<`.
- `ReplyCacheProofs`. A key is in flight exactly while its worker runs
  (`OneWorker`); every worker that no notification overtook read a version at
  least as new as the last notification, and so does every entry without a
  race (`StalenessNeedsARace`). `OneFate` counts the queues a request is in;
  the invariant says instead that the queues are disjoint, that who waits has
  no reply, and that who does not has one unless its client is leaving
  (`FateInv`), from which the count follows (`NothingLostOrTwice`).
  `BoundedByLimits` is about the cardinalities that joining, starting, storing
  and disconnecting leave.
- `AiWorkerProofs`. The queue holds requests whose completion has not been
  called, each once, and neither does the active one's have been; the pipe
  holds answers that the process gave. From the first follows
  `OneCompletion`, which counts calls, from both `OwnAnswers`: a late answer finds no active
  request of its own and ends the process instead of completing another.
  `AlwaysDue` is the safety behind `NoRequestStranded` and `IdleProcessEnds`:
  whoever waits has a watchdog, a start or the end of a stopping process
  ahead, and an idle process has its timer. It needs that only a process on
  its way out is awaited (`DueInv`).
- `PimStoreProofs`, about the store beside its client. `IInv` has four parts
  beside the types: the calendar in memory is consistent but for the splits
  and strays that occurred (`SoundMemory`), what a save has written so far is
  what is in memory (`SavingInv`), and the files are as consistent where they
  are of one save (`FilesInv`); counters bound revisions
  (`CountsInv`). Each edit is reduced to lemmas about the operators of the
  calendar, which say what linking, mirroring, merging and dropping keep. It
  gives `TypeCorrect`, `LinksAndLists`, `WidgetShowsSaved` and
  `UnreadableStays`. `NoEditForgotten`, the safety behind `EditsSaved`, is
  that a dirty calendar has the timer or a save ahead, and a clean one is the
  file's revision (`OwedInv`). `NeverBehindInSilence`, behind
  `ClientCatchesUp`, follows the bus: the messages of the running service are
  in the order of their revisions, the last owner message says that it is up,
  and if none is left, the copy is current, or a newer signal, a reply that
  counts or a question is under way, for the range as well (`NewsInv`).
- `PlatformDaemonProofs`, about the three parts of the daemon.
  *Leases*: as long as a lease has not been told that a service ended, each
  cookie it knows, or finds in its mail, was given by that service to it and to
  no other, and is held; what can end an inhibition is a message of a lease
  that is gone, about its own cookie unless it crossed the end of the service.
  That enabled leases are held is not inductive without the mail and without
  the messages under way. It gives `LeasesAreHeld`. `AlwaysDue`, the safety
  behind `AwakeSettles`, says that a client that waits has a lease that awaits
  a reply or has mail, and that what a service holds for a lease that is gone
  has the end of its connection ahead. The second needs the order of the inbox:
  the end comes behind the last request of that lease, which may still be
  granted (`LastWord`).
  *Files*: that nothing is lost is not inductive either, for two moves may owe
  the removal of the same thing. The invariant counts: a thing that is not
  forgiven stands at more paths than there are moves that have copied it and
  owe its removal. A copy adds a path with the debt, a removal takes one path
  and the debt, a rename moves a path. It gives `FilesKept`.
  *Pins*: `PinsAreWhole` needs what the request under way has written.
  `TypeCorrect` covers the variables of all three.

Every invariant that a passing run checks is a theorem, and so is every action
property and the refinement. Only model-checked: liveness under fairness
(`EventuallyDurable`, `DesktopConverges`, `LoadingEnds`,
`EveryRequestAnswered`, `NoRequestStranded`, `IdleProcessEnds`, `EditsSaved`,
`ClientCatchesUp`, `AwakeSettles`) and `ENABLED`, which are outside the
prover's reach. The theorems `LoadingIsLive`, `NothingLostOrTwice`, `AlwaysDue`
(twice), `NoEditForgotten` and `NeverBehindInSilence` prove the part of seven of
them that is safety: in no state is something waited for that nothing under way
will bring.

## 5. Where the code and its comments disagree

Each is a run whose property states the sentence, and whose counterexample TLC
finds in the model of the code.

- `weather_air`, `AirIsForSelected`: `setWeatherLocation` (weather.go 684-704)
  resets every reading but the air quality, which is "for the selected
  location" (weather.go 60-61); a refresh replaces it only if its best-effort
  reading succeeds.
- `activity_sleep`, `LongPausesIgnored`: the guard against long pauses
  (activity.go 170) compares monotonic readings, which stand still during a
  suspend, and the credited interval is made of wall-clock readings
  (172); "the sub-120s guard ignores long pauses" (166-167).
- `dispatcher_stale`, `NotifiedIsFresh`: a worker that was running when a
  notification arrived stores its older reading afterwards
  (PlatformServer.cpp 492); "the next request for that domain must observe
  fresh state" (PlatformServer.h 46-48).

Seen while modelling, without a run of their own:

- A rename while a large directory is being listed can be seen under neither
  name: the scan commits without the file and its owner is forgotten, although
  "its old identity survives" (desktop.go 97-99). Seen under both names, the
  file is taken for a hard link and the new name gets the default screen.
- "A temporarily unavailable directory is not an empty desktop" (desktop.go
  139-140): an empty mount point can be read, and does forget every owner
  (`Remount`).
- "so seeding never runs twice" (types.go 57-58): the marker is saved by the
  next save after it is set. A crash after a save in the middle of the folding
  credits the boots folded so far again, and a reboot after a save before the
  marker credits the boot that `settle()` has credited (`again`).
- A boot's first journal entry that cannot be read counts as written at time 0
  (activity.go 23-31, 44-54): only a boot that ends before it begins is
  skipped (94), so every day since 1970 is credited, of which the window keeps
  the last (`misread`).
- weather.go 854 compares with a status that line 763 has set to `loading`, so
  a retry that fails again always wakes the subscribers (the comment at
  850-853 says it does not).
- The per-client limit of copy jobs (PlatformServerFiles.cpp 181) is declared
  and never used.
- Pinning a content again whose description cannot be written removes its data
  and leaves the earlier description in the list, under the comment "Never
  leave a half-written pin behind" (PlatformServerClipboardPins.cpp 131). The
  history variable `half` of `ClipboardPins` records it.
- `file.create-file` opens the name it chose with truncation
  (PlatformServerFiles.cpp 364); a file that took the name in between is
  emptied (`blanked` in `FileTransfer`).
- "A new service must not receive" the cookie of an old one
  (KeepAwakeLease.cpp 29) holds once the change of the owner has been handled;
  a release sent before it can reach the new service and end the inhibition
  of another lease that was given the same number (`crossed`). The enabled
  client of a lease that is invalidated is not told.
- A `metadata.json` that cannot be read, or has another schema version, is
  replaced by the defaults at the next save, where docs/PimArchitecture.md
  69-71 says that the service becomes read-only.
- A crash between the two commits of a save leaves todos in lists that the
  other file does not know (`strays`) and a revision that is given out again.
- `updateTodo` refuses a todo as its own parent, but not a longer cycle.
- A mutation that starts the service may be reported as failed although it was
  applied, because the change of the owner expires its reply
  (PimClient.cpp 241); after a snapshot has timed out, a successful mutation
  shows the old copy as connected again.

## 6. What is not modelled

- **Power loss.** A crash is the end of the process. Without `fsync` a power
  loss may leave an empty file; the model keeps what the kernel was given.
- **Two instances** of the data service racing for the instance lock.
- **Clocks that step back**: the activity of a day already closed, a weather
  back-off that is postponed by the step.
- **Units of saved locations**: their summaries keep the old unit until the
  next refresh; the model carries them and claims nothing of them.
- **Framing and codecs**: partial lines, JSON, socket deadlines.
- **Synchronous platform operations** (bluetooth, night light, brightness).
  They block the event loop, so no event falls between their reading and their
  store. The sixty operations themselves have no state but the cache.
- **Oversized output** of the inference process, which is handled like any
  other broken protocol, and the inference itself.
- **QProcess delivery order.** Qt reads the rest of a process's output before
  it reports the end; `Finished` allows it to be lost, which is more than the
  code can meet.
- **Reminders** of the PIM service and the layout of its snapshot; the text of
  titles, dates and recurrence.
- **The queue of copy jobs**: a request that waits or is refused touches
  nothing. QFile::rename's own copy between file systems is the copy of
  `moveOrCopy`; listing, trash, opening and previews only read or start
  helpers.
- **Symbolic links.** A link in a copied folder is one of the things it
  consists of, and is copied as a link (PlatformServerFiles.cpp 124-135). That
  `isDir()` follows a link before the removal (169) is left out: `cleanPath`
  resolves the source first (PlatformPaths.cpp 33-35), so only a source that
  becomes a link meanwhile would meet it.
- **Listing positions.** A rename or creation puts a file at the position of
  its path; the kernel may put it at another, which is more ways to be seen
  twice or not at all, and these are exceptions of the property already.
- **Clipboard history**, which is cliphist's.
- **A bus connection that cannot be opened** for a lease: it is removed in the
  event that made it.
- QML presentation, KWin effects, online catalogs, packaging: see the
  components in `PROJECT.json`, each with its reason.

## 7. Plan

Done: persistence with its abstract document, desktop icons, weather,
activity, the dispatcher, the inference client, the PIM service with its
client, keep-awake leases, clipboard pins and file operations, and the proofs
of section 4. In order of what can go wrong and is hard to test, there remain:

1. `WindowMedia`: the icon ticket and the thumbnail queue of the KWin bridge.
   No answer for a window that is gone, or for an older state of it, is shown;
   the queue of captures drains.
2. `Playback` (ListenFree): generations of playback requests against late
   media events. An event of an earlier track never moves the current one.
3. `AppTransactions` (settings): one package operation at a time, its outcome
   reported once.
4. `DockReveal` and `NotificationStack` (shell): timers against pointer and
   window events.
5. Reminders of the PIM service: each is shown once, across restarts and edits
   of the item it belongs to.
6. Proofs: that the holder of `persistMu` and of `desktopMu` is always at a
   step that can be taken, and that what an icon lacks is in the directory for
   the next reconciliation to find, which is the safety behind
   `EventuallyDurable` and `DesktopConverges`.

Properties that only restated a step (a document is whole, a scan invents no
owner, a queue is in order, only days outside the window go) made way for
those about the PIM service and the platform daemon; `WholeDocuments` and
`TrailingWindow` are theorems.
