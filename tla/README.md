# A TLA+ model of tornas

tornas is a single-process media server: it downloads movies as torrents
(through the librqbit library) within a disk budget, catalogues them in SQLite,
and serves them to players. This directory holds TLA+ modules that model it, TLC
configurations that check them on small instances, and TLAPS proofs.
Paths below are relative to the repository; `engine/` means
`crates/tornas/src/engine/`.

## 1. Inventory

| Component | Code | State | Operations | Interacts with |
|---|---|---|---|---|
| kill switch | `engine/pause.rs` | `Engine.pause`, `pause.json` | `pause_all`, `resume_all`, `apply_pause`, `load_pause` | add_lock, queue, every torrent |
| disk watch | `engine/disk.rs` | `Engine.disk_missing` | `check_pause` (every 5 s), `pause_for_disk` | kill switch, queue, systemd |
| download queue | `engine/queue.rs` | none of its own (torrents paused or not) | `balance_queue`, completion watchers | kill switch (reads), catalog, librqbit |
| adding and removing | `engine/add.rs` | none of its own | `add_movie`, `remove_movie` | add_lock, TMDB, librqbit, catalog, eviction |
| torrent reload | `engine/limits.rs`, `engine/trackers.rs` | per-movie limits | `set_movie_limits`, `reannounce_active`, `reload_torrent` | librqbit, catalog |
| eviction planner | `media_catalog/eviction.rs`, `media_catalog.rs` | none (pure) | `plan`, `candidates`, `is_protected` | called by the engine |
| eviction, sweep | `engine/eviction.rs` | none of its own | `ensure_space`, `evict`, `sweep_forever` | planner, librqbit, catalog |
| catalog | `media_catalog/orm/*` | tables movies, torrents, events | one SQL statement per method | everything |
| session, reconcile | `engine/session.rs` | the librqbit session on disk | `start`, `reconcile`, shutdown | all of the above |
| stall detection | `engine/stall.rs` | `progress_seen` | `evict_stalled` | sweep, eviction |
| tracker feed | `trackers.rs`, `engine/trackers.rs` | `TrackerState`, `trackers.json` | `refresh`, `merge`, `current` | reload |
| service runtime | `crates/service`, `server.rs` | tasks, token, timers | `run`, signals, reload, shutdown hooks, watchdog, `restart_me` | systemd, engine |
| mount signs | `utils/mount.rs` | none (reads mount tables and `/sys`) | `data_disk_ok`, `host_has_disk`, `check_mount` | disk watch |
| HTTP API, middleware | `http.rs`, `http/*` | none | routes, address and token rules, handlers | engine |
| configuration | `config.rs`, `config/*` | options | file, environment, `config check`, `start` | all |
| Stremio add-on, DLNA | `adapters/*`, `crates/stremio`, `crates/dlna` | none | catalogue pages, folders, details, streams | catalog, session |
| metrics, event log, CLI client, TMDB, mDNS | the rest | counters, a ring of events | read-only or I/O | engine, catalog |

Every handler is an async task on a multi-threaded runtime. One lock,
`Engine.add_lock`, is held by `add_movie`, `pause_all`, `resume_all`,
`pause_for_disk` and `set_movie_limits`. `remove_movie`, the sweep,
`reannounce_active`, `balance_queue`, the completion watchers and streaming run
without it. HTTP handlers are not spawned, so a client that hangs up drops the
handler at whatever `await` it has reached.

What is hard: the pause is read at one moment and acted upon after several
awaits; the catalog, the session and the files change one after the other and a
crash may fall in between; the disk may vanish and come back at any time; a plan
is stale when it is executed; refreshes, reloads, signals and timers overlap; and
players hold on to listings that change behind them. `PROJECT.json` lists these hazards line by line
with the properties that catch them.

## 2. Modules

| Module | Models | Granularity |
|---|---|---|
| `KillSwitch` | what the kill switch promises: the abstract specification `PauseSwitch` implements | one step per change of the pause |
| `PauseSwitch` | kill switch, disk watch, queue, completion watchers, and how adds, reloads and restarts act on them | one action per stretch between two awaits |
| `EvictionPlan` | the planner and `MediaCatalog::plan` | pure operators |
| `Library` | catalog, session, disk; add, remove, evict, sweep, stream, reload, complete, crash, reconcile | one action per stretch between two awaits or two store calls |
| `StallWatch` | `evict_stalled` and its progress clock | one tick per sweep interval |
| `TrackerRules` | tracker lines: normalisation, block rules, merge, cap | pure operators |
| `TrackerFeed` | refreshes, sources, cache file, staleness, re-announcing | one action per fetch, commit and re-announce |
| `ServiceRuntime` | one process under systemd: readiness, signals, reload, hooks, deadlines, HTTP drain, watchdog | countdown timers |
| `MediaSurface` | the Stremio catalogue, the DLNA folder, streams and PATCH over a changing library | one action per request or page |
| `HttpGate` | the HTTP layers and what each route answers | pure operators |
| `ServerConfig` | the TOML file, the environment, their combination at start, and `config check` | pure operators |
| `DataDisk` | what is concluded from mount tables and `/sys/dev/block` | pure operators |
| `Rules` | a question to one of the pure modules, its answer, and what is promised of it, stated without the algorithm | one step per question |
| `PauseSwitchProofs`, `LibraryProofs`, `StallWatchProofs`, `ServiceRuntimeProofs`, `RulesProofs`, `TrackerFeedProofs`, `MediaSurfaceProofs` | the theorems about each | |
| `RuleLemmas` | lemmas: sums and folds over finite sets, what a plan returns, what a merge returns | |
| `MCPauseSwitch`, `MCLibrary`, `MCStallWatch`, `MCTrackerFeed`, `MCServiceRuntime`, `MCMediaSurface`, `MCRules` | instances for TLC | |

`Library` extends `EvictionPlan`, `TrackerFeed` extends `TrackerRules`,
`ServerConfig` extends `HttpGate` and `TrackerRules`, and `Rules` extends all the
pure ones. `PauseSwitch` and `Library` are
two views of the same engine: the first knows which torrents run and abstracts
the catalog to the set of rows, the second knows the catalog, the session and the
disk and leaves out whether a torrent is paused. The handlers they share
(`add_movie`, `set_movie_limits`, `reannounce_active`, `watch_completion`,
`start`) appear in both, each with the part of their effect its variables can
tell. `PauseSwitch` takes the disk's presence as a fact that changes; `DataDisk`
is how the code arrives at it.

### State and code

`PauseSwitch`: `pause` is `Engine.pause`, `file` is `pause.json`, `diskMissing`
is `Engine.disk_missing`, `lock` is the holder of `add_lock`; `rows`, `loaded`,
`running`, `checking`, `finished` and `errored` are sets of torrents, numbered
in the order the queue sorts them. `pc`, `work`, `slot` and `flag` are each
task's position and the locals it carries over an await: the handles or rows
still to visit, the queue slots handed out, and the one boolean it read earlier
(`ok`, `was_paused`, the `paused` option). The completion watcher of a torrent
is the process with that torrent's name. `disk` has a third value `"host"` for a
disk that is mounted again on the host but not in the private mount namespace
that systemd gives the service; only a restart brings it back. A reload is split
at its awaits: what it reads (`is_paused`), `session.pause`, `session.delete`, the
add and the wait for its check are steps of their own, and a client may hang up at
any of them. `wanted` and `cut` are history variables: the pause last granted to a
caller and not lifted since, and the torrents whose reload a hang-up cut off before
their completion watcher was attached.

`KillSwitch` has only a clock, whether a server runs, the pause in force and the
saved one; `PauseSwitch` maps `now`, `up`, `pause` and `file` to them.

`Library`: `movie` and `row` are the two tables, `session` the torrents librqbit
holds, `data` those whose file is on disk, `watcher` those with a completion
watcher; `req`, `todo` and `victim` are what a task carries over an await.

`StallWatch`: `seen` is `Engine.progress_seen`, `queue` the stalled downloads the
running sweep has still to evict, `missing` is `disk_missing`. A torrent is
`"unloaded"` when its row has no handle: the sweep passes over it and keeps its
entry. Ages stop counting
at the limit they are compared with, so time is not bounded. `idle` and `rewound`
are history: what really happened to a torrent, beside what the entry says.

`TrackerFeed`: `feed` is `TrackerState`, `cache` is `trackers.json`, `refresh`
each refresher's position and what it has fetched, `torrent` and `holds` one
public torrent and the list it was given. `Caller` says who runs a refresher: the
loop, SIGHUP, which re-announces whatever `reannounce_active` says, or a request,
whose client may hang up. A re-announce passes over a torrent that is paused, ends
at once if the server is paused, and ends for every later torrent at the first
reload that fails; `skipped` is the history of a torrent one of these happened to.

`ServiceRuntime`: `timer` holds every `sleep`, `timeout` and interval of the
process; `handler` is the signal task, `main` is `Service::run`, `ran` the
shutdown hooks that have finished, `http`, `ready`, `alive` and `wd` the tasks;
`sd`, `sincePing`, `sinceTerm` and `exit` are systemd's side (unit settings
`WatchdogSec` and `TimeoutStopSec`). `thread` is the blocking-pool thread of a
probe, which the runtime waits for when it is dropped.

`MediaSurface`: `movies` is the movies table (a title stands for all a search looks
at, the genres too), `rows` the torrents table in insertion order, with the second
each was added at, `loaded` the session, `adding` an add between its two writes,
`player` a client and what it has been told, `patch` what each PATCH read before it
waits for `add_lock`. `asked` and `clean` are history, per torrent: the limits the
requests asked for, and whether none overlapped another. A movie's newest torrent
is the one with the latest second; of a tie SQLite gives the row it scans first.
An info hash belongs to one movie.

### Abstractions

- Movies, hashes and requests are numbers and model values. Validation, TMDB and
  metadata lookups of an add succeed or fail, whichever comes first.
- Time is a counter; `Tick` may happen at any moment. A download of `Library`
  writes its file in one step, and its video file is the whole torrent.
- librqbit is external: it refuses to pause or unpause a torrent it is checking
  or that is in error; deleting a torrent invalidates its handles; on restart it
  restores any subset of its torrents as running.
- The events log, metrics and log lines are left out: no code reads them back to
  decide anything.
- `PauseSwitch` has no removal: a torrent that is gone is one the loops skip, as
  with a failed reload, which is modelled.
- Writing `pause.json` while the disk is gone but not yet noticed goes to the
  bare mount point, so the data disk keeps its old file. A failed write makes
  `pause_all` return an error with nothing changed.
- The re-announce pass of `Library` visits the rows in any order: `list_torrents`
  has no ORDER BY.
- `TrackerFeed` takes the feed to be enabled; with `enabled = false` it never
  refreshes. A tracker line is a record of scheme, host labels, port and path; the
  conversion to lower case, the default port and the default path are modelled. A
  reload that a limits change makes is a torrent that leaves and comes back.
- `ServiceRuntime`: hooks, reloads and tasks without a timer take any time,
  possibly for ever; a hung daemon may recover. A disk call that hangs holds up a
  probe. In the code some disk calls run on the runtime's own workers
  (`engine/disk.rs:25`, `server.rs:189`) and can hold those up too, if as many hang
  at once as there are workers: that the tasks are polled while the runtime is up is
  an assumption. Blocking work other than the probe delays the drop of the runtime
  in the same way as the probe.
- `HttpGate`: addresses are named networks, with IPv4-mapped IPv6 as a form of
  the same network; a path is matched as a whole; bodies are the fields that
  decide the outcome. `X-Forwarded-For` is a sequence of header lines, each text or
  not: as in the code, only the first line is read, and one that is not text counts
  as absent. A connection may have no peer address. What a proxy makes of the lines
  it receives is its own affair: the property is about a proxy that appends to the
  line there is, not about one that adds a line of its own after it.
- `ServerConfig`: the settings that can stop a start or let nobody in, where the
  file is found (`TORNAS_CONFIG` or the default places; a blank value counts as
  none), and whether the check could run its value checks. The default places are
  the same for the check and the server; run by users with different home
  directories they may not be.
- `MediaSurface`: a failing read of a listing is modelled. One of `entry` answers as
  if the movie were not there, and `ShownResolves` is about reads that succeed. A torrent that an add cut off by a hang-up leaves in
  the session without a row is a matter of `Library`.
- `DataDisk`: devices are major and minor numbers; a disk that is plugged in again
  has a new number, because its old mounts hold the old one.

## 3. Runs

Every run finishes within four minutes with two workers; the bounds are named in
each `.cfg`.

| Run | Result | Question |
|---|---|---|
| `pause_switch` | holds, 2.2 M states | types, adds against pauses, persistence of the disk's pause, the pause's window, and that the whole implements `KillSwitch`: two concurrent requests, one torrent, a disk that vanishes, crashes |
| `pause_restart` | holds, 2.4 M | with the disk always there, a granted pause survives crashes; no step starts a finished torrent that is loaded and paused, while limits reloads, re-announces and disconnects interleave |
| `pause_liveness` | holds, 0.56 M | whatever raced the pause is paused again; the disk's pause lifts; a finished torrent stops, whoever hangs up, unless its own reload was cut off |
| `timed_pause` | holds, 0.5 M | a timed pause ends, under systemd with a disk that vanishes (so that `restart_me` happens) |
| `queue_liveness` | holds, 0.35 M | the queue settles at its limit and moves (two torrents, one slot) |
| `library` | holds, 1.6 M | types and foreign key, the catalog stays within the budget, the next start repairs what races, store errors and crashes left |
| `rules` | holds, 0.64 M | plans, merged tracker lists, requests, configurations and mount tables against independent statements of what is promised |
| `service` | holds, 0.5 M | shutdown within the deadline, hooks in order, READY before STOPPING, and a watchdog that kills the hung and only the hung |
| `trackers` | holds, 1.3 M | no stale tracker is served whatever refreshes overlap or fail; active torrents follow the list unless a re-announce passed over them, failed before it reached them or was hung up on |
| `stall` | holds, 0.9 M | what is evicted as stalled was idle; what is dead is evicted |
| `surface` | holds, 3.0 M | a player that pages sees everything unless an entry went or moved or the store failed, what it is shown resolves; PATCH changes what it names |
| `library_session` | violated | removing a movie during its add leaves an uncounted torrent, and the budget is exceeded |

`library` lets librqbit fail to delete a torrent during an eviction, but not
during `reconcile` (`OrphansStay = FALSE`): the code only logs that failure, and
an orphan then stays until the next start.

**Bounds.** The races here are between two or three tasks over one or two
torrents. One torrent is enough for a pause, a reload and the queue to disagree
about it; two torrents and one slot are the smallest case in which the queue
must choose. Two requests, the watch and the world give every pair of handlers.
`MaxPause = 1` with durations 0, 1 and 2 covers both ends of the legal range.
In `Library` a torrent of size 2 and one of size 1 in a budget of 2 make one
evict the other; two instants of the clock and a grace of 1 give protected and
unprotected movies. In the planner, `Word = 16` with an incoming size of 15
covers the wrap of a 64-bit sum. `StallWatch` has two torrents, because an
eviction of one happens while another is waiting to be evicted; a timeout of two
ticks lets an entry be renewed, kept and expire. `TrackerFeed` has two refreshers,
two sources and a clock of three instants, so that a list is fresh, at its limit
and stale. In `ServiceRuntime` the times keep the order of the real ones
(readiness and HTTP grace < deadline 25 s < stop timeout 30 s < watchdog 90 s);
the probe period is half the watchdog's interval. `MediaSurface` has pages of one
entry, two movies, two torrents of one of them and two titles for each, so that an
add in the middle of a walk can move an entry over a page's end. Its requests for
limits are explored on the movie with two torrents alone, with two seconds for the
clock, and its players on torrents of one second (`Apart` in `MCMediaSurface`): the
limits depend on no title, and pages on no second. The view `Watched` drops
what a player was told once the properties say nothing of its walk. `MCRules` enumerates all inputs
of each kind: libraries of up to three movies, lists of up to three lines, every
route and method, up to two lines of `X-Forwarded-For`, files that are wrong in one
respect with two lines of environment,
up to five events of a disk.

**Fairness.** tokio's mutex is first-come first-served, so a task that waits for
`add_lock` gets it if the lock keeps being released: strong fairness on the
steps that take it, for the requests and the watch. Every runnable task is
polled again: weak fairness on the loops' steps. The pause watch ticks every 5
seconds: weak fairness on its steps. librqbit ends every check. In
`ServiceRuntime` time passes, timers that are due fire, and ready tasks are
polled; `select!` picks a ready branch at random, so a SIGTERM that is ready again
and again is taken (strong fairness), and a reload ends. Nothing is assumed of
hooks, tasks and the daemon's recovery. In `StallWatch` time passes, the sweep
runs, and its evictions are attempted again; an eviction that is possible again
and again succeeds (strong fairness per torrent). Nothing is assumed of callers,
of the disk, of the clock of `PauseSwitch` or of crashes. That clock is bounded,
so `TimedPauseEnds` speaks of a pause that has expired, and the liveness
properties exclude a process that stays down or a disk that keeps vanishing.

**Mistakes.** Beside some definitions stands a variant marked as a mistake (a
dropped guard, a missing reset): replacing the definition by it makes the
property it is listed with in `PROJECT.json` fail, so no property holds by the
shape of the model.

### Further counterexamples

These configurations each check one sentence of the repository against what the
code does, and TLC finds a counterexample. They are kept so that the behaviours
can be replayed (`tlc -config X.cfg M`) and turn into passing runs if the code or
the sentence changes. `library_session` above is the one with the gravest
outcome, and is therefore among the runs.

| Configuration (module) | Property | Sentence | What happens |
|---|---|---|---|
| `MCQueueHangup` (`MCPauseSwitch`) | `FinishedAlwaysStop` | `engine/queue.rs:2` "finished ones stop unless `--keep-seeding` is set" | `set_movie_limits` runs in the request's future: a client that hangs up while `reload_torrent` awaits the add or the check (`engine/limits.rs:60-68`) drops it before the completion watcher is attached; the torrent runs on, and when it is finished nothing stops it until the next start, because the queue never pauses a finished one (`engine/queue.rs:110`) |
| `MCTrackerOutage` (`MCTrackerFeed`) | `OutageKeepsList` | `trackers.rs:414` "keep the previous list for this source, if any, so one outage doesn't shrink the set" | a failed source contributes nothing to the merge: if another source answered, its trackers leave the list, and with it the active torrents |
| `MCPauseRestartDisk` (`MCPauseSwitch`) | `PauseSurvivesRestart` | `engine/pause.rs:135` "persisted so a restart or power cut mid-pause stays paused" | a pause granted while the disk is missing is kept in memory only |
| `MCResumeDisk` (`MCPauseSwitch`) | `ResumeNeedsDisk` | `README.md:180` "**Resume** is refused until the disk is back" | a resume that waited for `add_lock` lifts the pause with the disk missing: the check was before the wait |
| `MCLibraryGrace` (`MCLibrary`) | `ProtectedNotEvicted` | `README.md:11` "Movies watched within `--stream-grace` are never evicted." | a movie that starts streaming after the plan was made is evicted |
| `MCLibraryComplete` (`MCLibrary`) | `CompletionRecorded` | `media_catalog/store.rs:42` "`None` while still downloading" | a torrent that completes before its row is inserted is never marked complete |
| `MCServiceStop` (`MCServiceRuntime`) | `StopTimeoutNeverHit` | `crates/service/src/lib.rs:249` "so a supervisor's stop timeout is never hit" | a reload in progress delays SIGTERM, or the dropped runtime waits for a probe |
| `MCServiceReady` (`MCServiceRuntime`) | `ReadyMeansBound` | `crates/service/src/lib.rs:128` "once the service is up (the HTTP listener is bound)" | readiness is a fixed delay: READY is sent before a slow bind |
| `MCTrackerReapplied` (`MCTrackerFeed`) | `ReappliedOnChange` | `README.md:126` "re-applied to downloads still in progress when it changes" | a torrent that is being added or is paused during the re-announce keeps the old list, as does every torrent after the first whose reload fails, and all that are left when the client of `POST /api/trackers` hangs up |
| `MCStallRewound` (`MCStallWatch`) | `OnlyIdleIsStalled` | `README.md:181` "A download with no progress for `--stall-timeout`" | progress that a re-check took back counts as none until it passes the old mark |
| `MCConfigCheck` (`MCRules`) | `CheckPredictsStart` | `config/check.rs:1` "the same way the server reads them" | tracker settings in the environment are not checked and stop the start; `TORNAS_CONFIG` may name a file that is not the one checked, or not there; and the value checks are skipped with a warning when the child process cannot be run |
| `MCConfigReachable` (`MCRules`) | `StartedIsReachable` | `config/check/file.rs:81` "so nothing could reach the server" | an allow list of blank entries is not empty, and lets nobody in |
| `MCDiskBelow` (`MCRules`) | `ReturnIsNoticed` | `README.md:180` "under systemd, where the service cannot see new mounts, the server restarts" | with a data directory below the mount point nothing is mounted exactly there, so the return is not noticed |
| `MCPatchOverlap` (`MCMediaSurface`) | `PartialUpdate` | `http/api.rs:258` "Partial update." | two PATCHes of different fields that overlap: the second writes back what it read before the lock |
| `MCShownTwice` (`MCMediaSurface`) | `EveryShownResolves` | `media_catalog.rs:182` "One fully-downloaded movie by IMDb id" | a movie with two torrents is listed twice, and both lead to the newer one |

`DiskVerdicts` leaves out filesystems without a block device (major number 0):
`device_present_in` holds them to be always present, so a stale mount of one that
cannot be read leaves `host_has_disk` true and the server restarts again and again.

## 4. Proofs

`PauseSwitchProofs` proves, for every number of torrents, requests and
announcers, all durations and limits, and with the disk and the clients as
unreliable as the constants allow:

- `TypeCorrect`: `Spec => []TypeOK`. Not inductive alone: re-adding a torrent
  keeps `loaded` within `rows` only if every loop visits torrents with a row
  (`WorkInRows`), and a start leaves errored torrents running only if nothing
  runs while the process is down (`DownIsQuiet`).
- `DiskPauseStaysInMemory`, `PauseWindowHolds`: from `SwitchInv`, which says of
  the pause in memory *and* of the one on disk that it began in the past and ends
  within its window: a start turns one into the other. `SwitchWriters` first
  shows that six kinds of steps write the switch at all.
- `SwitchImplemented`: `Spec => Switch!Spec`, the refinement of `KillSwitch`. The
  steps that write nothing of the switch are stutters (`SwitchWriters` again); each
  of the others is one abstract step. A grant is an abstract grant because its
  duration was checked before the wait for the lock and the end is computed after
  it (`LegalEnd`, `GrantStep`); `SwitchRefines` combines them.
- `PauseStartKept`: an action property; a start cannot replace a pause, since
  none is in force while the process is down.
- `AddsExcludePauses`: `NoAddWhilePaused` is inductive given the types; whoever
  pauses finds the lock free, so no add is under way.
- `FinishedTorrentsStayPaused`: an action property; no step of a running process
  starts a finished torrent that is loaded and paused. Needs `ReloadInv`, that a
  torrent taken out for a reload is not loaded and has one reload only. It says
  nothing of the torrent while it is out: that it stops again is `FinishedStops`,
  which is model-checked.
- `GrantedPauseSurvives`: under the assumption that the disk is never pulled
  (without it the property is false, `MCPauseRestartDisk.cfg`), from
  `RestartInv`: the file is the last granted pause, and memory agrees with it
  unless it has expired.

These proofs use the constants' assumptions `TorrentsAssumption`,
`ProcsAssumption` and `TimeAssumption`.

`LibraryProofs` proves, for any torrents, movies, tasks, sizes and clocks and from
`LibraryAssumption` and `NoRowAssumption`:

- `LibraryTypeCorrect`: `Spec => []TypeOK`, with the foreign key and the
  completion watchers. What an add writes after its awaits is well-typed only
  because it carries its movie and torrent through them (`AddCarries`), which in
  turn needs that each kind of task keeps to its own steps and leaves nothing
  behind when it ends (`Roles`): a removal and an eviction of an add both pass
  through `forget` and are told apart by the request they carry.
- `AddsAreSerialised`: `Spec => []OneAdder`. `OneAdder` alone is not inductive: an
  add at `forget` is not among its steps and would lose the lock unseen, so
  `AddCarries` covers it.
- `CatalogWithinBudget`: `Spec => []BudgetKept`, as long as no two limits add up to
  2^64 (`NoOverflow`). The catalog alone says nothing about an add that has its
  plan and is evicting: `BudgetInv` therefore adds `HasRoom`, that the rows left
  when the planned evictions are done and the incoming torrent fit the budget. It
  is kept because nobody else inserts a row while the add holds the lock, and
  removals and sweeps only take rows away. `PlanGranted` gives it at the start.
- `StartReconciles`: the action property `RestartHeals`, under the same hypothesis
  and where the session can delete a torrent that has no row
  (`OrphansStay = FALSE`; otherwise an orphan is left until the next start).

`StallWatchProofs` proves, for any torrents, timeouts and sizes, from
`StallAssumption`:

- `StallTypeCorrect`: `Spec => []TypeOK`; a torrent in the session is finished
  exactly when all of its data is there.
- `StalledAreIdle`: the action property `StalledMadeNoProgress`, from `EntriesHold`:
  unless the progress was rewound, an entry is a lower bound of the progress, and
  while the two are equal the torrent has been idle for at least the entry's age.

`ServiceRuntimeProofs` proves, for all deadlines and intervals with
`TimesAssumption` (all positive, the deadline below the stop timeout, a watchdog
interval of at least 2), from one inductive invariant `SafetyInv` =
`TypeOK /\ ShutdownInv /\ TermInv /\ HooksInv /\ ReadyInv /\ HealthInv`:

- `ServiceTypeCorrect`, with the hooks run in reverse order of registration;
- `ShutdownIsBounded`: the hard timer and the time since the token fired always
  add up to the deadline (`ShutdownInv`);
- `OthersStopInTime`: a SIGTERM that no reload holds up fires the token in the
  same tick (`TermInv`), so the deadline comes before systemd's timeout;
- `CleanExitsRanHooks` (`HooksInv`), `ReadyComesFirst` (`ReadyInv`: the readiness
  task is off before a hook runs);
- `WatchdogSparesTheHealthy`: while the daemon is well, the time since the last
  ping and the time to the next probe's end stay within the interval (`HealthInv`).

`RulesProofs` proves the promises of the pure rules for every question that
`Rules` assumes something of: any library, any lists and settings, any request,
any history of the disk (`PlanAssumption`, `MergeAssumption`, `RequestAssumption`,
`ConfigAssumption`, `DiskAssumption` say of which parts a question is made; TLC
evaluates them on the instance). `RulesInv` says that an answer is what the rule
gives for the question; the rest is about the rules:

- `GrantedPlanMakesRoom`, `PlanTakesLeastRecentlyUsed`, `PlanRefusesTheImpossible`:
  from `PlanGranted` and `PlanRefused` of `RuleLemmas`. The planner walks
  the unprotected movies in order and stops when enough is freed; the lemmas say
  that what it has taken is a prefix of that order, that its count of freed bytes
  is the sum over the prefix, and that the prefix is the shortest that suffices.
  Sums wrap at `Word` in the code; a sum that wraps is one the earlier comparison
  with the budget has refused.
- `MergeNamesOnce`: from `MergeHolds` of `RuleLemmas` (the list holds what
  the lines add, each once, cut at the cap) and `SameForm` (two lines have one
  canonical form exactly when they name the same tracker, default ports and paths
  included).
- `AccessIsGuarded`: the address that decides is the peer's, or, behind a trusted
  proxy, the last hop of the header's first line that is no trusted proxy. Further
  lines, hops in front of an untrusted one, and the whole header from a peer that is
  no proxy change nothing; every way to a handler that writes passes the token check.
- `CheckedConfigStarts`: what `config check` and the start read from a file and an
  environment is compared setting by setting. Its hypotheses are what the code does
  not ensure: the file checked is the one `TORNAS_CONFIG` has the server read, the
  value checks ran, and no tracker setting is in the environment
  (`MCConfigCheck.cfg` shows each to be needed).
- `DiskSignsRight`: over histories of any length, from what every event keeps of
  the mount tables (a stale mount holds a device number that is no longer in use).

`TrackerFeedProofs` proves, for any sources and lists, any number of overlapping
refreshes and any limits, from `FeedAssumption` (what the configuration is made of):

- `FeedTypeCorrect`: `Spec => []TypeOK`, from `Kept` (the types, and what is said
  below) and `OneReload`: a torrent is out of the session exactly while one refresh
  is putting it back.
- `NothingStaleServed`: `Spec => []StaleNeverServed`. The invariant has to say what
  a list means when it is not the one in force. `Sound` says it of the feed in memory
  and of the cache file (a start turns one into the other): what it lists beside the
  static trackers was listed by a source since the time the list bears. `Listed` says
  it of what a refresh has fetched, against the time the refresh began, which is the
  time its commit will bear. `ListedOrStatic` carries one over to the other: the cap
  of the merge can keep a static tracker out but never lets in one that the static
  list alone would not hold, so what a merge holds is a fetched tracker or static.
  `EmptyMerge` is for a commit that fetched nothing.
- `TorrentsFollowList`: `Spec => []ActiveFollowsList` when every refresh re-announces,
  that is when `reannounce_active` is set or all of them are SIGHUP's (otherwise the
  property is false). It speaks of a torrent that was given its list while the list
  was fresh and that no re-announce since has passed over, failed before or been
  hung up on. `Followed` drops the condition that no reload is under way: a torrent
  that is being reloaded has been given the list already.

`MediaSurfaceProofs` proves, for any library, titles, page size, searches and number
of requests, from `SurfaceAssumption`, with one inductive invariant `SurfaceInv` =
`Kinds /\ Apart /\ Walks /\ LimitsAsAsked /\ Unraced`:

- `SurfaceTypeCorrect`: `Spec => []TypeOK`, with one row per info hash (`Table`) and
  every row's movie in the movies table.
- `PagesMissNothing`: `Spec => []WalkSeesAll`. `SameView`: if nothing changed, the
  player has the first `skip` entries of what it asked for. `Reaches`, for a library
  that changes: a movie the player is to see is one it has seen, or has a torrent
  with at least `skip` others ahead of it among the movies the next page is cut from.
  A change of the table keeps the rows that stay in order (`Derives`), so what was
  ahead of a torrent still is unless a listed entry went, and the count never falls
  below `skip` (`Grows`, by a one to one map). The property excludes a walk under which
  a listed entry went or got another title, or a read failed. That movies and
  torrents are read in two steps is why `Scope` and `Fresh` are part of it: rows of
  movies that came in between do not count, and the titles the player has read are
  still the table's. `RankInListing` turns the count into the position on the page.
- `ShownLeadsThere`: `Spec => []ShownResolves`, from `SameView` and what one torrent
  per movie makes of `entry` and `stream_target`.
- `PatchesKeepOtherLimits`: `Spec => []LimitsAsAsked`, row by row, so for a movie with
  several torrents too. Not inductive alone: `Unraced` says that a request which waits
  for the lock, and which nobody came in between of, holds its own field and what was
  asked before of the torrent that is the newest *now*. It is kept because a change
  either leaves the newest torrent the newest and the rows' limits alone
  (`KeepsNewest`, `KeepsLimits`, `StillAgrees`) or counts as one that came in between.

`MediaSurface` writes sorting and filtering as a `CHOOSE` of the listing in order,
as `EvictionPlan` does: `SortSeq` and `SelectSeq` are recursive. `ListExists` shows
that there is one.

A theorem about a fold needs induction over its input, and the library's induction
theorems cannot be instantiated by the provers. `RuleLemmas` does it by least
counterexample instead: the sets (or prefixes) for which a formula fails, if there
are any, include a least one, and the step to it is a contradiction. `FoldUnique`
and `FoldExists` give the value of the community modules' folds, which are
`CHOOSE`n recursive functions over sets.

Each strengthening was checked by TLC before it was proved.

Only model-checked: the liveness properties (fairness is out of the prover's
reach). The counterexamples are TLC's too.

## 5. Not modelled

- Metrics, logging, the dashboard and the status line report and decide nothing.
- The event log is a ring of 500 rows in one locked call that nothing reads back.
- The command line client makes one HTTP call per command and prints the answer.
- TMDB is a remote service: an add's lookup succeeds or fails. mDNS and SSDP are
  external libraries; that their tasks exist and end with the token is part of
  `ServiceRuntime`.
- The wire formats of Stremio and DLNA, HTTP headers, ranges and percent-decoding.
- The options of the librqbit session, handed on unchanged.
- A completion watcher whose wait ends in an error (`engine/queue.rs:23`): the torrent
  is then in error or gone, and comes back only through a reload or a start, which
  attach a watcher of their own.
- The free-space floor between an add and the end of its download: the code counts
  the free bytes of the moment, so nothing holds of it later. The subtraction
  `now - last_used_at` at the end of the 64-bit range.

## 6. Plan

1. An abstract specification of the library (a budgeted set of movies) with
   `Library` shown to implement it, under the restriction that a movie is not
   removed during its own add, which `library_session` shows to be needed.
2. Progress of adds and removals under the lock's fairness.
