---------------------------- MODULE PauseSwitch ----------------------------
(***************************************************************************)
(* The global kill switch of the tornas engine (engine/pause.rs), the disk *)
(* watch that shares it (engine/disk.rs), and everything that starts or    *)
(* stops torrents beside it: the download queue (engine/queue.rs), adding  *)
(* a movie (engine/add.rs), the reload of a torrent for new limits or new  *)
(* trackers (engine/limits.rs, engine/trackers.rs), and a restart          *)
(* (engine/session.rs).  The server runs with --require-mount on.          *)
(*                                                                         *)
(* Every handler is an async task on a multi-threaded runtime, so a        *)
(* handler is split into one action per stretch between two awaits.  All   *)
(* writers of the pause hold add_lock, the readers do not.                 *)
(***************************************************************************)
EXTENDS Integers, FiniteSets

CONSTANTS
    Torrents,       \* the movies that can be added, numbered oldest first
    Api,            \* concurrent HTTP requests (model values)
    Watch,          \* the pause-watch task (a model value)
    Announcers,     \* the tasks that may re-announce: the tracker loop, SIGHUP, the API
    NoOne,          \* the free add_lock (a model value)
    NoPause,        \* Option<PauseState>::None (a model value)
    Forever,        \* `until: None`, a pause with no end (a model value)
    Durations,      \* the durations a caller may ask for, legal or not
    MaxPause,       \* the longest legal pause, 30 days in the code
    MaxActive,      \* --max-active-downloads
    KeepSeeding,    \* --keep-seeding
    Managed,        \* run by systemd, in a private mount namespace
    DiskMayVanish,  \* whether the data disk can be pulled out
    Disconnects,    \* whether a client may hang up in the middle of a request
    MaxTime         \* bound on the clock

ASSUME TorrentsAssumption == Torrents \subseteq Nat /\ IsFiniteSet(Torrents)
ASSUME ProcsAssumption ==
    /\ Watch \notin Api \cup Torrents \cup Announcers
    /\ Announcers \cap (Api \cup Torrents) = {}
    /\ Api \cap Torrents = {}
    /\ NoOne \notin Api \cup Torrents \cup Announcers \cup {Watch}
ASSUME TimeAssumption ==
    /\ Durations \subseteq Nat
    /\ Forever \notin Int
    /\ MaxPause \in Nat
    /\ MaxTime \in Nat
ASSUME OptionsAssumption ==
    /\ MaxActive \in Nat \ {0}
    /\ {KeepSeeding, Managed, DiskMayVanish, Disconnects} \subseteq BOOLEAN

\* The completion watcher of a torrent is the process named by that torrent.
Procs == Api \cup Torrents \cup Announcers \cup {Watch}

Times == Nat
PauseState ==
    [since : Times, until : Times \cup {Forever}, reason : {"manual", "disk"}]

ASSUME NoPauseAssumption == NoPause \notin PauseState

VARIABLES
    now,          \* the clock, in seconds
    disk,         \* "here": this process sees the data disk; "gone": unplugged;
                  \* "host": mounted again on the host but not in this namespace
    up,           \* the process is running
    pause,        \* Engine.pause
    file,         \* pause.json on the data disk
    diskMissing,  \* Engine.disk_missing
    wanted,       \* history: the pause the last caller was granted, until a resume
    lock,         \* the holder of Engine.add_lock
    rows,         \* torrents with a catalog row
    loaded,       \* torrents in the librqbit session
    running,      \* loaded torrents that are not paused
    checking,     \* loaded torrents still being initialised by librqbit
    finished,     \* torrents whose download is complete
    errored,      \* loaded torrents in librqbit's error state
    cut,          \* history: torrents whose reload a hang-up cut off before it watched them
    pc,           \* where each process is
    work,         \* per process: the torrents its current loop has still to visit
    slot,         \* per process: queue slots handed out so far in balance_queue
    flag          \* per process: the boolean it read before its last await

env      == <<now, disk>>
switch   == <<pause, file, wanted>>
torrents == <<rows, loaded, running, checking, finished, errored, cut>>
locals   == <<work, slot, flag>>
vars     == <<env, up, switch, diskMissing, lock, torrents, pc, locals>>

PCs == {"idle", "done", "pause_lock", "resume_lock", "disk_lock", "add_lock",
        "limits_lock", "apply", "balance_start", "balance", "enforce",
        "adding", "add_session", "reload", "reload_out", "reload_in", "reload_wait"}

-----------------------------------------------------------------------------
(* Helpers.                                                                *)

IsOldest(t, S) == t \in S /\ \A u \in S : t <= u

Expired(p) == p.until # Forever /\ p.until <= now

is_paused == pause # NoPause

\* A legal argument of pause_all: indefinite, or 1 second to 30 days.
ZeroDurationToo(d) == d \in (0..MaxPause) \cup {Forever}  \* mistake: zero allowed
ValidDuration(d) == d \in (1..MaxPause) \cup {Forever}

Until(d) == IF d = Forever THEN Forever ELSE now + d

\* The PauseState that pause_all builds; a pause in force keeps its start.
\* Mistakes: the start is not kept; the old reason is.
PauseFromNow(d) == [since |-> now, until |-> Until(d), reason |-> "manual"]
PauseWithOldReason(d) ==
    [since  |-> IF is_paused THEN pause.since ELSE now,
     until  |-> Until(d),
     reason |-> IF is_paused THEN pause.reason ELSE "manual"]
NewPause(d) ==
    [since  |-> IF is_paused THEN pause.since ELSE now,
     until  |-> Until(d),
     reason |-> "manual"]

\* Mistake: the disk's return lifts nothing.
DiskActionPausesOnly(ok, p) == IF ~ok /\ p = NoPause THEN "pause_for_disk" ELSE "nothing"
disk_action(ok, p) ==
    IF ~ok /\ p = NoPause THEN "pause_for_disk"
    ELSE IF ok /\ p # NoPause /\ p.reason = "disk" THEN "resume_from_disk"
    ELSE "nothing"

\* Mistake: a pause without an end counts as expired.
LoadTimedOnly == IF file # NoPause /\ file.until # Forever /\ ~Expired(file) THEN file ELSE NoPause
LoadExpiredToo == file  \* mistake: the end is not looked at
load_pause == IF file # NoPause /\ ~Expired(file) THEN file ELSE NoPause

\* librqbit refuses to pause or unpause a torrent it is still checking, or one
\* in the error state; the engine logs the refusal and goes on.
Controllable(t) == t \in loaded /\ t \notin checking \cup errored

queue_is_full == Cardinality(running \ finished) >= MaxActive

Goto(p, l) == pc' = [pc EXCEPT ![p] = l]

\* The end of a handler: its guard on add_lock, if it holds one, is dropped, and
\* its local variables go out of scope.
Return(p) ==
    /\ Goto(p, IF p \in Torrents THEN "done" ELSE "idle")
    /\ lock' = IF lock = p THEN NoOne ELSE lock
    /\ work' = [work EXCEPT ![p] = {}]
    /\ slot' = [slot EXCEPT ![p] = 0]
    /\ flag' = [flag EXCEPT ![p] = FALSE]

AcquireAnyway(p) == lock' = p  \* mistake: does not wait for the holder
Acquire(p) == lock = NoOne /\ lock' = p

\* The handles apply_pause collects before it pauses them one by one.
StartApply(p) ==
    /\ work' = [work EXCEPT ![p] = loaded]
    /\ UNCHANGED <<slot, flag>>

-----------------------------------------------------------------------------
(* The loops the handlers share.                                           *)

\* apply_pause: pause one of the collected handles, or finish.
ApplyPause(p) ==
    /\ pc[p] = "apply"
    /\ \/ /\ work[p] = {}
          /\ Return(p)
          /\ UNCHANGED torrents
       \/ \E t \in work[p] :
          /\ work' = [work EXCEPT ![p] = @ \ {t}]
          /\ running' = IF Controllable(t) THEN running \ {t} ELSE running
          /\ UNCHANGED <<rows, loaded, checking, finished, errored, cut, pc, lock, slot, flag>>
    /\ UNCHANGED <<env, up, switch, diskMissing>>

\* balance_queue reads the pause once, before it lists the rows.
BalanceStart(p) ==
    /\ pc[p] = "balance_start"
    /\ IF is_paused
       THEN Return(p)
       ELSE /\ Goto(p, "balance")
            /\ work' = [work EXCEPT ![p] = rows]
            /\ slot' = [slot EXCEPT ![p] = 0]
            /\ UNCHANGED <<lock, flag>>
    /\ UNCHANGED <<env, up, switch, diskMissing, torrents>>

\* What balance_queue makes of one row, given the slots handed out before it.
\* Mistakes: finished torrents take their turn too; one slot is lost.
WantFinishedToo(t, s) == s + 1 <= MaxActive
WantOneFewer(t, s) == IF t \in finished THEN KeepSeeding ELSE s + 1 < MaxActive
WantRunning(t, s) == IF t \in finished THEN KeepSeeding ELSE s + 1 <= MaxActive

\* Mistakes: a row whose torrent is not loaded is not skipped; a torrent
\* beyond the slots is left running.
BalancedWithoutHandle(t, s) ==
    IF WantRunning(t, s) THEN running \cup {t} ELSE running \ {t}
BalancedStartsOnly(t, s) ==
    IF Controllable(t) /\ WantRunning(t, s) THEN running \cup {t} ELSE running
Balanced(t, s) ==
    IF ~Controllable(t) THEN running
    ELSE IF WantRunning(t, s) THEN running \cup {t}
    ELSE IF t \in finished THEN running
    ELSE running \ {t}

\* One row of balance_queue, oldest first.  Rows whose torrent is not loaded or
\* is in error are skipped and take no slot; the pause is not read again.
BalanceRow(p) ==
    /\ pc[p] = "balance"
    /\ \/ /\ work[p] = {}
          /\ Return(p)
          /\ UNCHANGED torrents
       \/ /\ \E t \in work[p] :
             /\ IsOldest(t, work[p])
             /\ work' = [work EXCEPT ![p] = @ \ {t}]
             /\ slot' = [slot EXCEPT ![p] =
                   IF t \in loaded \ (errored \cup finished) THEN @ + 1 ELSE @]
             /\ running' = Balanced(t, slot[p])
          /\ UNCHANGED <<rows, loaded, checking, finished, errored, cut, pc, lock, flag>>
    /\ UNCHANGED <<env, up, switch, diskMissing>>

-----------------------------------------------------------------------------
(* pause_all and resume_all.                                               *)

\* A request enters its handler.  resume_all and
\* set_movie_limits look at disk_missing before they wait for the lock.
Request(p) ==
    /\ up /\ p \in Api /\ pc[p] = "idle"
    /\ \E l \in {"pause_lock", "resume_lock", "add_lock", "limits_lock"} :
          /\ l \in {"resume_lock", "limits_lock"} => ~diskMissing
          /\ Goto(p, l)
    /\ UNCHANGED <<env, up, switch, diskMissing, lock, torrents, locals>>

\* The pause is written to pause.json first, unless the disk is known to be
\* missing.  With the disk gone but not yet noticed, the write can land in the
\* bare mount point on the boot disk, which leaves the data disk as it was.
pause_all(p) ==
    /\ pc[p] = "pause_lock"
    /\ Acquire(p)
    /\ \E d \in Durations \cup {Forever} :
          /\ ValidDuration(d)
          /\ pause' = NewPause(d)
    /\ file' = IF ~diskMissing /\ disk = "here" THEN pause' ELSE file
    /\ wanted' = pause'
    /\ Goto(p, "apply")
    /\ StartApply(p)
    /\ UNCHANGED <<env, up, diskMissing, torrents>>

\* An illegal duration, or pause.json could not be written: nothing changes.
pause_all_fails(p) ==
    /\ pc[p] = "pause_lock"
    /\ lock = NoOne
    /\ ~diskMissing \/ \E d \in Durations : ~ValidDuration(d)
    /\ Return(p)
    /\ UNCHANGED <<env, up, switch, diskMissing, torrents>>

\* The pause is taken, pause.json removed (a failed removal is ignored), and
\* the torrents restarted through the queue.  Reached by a request, by the
\* return of the disk and by the end of a timed pause.
resume_all(p) ==
    /\ pc[p] = "resume_lock"
    /\ lock = NoOne
    /\ IF is_paused
       THEN /\ lock' = p
            /\ pause' = NoPause
            /\ file' = IF disk = "here" THEN NoPause ELSE file
            /\ wanted' = NoPause
            /\ Goto(p, "balance_start")
            /\ UNCHANGED locals
       ELSE Return(p) /\ UNCHANGED switch
    /\ UNCHANGED <<env, up, diskMissing, torrents>>

-----------------------------------------------------------------------------
(* The pause-watch task: check_pause every 5 seconds.                      *)

\* data_disk_ok, the swap of disk_missing and disk_action.  A resume for the
\* disk passes resume_all's own check, since this task alone writes the flag.
check_pause ==
    /\ up /\ pc[Watch] = "idle"
    /\ LET ok == disk = "here" IN
       /\ diskMissing' = ~ok
       /\ flag' = [flag EXCEPT ![Watch] = ok]
       /\ Goto(Watch, CASE disk_action(ok, pause) = "pause_for_disk" -> "disk_lock"
                        [] disk_action(ok, pause) = "resume_from_disk" -> "resume_lock"
                        [] OTHER -> "enforce")
    /\ UNCHANGED <<env, up, switch, lock, torrents, work, slot>>

\* Whether enforcement ends the process instead: systemd runs it and the host
\* has the disk mounted again.
MustRestart == ~flag[Watch] /\ Managed /\ disk = "host"

\* The rest of check_pause: balance the queue, end a timed pause (not while the
\* disk is missing), or pause again whatever came loose.
\* Mistakes: nothing is paused again; a timed pause is kept.
NextWithoutRepause ==
    CASE ~is_paused -> "balance_start"
      [] is_paused /\ flag[Watch] /\ Expired(pause) -> "resume_lock"
      [] OTHER -> "idle"
NextWithoutExpiry == IF is_paused THEN "apply" ELSE "balance_start"
NextCheck ==
    CASE ~is_paused -> "balance_start"
      [] is_paused /\ flag[Watch] /\ Expired(pause) -> "resume_lock"
      [] OTHER -> "apply"

enforce ==
    /\ pc[Watch] = "enforce"
    /\ ~MustRestart
    /\ Goto(Watch, NextCheck)
    /\ work' = [work EXCEPT ![Watch] = IF NextCheck = "apply" THEN loaded ELSE {}]
    /\ UNCHANGED <<env, up, switch, diskMissing, lock, torrents, slot, flag>>

\* pause_for_disk: in memory only, and only if nothing is paused by now.
pause_for_disk ==
    /\ pc[Watch] = "disk_lock"
    /\ lock = NoOne
    /\ IF is_paused
       THEN Return(Watch) /\ UNCHANGED pause
       ELSE /\ lock' = Watch
            /\ pause' = [since |-> now, until |-> Forever, reason |-> "disk"]
            /\ Goto(Watch, "apply")
            /\ StartApply(Watch)
    /\ UNCHANGED <<env, up, file, wanted, diskMissing, torrents>>

-----------------------------------------------------------------------------
(* add_movie, seen from the switch: what it does between taking the lock   *)
(* and dropping it.  What it does to the catalog is module Library.        *)

\* Paused: refused before anything touches the network.
add_movie(p) ==
    /\ pc[p] = "add_lock"
    /\ lock = NoOne
    /\ IF is_paused
       THEN Return(p)
       ELSE lock' = p /\ Goto(p, "adding") /\ UNCHANGED locals
    /\ UNCHANGED <<env, up, switch, diskMissing, torrents>>

\* Resolving the metadata and making room ends in the `paused` option that the
\* torrent will be added with, or in an error.
add_resolved(p) ==
    /\ pc[p] = "adding"
    /\ \/ Return(p)
       \/ /\ Goto(p, "add_session")
          /\ flag' = [flag EXCEPT ![p] = is_paused \/ queue_is_full]
          /\ UNCHANGED <<lock, work, slot>>
    /\ UNCHANGED <<env, up, switch, diskMissing, torrents>>

\* session.add_torrent: the newest torrent enters the session, is checked, gets
\* a completion watcher and a row.
add_session(p) ==
    /\ pc[p] = "add_session"
    /\ \E t \in Torrents :
          /\ t \notin rows /\ \A u \in rows : u < t
          /\ rows' = rows \cup {t}
          /\ loaded' = loaded \cup {t}
          /\ running' = IF flag[p] THEN running ELSE running \cup {t}
          /\ checking' = checking \cup {t}
          /\ pc' = [pc EXCEPT ![p] = "idle", ![t] = "idle"]
    /\ lock' = NoOne
    /\ flag' = [flag EXCEPT ![p] = FALSE]
    /\ UNCHANGED <<env, up, switch, diskMissing, finished, errored, cut, work, slot>>

add_session_fails(p) ==
    /\ pc[p] = "add_session"
    /\ Return(p)
    /\ UNCHANGED <<env, up, switch, diskMissing, torrents>>

-----------------------------------------------------------------------------
(* reload_torrent, for one movie's limits (under the lock) or for every    *)
(* active torrent after a tracker refresh (without it).                    *)

\* set_movie_limits; the movie may not exist.
set_movie_limits(p) ==
    /\ pc[p] = "limits_lock"
    /\ lock = NoOne
    /\ \/ Return(p)
       \/ \E t \in rows :
             /\ lock' = p
             /\ Goto(p, "reload")
             /\ work' = [work EXCEPT ![p] = {t}]
             /\ UNCHANGED <<slot, flag>>
    /\ UNCHANGED <<env, up, switch, diskMissing, torrents>>

\* reannounce_active reads the pause once, before it lists the rows.
reannounce_active(p) ==
    /\ up /\ pc[p] = "idle"
    /\ ~is_paused /\ rows # {}
    /\ Goto(p, "reload")
    /\ work' = [work EXCEPT ![p] = rows]
    /\ UNCHANGED <<env, up, switch, diskMissing, lock, torrents, slot, flag>>

\* Torrents that reload leaves alone: not loaded, or nothing to re-announce.
Skipped(p, t) ==
    t \notin loaded \/ (p \in Announcers /\ (t \in finished \/ t \notin running))

\* A deleted torrent takes its handles with it: its completion watcher never
\* fires, nor does one that another reload is about to attach, and an
\* apply_pause that collected the old handle pauses nothing.
AboutToWatch(q, t) == pc[q] = "reload_wait" /\ IsOldest(t, work[q])
WithoutHandle(p, t) ==
    /\ pc' = [q \in Procs |->
                 CASE q = p -> "reload_in"
                   [] q = t /\ pc[t] = "idle" -> "done"
                   [] AboutToWatch(q, t) -> "reload"
                   [] OTHER -> pc[q]]
    /\ work' = [q \in Procs |->
                   IF pc[q] = "apply" \/ AboutToWatch(q, t) THEN work[q] \ {t} ELSE work[q]]

\* Read was_paused, then pause the torrent so that its piece map is final.
reload_pause(p) ==
    /\ pc[p] = "reload"
    /\ \E t \in work[p] :
       /\ IsOldest(t, work[p]) /\ ~Skipped(p, t)
       /\ flag' = [flag EXCEPT ![p] = t \notin running]
       /\ running' = IF Controllable(t) THEN running \ {t} ELSE running
    /\ Goto(p, "reload_out")
    /\ UNCHANGED <<env, up, switch, diskMissing, lock, rows, loaded, checking, finished,
                   errored, cut, work, slot>>

\* Delete the torrent from the session, whatever has become of it since.
reload_out(p) ==
    /\ pc[p] = "reload_out"
    /\ \E t \in work[p] :
       /\ IsOldest(t, work[p]) /\ t \in loaded
       /\ loaded' = loaded \ {t}
       /\ running' = running \ {t}
       /\ checking' = checking \ {t}
       /\ errored' = errored \ {t}
       /\ WithoutHandle(p, t)
    /\ UNCHANGED <<env, up, switch, diskMissing, lock, rows, finished, cut, slot, flag>>

\* The loop moves past a torrent that needs no reload, or ends.
reload_skip(p) ==
    /\ pc[p] = "reload"
    /\ \/ work[p] = {} /\ Return(p)
       \/ /\ \E t \in work[p] :
                /\ IsOldest(t, work[p]) /\ Skipped(p, t)
                /\ work' = [work EXCEPT ![p] = @ \ {t}]
          /\ UNCHANGED <<pc, lock, slot, flag>>
    /\ UNCHANGED <<env, up, switch, diskMissing, torrents>>

\* Paused for the reload, but the source cannot be read or the delete fails, as it
\* does when another reload was faster: the handler returns the error.
reload_aborts(p) ==
    /\ pc[p] = "reload_out"
    /\ Return(p)
    /\ UNCHANGED <<env, up, switch, diskMissing, torrents>>

\* Add the torrent back, paused as it was when the reload began.
reload_in(p) ==
    /\ pc[p] = "reload_in"
    /\ \E t \in work[p] :
       /\ IsOldest(t, work[p])
       /\ loaded' = loaded \cup {t}
       /\ running' = IF flag[p] THEN running ELSE running \cup {t}
       /\ checking' = checking \cup {t}
    /\ Goto(p, "reload_wait")
    /\ UNCHANGED <<env, up, switch, diskMissing, lock, rows, finished, errored, cut, locals>>

\* The re-add fails: the movie is "missing" until the next start.
reload_in_fails(p) ==
    /\ pc[p] = "reload_in"
    /\ Return(p)
    /\ UNCHANGED <<env, up, switch, diskMissing, torrents>>

\* At most 10 seconds for the check to end, then a watcher on the new handle.
\* (A watcher of the old handle that is still balancing is let finish first.)
ReloadWithoutWatcher(p) ==  \* mistake: the new handle is not watched
    /\ pc[p] = "reload_wait"
    /\ Goto(p, "reload")
    /\ \E t \in work[p] : IsOldest(t, work[p]) /\ work' = [work EXCEPT ![p] = @ \ {t}]
    /\ flag' = [flag EXCEPT ![p] = FALSE]
    /\ UNCHANGED <<env, up, switch, diskMissing, lock, torrents, slot>>
reload_wait(p) ==
    /\ pc[p] = "reload_wait"
    /\ \E t \in work[p] :
       /\ IsOldest(t, work[p]) /\ pc[t] = "done"
       /\ pc' = [pc EXCEPT ![p] = "reload", ![t] = "idle"]
       /\ work' = [work EXCEPT ![p] = @ \ {t}]
       /\ cut' = cut \ {t}
    /\ flag' = [flag EXCEPT ![p] = FALSE]
    /\ UNCHANGED <<env, up, switch, diskMissing, lock, rows, loaded, running, checking,
                   finished, errored, slot>>

-----------------------------------------------------------------------------
(* Completion watchers, and a client that hangs up.                        *)

\* Stop a finished torrent unless it may seed or is paused, then balance.
watch_completion(t) ==
    /\ pc[t] = "idle" /\ t \in finished /\ t \in loaded \ checking
    /\ running' = IF ~KeepSeeding /\ Controllable(t) THEN running \ {t} ELSE running
    /\ Goto(t, "balance_start")
    /\ UNCHANGED <<env, up, switch, diskMissing, lock, rows, loaded, checking,
                   finished, errored, cut, locals>>

\* The HTTP server drops the future of a request whose client is gone.
Disconnect(p) ==
    /\ Disconnects
    /\ p \in Api /\ pc[p] # "idle"
    /\ cut' = cut \cup {t \in Torrents : AboutToWatch(p, t)}
    /\ Return(p)
    /\ UNCHANGED <<env, up, switch, diskMissing, rows, loaded, running, checking,
                   finished, errored>>

-----------------------------------------------------------------------------
(* The world: time, the disk, librqbit.                                    *)

Tick ==
    /\ now < MaxTime
    /\ now' = now + 1
    /\ UNCHANGED <<disk, up, switch, diskMissing, lock, torrents, pc, locals>>

DiskLost ==
    /\ DiskMayVanish /\ disk # "gone"
    /\ disk' = "gone"
    /\ UNCHANGED <<now, up, switch, diskMissing, lock, torrents, pc, locals>>

DiskBack ==
    /\ disk = "gone"
    /\ disk' = IF Managed THEN "host" ELSE "here"
    /\ UNCHANGED <<now, up, switch, diskMissing, lock, torrents, pc, locals>>

Checked(t) ==
    /\ t \in checking
    /\ checking' = checking \ {t}
    /\ UNCHANGED <<env, up, switch, diskMissing, lock, rows, loaded, running,
                   finished, errored, cut, pc, locals>>

Finished(t) ==
    /\ t \in running /\ Controllable(t) /\ t \notin finished /\ disk = "here"
    /\ finished' = finished \cup {t}
    /\ UNCHANGED <<env, up, switch, diskMissing, lock, rows, loaded, running,
                   checking, errored, cut, pc, locals>>

\* Writing to a disk that is gone.
Errored(t) ==
    /\ t \in running /\ Controllable(t) /\ disk # "here"
    /\ errored' = errored \cup {t}
    /\ UNCHANGED <<env, up, switch, diskMissing, lock, rows, loaded, running,
                   checking, finished, cut, pc, locals>>

-----------------------------------------------------------------------------
(* The end of a process and the start of the next.                         *)

\* Everything in memory is lost; librqbit has saved which torrents it holds.
ProcessEnds ==
    /\ up' = FALSE
    /\ pause' = NoPause
    /\ diskMissing' = FALSE
    /\ lock' = NoOne
    /\ running' = {} /\ checking' = {} /\ errored' = {} /\ cut' = {}
    /\ pc' = [p \in Procs |-> IF p \in Torrents THEN "done" ELSE "idle"]
    /\ work' = [p \in Procs |-> {}]
    /\ slot' = [p \in Procs |-> 0]
    /\ flag' = [p \in Procs |-> FALSE]
    /\ UNCHANGED <<env, file, wanted, rows, loaded, finished>>

Crash == up /\ ProcessEnds

\* systemd::restart_me, from the middle of check_pause.
restart_me == up /\ pc[Watch] = "enforce" /\ MustRestart /\ ProcessEnds

\* Engine::start: refuses to start without the mount, loads pause.json, re-adds
\* the rows that are not in the session (some may fail), pauses everything that
\* lets itself be paused, and watches every torrent.  Which torrents librqbit
\* restores as running is its own record, which may lag.
start ==
    /\ ~up /\ disk # "gone"
    /\ up' = TRUE
    /\ disk' = "here"
    /\ pause' = load_pause
    /\ \E failed \in SUBSET (rows \ loaded), restored \in SUBSET loaded :
          /\ loaded' = rows \ failed
          /\ checking' \in SUBSET loaded'
          /\ running' = IF pause' = NoPause
                        THEN restored \cup (loaded' \ loaded)
                        ELSE restored \cap checking'
    /\ pc' = [p \in Procs |-> IF p \in Torrents \ loaded' THEN "done" ELSE "idle"]
    /\ UNCHANGED <<now, file, wanted, diskMissing, lock, rows, finished, errored, cut, locals>>

-----------------------------------------------------------------------------
Init ==
    /\ now = 0 /\ disk = "here" /\ up = FALSE
    /\ pause = NoPause /\ file = NoPause /\ wanted = NoPause
    /\ diskMissing = FALSE /\ lock = NoOne
    /\ rows = {} /\ loaded = {} /\ running = {}
    /\ checking = {} /\ finished = {} /\ errored = {} /\ cut = {}
    /\ pc = [p \in Procs |-> IF p \in Torrents THEN "done" ELSE "idle"]
    /\ work = [p \in Procs |-> {}]
    /\ slot = [p \in Procs |-> 0]
    /\ flag = [p \in Procs |-> FALSE]

\* The steps of a process that wait for add_lock, and the others.
LockStep(p) ==
    \/ pause_all(p) \/ pause_all_fails(p) \/ resume_all(p)
    \/ add_movie(p) \/ set_movie_limits(p)
    \/ p = Watch /\ pause_for_disk

RunStep(p) ==
    \/ ApplyPause(p) \/ BalanceStart(p) \/ BalanceRow(p)
    \/ add_resolved(p) \/ add_session(p) \/ add_session_fails(p)
    \/ reload_pause(p) \/ reload_out(p) \/ reload_skip(p) \/ reload_aborts(p)
    \/ reload_in(p) \/ reload_in_fails(p) \/ reload_wait(p)

WatchStep == check_pause \/ enforce \/ restart_me

World ==
    \/ Tick \/ DiskLost \/ DiskBack
    \/ \E t \in Torrents : Checked(t) \/ Finished(t) \/ Errored(t)

Next ==
    \/ \E p \in Procs : LockStep(p) \/ RunStep(p)
    \/ \E p \in Api : Request(p) \/ Disconnect(p)
    \/ \E t \in Torrents : watch_completion(t)
    \/ \E p \in Announcers : reannounce_active(p)
    \/ WatchStep
    \/ World \/ Crash \/ start

Spec == Init /\ [][Next]_vars

\* tokio's mutex hands out add_lock in the order of arrival, so no waiter is
\* overtaken forever; every task that can run is polled again; the pause-watch
\* loop ticks every 5 seconds; librqbit ends every check.
Fairness ==
    /\ \A p \in Api \cup {Watch} : SF_vars(LockStep(p))
    /\ \A p \in Procs : WF_vars(RunStep(p))
    /\ WF_vars(WatchStep)
    /\ \A t \in Torrents : WF_vars(watch_completion(t)) /\ WF_vars(Checked(t))

FairSpec == Spec /\ Fairness

-----------------------------------------------------------------------------
(* Properties.                                                             *)

\* Every variable has its type, and the torrent sets nest: what runs is loaded,
\* what is loaded has a row, and an errored torrent is one that was not paused.
TypeOK ==
    /\ now \in Times /\ disk \in {"here", "gone", "host"} /\ up \in BOOLEAN
    /\ {pause, file, wanted} \subseteq PauseState \cup {NoPause}
    /\ diskMissing \in BOOLEAN
    /\ lock \in Procs \cup {NoOne}
    /\ rows \subseteq Torrents /\ finished \subseteq rows /\ loaded \subseteq rows
    /\ running \subseteq loaded /\ checking \subseteq loaded /\ errored \subseteq running
    /\ cut \subseteq Torrents
    /\ pc \in [Procs -> PCs]
    /\ work \in [Procs -> SUBSET Torrents]
    /\ slot \in [Procs -> Nat]
    /\ flag \in [Procs -> BOOLEAN]

\* An add that has passed its pause check holds add_lock until its torrent is in
\* the session, and nothing is paused meanwhile: "a movie being added right now
\* cannot slip out unpaused" (pause_all), and no magnet is looked up while paused.
NoAddWhilePaused ==
    \A p \in Procs :
        pc[p] \in {"adding", "add_session"} => lock = p /\ ~is_paused

\* A pause caused by the disk is never written to pause.json, not even when a
\* caller changes it or the process restarts in the middle of it.
DiskPauseInMemoryOnly == file # NoPause => file.reason = "manual"

\* A granted pause that has neither expired nor been lifted is in force in every
\* running process, with its own start and end: it survives a crash or restart.
PauseSurvivesRestart ==
    up /\ wanted # NoPause /\ ~Expired(wanted) => pause = wanted

\* Extending, shortening or inheriting a pause never yields one that ends before
\* it began, or one that lasts more than the legal maximum from now.
PauseWindow ==
    is_paused /\ pause.until # Forever =>
        pause.since < pause.until /\ pause.until <= now + MaxPause

\* "Resume is refused until the disk is back": while the engine knows the disk
\* is missing, no step of a running process lifts the pause.
ResumeNeedsDisk ==
    [][up' /\ is_paused /\ diskMissing => pause' # NoPause]_vars

\* A pause keeps the moment it began however often it is changed, also when a
\* manual pause takes over from the disk's.
PauseKeepsStart ==
    [][is_paused /\ pause' # NoPause => pause'.since = pause.since]_vars

\* The handlers, their locks, awaits and crashes together implement the abstract
\* switch: whatever they interleave with, the pause changes only by being granted,
\* caused by the disk, lifted, lost with the process or taken up again from its file.
Switch == INSTANCE KillSwitch WITH clock <- now, live <- up, saved <- file
ImplementsSwitch == Switch!Spec

\* "Finished movies stay paused on resume unless --keep-seeding": no step of a
\* running process starts a finished torrent that is loaded and paused.
FinishedStayPaused ==
    [][\A t \in finished \cap (loaded \ running) :
          up /\ ~KeepSeeding => t \notin running']_vars

\* Whatever raced the pause (a balance, a reload, a restore): a pause that is not
\* lifted, once callers stop reloading torrents, ends with nothing running but
\* torrents librqbit has given up on.
Reloading == \E p \in Procs : pc[p] \in {"reload", "reload_out", "reload_in", "reload_wait"}
LooseIsRepaused ==
    <>[](is_paused /\ ~Reloading) => <>[](running \subseteq errored)

\* Once the disk is back for good, a pause that only the disk caused is lifted.
DiskPauseLifts ==
    <>[](up /\ disk = "here") => []<>(~is_paused \/ pause.reason # "disk")

\* A timed pause ends by itself once its time is over and the disk is there.
TimedPauseEnds ==
    is_paused /\ Expired(pause) ~> ~is_paused \/ ~Expired(pause) \/ disk # "here"

\* The queue always comes back to at most MaxActive downloads.
QueueSettles ==
    []<>(~up \/ is_paused
         \/ Cardinality(running \ (finished \cup errored)) <= MaxActive)

\* Torrents the queue counts, and those it should run.
Waiting == loaded \ (finished \cup errored)
Eligible(t) == t \in Waiting /\ Cardinality({u \in Waiting : u < t}) < MaxActive

\* A download whose turn has come, and stays, is started.
QueueMoves ==
    \A t \in Torrents :
        <>[](up /\ ~is_paused /\ Eligible(t)) => []<>(t \in running)

\* A finished download stops seeding unless --keep-seeding, however its reloads
\* interleave with its completion, and whoever hangs up: only a reload that was cut
\* off before it watched the torrent leaves it seeding.
FinishedStops ==
    \A t \in Torrents :
        <>[](up /\ ~KeepSeeding /\ t \in (finished \cap loaded) \ cut)
            => []<>(t \notin running \ errored)

\* "finished ones stop unless --keep-seeding is set" (queue.rs), with no exception.
FinishedAlwaysStop ==
    \A t \in Torrents :
        <>[](up /\ ~KeepSeeding /\ t \in finished \cap loaded)
            => []<>(t \notin running \ errored)
=============================================================================
