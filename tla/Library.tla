------------------------------ MODULE Library ------------------------------
(***************************************************************************)
(* The library: the catalog (movies and torrents tables), the torrent      *)
(* session and the data on disk, and everything that changes them: adding  *)
(* a movie (engine/add.rs), removing one, evicting to make room            *)
(* (engine/eviction.rs), streaming (engine/views.rs), the reload of a      *)
(* torrent (engine/limits.rs), completion (engine/queue.rs), and a crash   *)
(* followed by reconcile (engine/session.rs).                              *)
(*                                                                         *)
(* add_movie and set_movie_limits hold add_lock; remove_movie, the sweep,  *)
(* re-announcing, streaming and the completion watchers do not.  A handler *)
(* is one action per stretch between two awaits or two store calls.        *)
(***************************************************************************)
EXTENDS EvictionPlan

CONSTANTS
    Hashes,      \* info hashes, as numbers in their order
    Imdb,        \* IMDb ids (model values)
    Size,        \* the size of each torrent's video file
    Budget,      \* --disk-budget
    MinFree,     \* --min-free
    DiskSize,    \* what the filesystem holds
    Grace,       \* --stream-grace
    Stamps,      \* the last_used_at values a caller may set, past or future
    Api,         \* concurrent HTTP requests (model values)
    Sweepers,    \* the sweep task (a set, empty to leave it out)
    Announcers,  \* tasks that re-announce (a set, empty to leave them out)
    OrphansStay, \* whether reconcile may fail to delete a torrent
    StoreFails,  \* whether a write to the catalog may fail
    NoOne, NoRow, NoMovie,  \* a free lock, an absent row (model values)
    MaxTime      \* bound on the clock

ASSUME LibraryAssumption ==
    /\ Hashes \subseteq Nat \ {0} /\ IsFiniteSet(Hashes)
    /\ Size \in [Hashes -> Nat \ {0}]
    /\ {Budget, MinFree, DiskSize, Grace, MaxTime} \subseteq Nat
    /\ NoOne \notin Api \cup Sweepers \cup Announcers
    /\ Api \cap (Sweepers \cup Announcers) = {} /\ Sweepers \cap Announcers = {}
    /\ Stamps \subseteq Int
    /\ {OrphansStay, StoreFails} \subseteq BOOLEAN
    /\ NoMovie \notin Int
    /\ NoMovie \notin Imdb

Procs == Api \cup Sweepers \cup Announcers

Row == [imdb : Imdb, added_at : Nat, completed : BOOLEAN]

ASSUME NoRowAssumption == NoRow \notin Row

VARIABLES
    now,      \* the clock
    up,       \* the process is running
    movie,    \* movies table: last_used_at of each movie, or NoMovie
    row,      \* torrents table: the row of each hash, or NoRow
    session,  \* hashes in the torrent session
    data,     \* hashes whose video file is on the disk
    watcher,  \* hashes whose completion watcher is waiting
    lock,     \* the holder of Engine.add_lock
    pc,       \* where each process is
    req,      \* per process: the movie and torrent it works on, and when it began
    todo,     \* per process: the planned evictions still to execute
    victim    \* per process: the movie whose rows it is about to delete

tables == <<movie, row>>
torrent == <<session, data, watcher>>
locals == <<req, todo, victim>>
vars == <<now, up, tables, torrent, lock, pc, locals>>

PCs == {"idle", "resolve", "evict", "forget", "add", "upsert", "insert", "reload",
        "reload_in"}

NoRequest == [imdb |-> NoMovie, hash |-> 0, at |-> 0]

-----------------------------------------------------------------------------
(* The store.                                                              *)

Rows == {h \in Hashes : row[h] # NoRow}
RowsOf(m) == {h \in Rows : row[h].imdb = m}
Movies == {m \in Imdb : movie[m] # NoMovie}

\* torrent_for_movie: the newest row, any of them when two are as new.
Newest(m) == {h \in RowsOf(m) : \A g \in RowsOf(m) : row[g].added_at <= row[h].added_at}

\* Deleting a movie cascades to its torrents.
\* Mistake: foreign keys are off.
DeleteMovieOnly(m) == movie' = [movie EXCEPT ![m] = NoMovie] /\ UNCHANGED row
DeleteMovie(m) ==
    /\ movie' = [movie EXCEPT ![m] = NoMovie]
    /\ row' = [h \in Hashes |-> IF h \in RowsOf(m) THEN NoRow ELSE row[h]]

\* MediaCatalog::is_protected
is_protected(last) == now - last < Grace

\* MediaCatalog::candidates
Candidates ==
    {[key          |-> h,
      size         |-> Size[h],
      last_used_at |-> movie[row[h].imdb],
      protected    |-> is_protected(movie[row[h].imdb])] : h \in Rows}

SizeOf(S) == MapThenSumSet(LAMBDA h : Size[h], S)

disk_free == DiskSize - SizeOf(data)

\* The plan of ensure_space for so many incoming bytes.
SpacePlan(incoming) ==
    CatalogPlan(Candidates, SizeOf(Rows), disk_free, incoming, Budget, MinFree)

\* The evictions of a plan, and the one to execute first.
Planned(p) == {c \in Candidates : \E i \in DOMAIN p.evict : p.evict[i] = c}
IsFirst(c, cs) == c \in cs /\ \A d \in cs \ {c} : Before(c, d)

-----------------------------------------------------------------------------
(* Control.                                                                *)

Goto(p, l) == pc' = [pc EXCEPT ![p] = l]

Return(p) ==
    /\ Goto(p, "idle")
    /\ lock' = IF lock = p THEN NoOne ELSE lock
    /\ req' = [req EXCEPT ![p] = NoRequest]
    /\ todo' = [todo EXCEPT ![p] = {}]
    /\ victim' = [victim EXCEPT ![p] = NoMovie]

\* Mistake: the check does not wait for an add under way.
AcquireAnyway(p) == lock' = p
Acquire(p) == lock = NoOne /\ lock' = p

\* session.delete(.., delete_files = true), and the end of the watcher.
DropTorrent(h) ==
    /\ session' = session \ {h}
    /\ data' = data \ {h}
    /\ watcher' = watcher \ {h}

\* session.add_torrent; the data found on the disk is kept.
\* (A torrent that is already managed keeps its handle.)
AddTorrent(h) ==
    /\ session' = session \cup {h}
    /\ UNCHANGED data

-----------------------------------------------------------------------------
(* add_movie.                                                              *)

\* Under the lock: refused when the movie's newest torrent is loaded.
add_movie(p) ==
    /\ up /\ pc[p] = "idle" /\ Acquire(p)
    /\ \E m \in Imdb, h \in Hashes :
          /\ \/ Newest(m) = {}
             \/ \E g \in Newest(m) : g \notin session
          /\ req' = [req EXCEPT ![p] = [imdb |-> m, hash |-> h, at |-> now]]
    /\ Goto(p, "resolve")
    /\ UNCHANGED <<now, up, tables, torrent, todo, victim>>

\* The metadata is here: refused when the hash is already managed; otherwise
\* ensure_space plans, and the plan is executed or the add refused.
add_resolved(p) ==
    /\ pc[p] = "resolve"
    /\ req[p].hash \notin session
    /\ LET plan_ == SpacePlan(Size[req[p].hash]) IN
       /\ plan_.ok
       /\ todo' = [todo EXCEPT ![p] = Planned(plan_)]
    /\ Goto(p, "evict")
    /\ UNCHANGED <<now, up, tables, torrent, lock, req, victim>>

\* Any failure on the way: unreachable peers, no room, a torrent already managed,
\* a client that hung up; or a store error, which leaves the torrent running.
add_fails(p) ==
    /\ \/ pc[p] \in {"resolve", "add"}
       \/ StoreFails /\ pc[p] \in {"upsert", "insert"}
    /\ Return(p)
    /\ UNCHANGED <<now, up, tables, torrent>>

\* The torrent starts and its completion watcher with it, before it is recorded.
add_torrent(p) ==
    /\ pc[p] = "add"
    /\ AddTorrent(req[p].hash)
    /\ watcher' = watcher \cup {req[p].hash}
    /\ Goto(p, "upsert")
    /\ UNCHANGED <<now, up, tables, lock, locals>>

\* upsert_movie: last_used_at is when the request began.
record_movie(p) ==
    /\ pc[p] = "upsert"
    /\ movie' = [movie EXCEPT ![req[p].imdb] = req[p].at]
    /\ Goto(p, "insert")
    /\ UNCHANGED <<now, up, row, torrent, lock, locals>>

\* insert_torrent replaces the hash's row; without its movie the foreign key
\* refuses it and the add ends in an error, its torrent still in the session.
record_torrent(p) ==
    /\ pc[p] = "insert"
    /\ row' = IF req[p].imdb \in Movies
              THEN [row EXCEPT ![req[p].hash] =
                      [imdb |-> req[p].imdb, added_at |-> req[p].at, completed |-> FALSE]]
              ELSE row
    /\ Return(p)
    /\ UNCHANGED <<now, up, movie, torrent>>

-----------------------------------------------------------------------------
(* Eviction and removal.                                                   *)

\* The sweep: ensure_space(0); a refused plan changes nothing.
sweep(p) ==
    /\ up /\ pc[p] = "idle"
    /\ LET plan_ == SpacePlan(0) IN
       /\ plan_.ok /\ plan_.evict # <<>>
       /\ todo' = [todo EXCEPT ![p] = Planned(plan_)]
    /\ Goto(p, "evict")
    /\ UNCHANGED <<now, up, tables, torrent, lock, req, victim>>

\* evict, for the next candidate in the plan's order: read the row, delete the
\* torrent and its files when it is loaded.
evict(p) ==
    /\ pc[p] = "evict"
    /\ \E c \in todo[p] :
          /\ IsFirst(c, todo[p])
          /\ todo' = [todo EXCEPT ![p] = @ \ {c}]
          /\ victim' = [victim EXCEPT ![p] =
                IF c.key \in Rows THEN row[c.key].imdb ELSE NoMovie]
          /\ IF c.key \in session THEN DropTorrent(c.key) ELSE UNCHANGED torrent
    /\ Goto(p, "forget")
    /\ UNCHANGED <<now, up, tables, lock, req>>

\* session.delete fails: ensure_space gives up, and with it the add or the sweep.
evict_fails(p) ==
    /\ pc[p] = "evict"
    /\ \E c \in todo[p] : IsFirst(c, todo[p]) /\ c.key \in session
    /\ Return(p)
    /\ UNCHANGED <<now, up, tables, torrent>>

\* All planned evictions done: the add goes on, the sweep is over.
evicted(p) ==
    /\ pc[p] = "evict" /\ todo[p] = {}
    /\ IF p \in Api
       THEN Goto(p, "add") /\ UNCHANGED <<lock, locals>>
       ELSE Return(p)
    /\ UNCHANGED <<now, up, tables, torrent>>

\* remove_movie: the newest torrent is deleted with its files when it is loaded.
remove_movie(p) ==
    /\ up /\ pc[p] = "idle"
    /\ \E m \in Movies :
          /\ victim' = [victim EXCEPT ![p] = m]
          /\ IF Newest(m) = {} THEN UNCHANGED torrent
             ELSE \E h \in Newest(m) :
                     IF h \in session THEN DropTorrent(h) ELSE UNCHANGED torrent
    /\ Goto(p, "forget")
    /\ UNCHANGED <<now, up, tables, lock, req, todo>>

\* delete_movie, the second half of evict and of remove_movie.
forget(p) ==
    /\ pc[p] = "forget"
    /\ IF victim[p] \in Imdb THEN DeleteMovie(victim[p]) ELSE UNCHANGED tables
    /\ IF req[p].hash # 0 \/ p \in Sweepers
       THEN /\ Goto(p, "evict")
            /\ victim' = [victim EXCEPT ![p] = NoMovie]
            /\ UNCHANGED <<lock, req, todo>>
       ELSE Return(p)
    /\ UNCHANGED <<now, up, torrent>>

\* The store fails after the torrent is deleted.
forget_fails(p) ==
    /\ StoreFails /\ pc[p] = "forget"
    /\ Return(p)
    /\ UNCHANGED <<now, up, tables, torrent>>

-----------------------------------------------------------------------------
(* Reading and reloading.                                                  *)

\* stream_target: a loaded movie is marked as just used.
stream_target(m) ==
    /\ up
    /\ \E h \in Newest(m) : h \in session
    /\ movie' = [movie EXCEPT ![m] = now]
    /\ UNCHANGED <<now, up, row, torrent, lock, pc, locals>>

\* set_last_used: a caller moves a movie in the eviction order.
set_last_used(m) ==
    /\ up /\ m \in Movies
    /\ \E ts \in Stamps \cup {now} : movie' = [movie EXCEPT ![m] = ts]
    /\ UNCHANGED <<now, up, row, torrent, lock, pc, locals>>

\* reannounce_active lists the rows once and reloads them without the lock.
reannounce_active(p) ==
    /\ up /\ pc[p] = "idle" /\ Rows # {}
    /\ todo' = [todo EXCEPT ![p] = Candidates]
    /\ Goto(p, "reload")
    /\ UNCHANGED <<now, up, tables, torrent, lock, req, victim>>

\* Torrents that are gone or finished by now need no re-announce.
reannounce_skip(p) ==
    /\ pc[p] = "reload"
    /\ \/ todo[p] = {} /\ Return(p)
       \/ \E c \in todo[p] :
             /\ c.key \notin session \ data
             /\ todo' = [todo EXCEPT ![p] = @ \ {c}]
             /\ UNCHANGED <<pc, lock, req, victim>>
    /\ UNCHANGED <<now, up, tables, torrent>>

\* reload_torrent takes a torrent out of the session, keeping its files ...
ReloadOut(p, h) ==
    /\ session' = session \ {h}
    /\ watcher' = watcher \ {h}
    /\ req' = [req EXCEPT ![p].hash = h]
    /\ Goto(p, "reload_in")
    /\ UNCHANGED <<now, up, tables, data, victim>>

reannounce(p) ==
    /\ pc[p] = "reload"
    /\ \E c \in todo[p] :
          /\ c.key \in session \ data
          /\ todo' = [todo EXCEPT ![p] = @ \ {c}]
          /\ ReloadOut(p, c.key)
    /\ UNCHANGED lock

\* set_movie_limits, under the lock, for the movie's newest torrent.
set_movie_limits(p) ==
    /\ up /\ pc[p] = "idle" /\ Acquire(p)
    /\ \E m \in Movies : \E h \in Newest(m) \cap session : ReloadOut(p, h)
    /\ UNCHANGED todo

\* ... and adds it back, whatever became of its row.
reload_in(p) ==
    /\ pc[p] = "reload_in"
    /\ AddTorrent(req[p].hash)
    /\ watcher' = watcher \cup ({req[p].hash} \ session)
    /\ IF p \in Announcers
       THEN /\ Goto(p, "reload")
            /\ req' = [req EXCEPT ![p] = NoRequest]
            /\ UNCHANGED <<lock, todo, victim>>
       ELSE Return(p)
    /\ UNCHANGED <<now, up, tables>>

reload_fails(p) ==
    /\ pc[p] = "reload_in"
    /\ Return(p)
    /\ UNCHANGED <<now, up, tables, torrent>>

-----------------------------------------------------------------------------
(* The world, the end of a process and the start of the next.              *)

Tick ==
    /\ now < MaxTime
    /\ now' = now + 1
    /\ UNCHANGED <<up, tables, torrent, lock, pc, locals>>

Download(h) ==
    /\ up /\ h \in session \ data /\ disk_free >= Size[h]
    /\ data' = data \cup {h}
    /\ UNCHANGED <<now, up, tables, session, watcher, lock, pc, locals>>

\* The completion watcher: mark_complete updates the row, if there is one.
watch_completion(h) ==
    /\ h \in watcher \cap session \cap data
    /\ watcher' = watcher \ {h}
    /\ row' = IF h \in Rows THEN [row EXCEPT ![h].completed = TRUE] ELSE row
    /\ UNCHANGED <<now, up, movie, session, data, lock, pc, locals>>

Crash ==
    /\ up
    /\ up' = FALSE
    /\ watcher' = {}
    /\ lock' = NoOne
    /\ pc' = [p \in Procs |-> "idle"]
    /\ req' = [p \in Procs |-> NoRequest]
    /\ todo' = [p \in Procs |-> {}]
    /\ victim' = [p \in Procs |-> NoMovie]
    /\ UNCHANGED <<now, tables, session, data>>

\* reconcile: torrents without a row are deleted with their files (`kept` are the
\* ones that could not be), rows without a torrent are added again (`failed` are
\* the ones that could not be).
\* Mistake: torrents without a row are kept.
ReconcileKeeping(kept, failed) ==
    /\ session' = session \cup (Rows \ failed)
    /\ UNCHANGED data
reconcile(kept, failed) ==
    /\ session' = kept \cup (Rows \ failed)
    /\ data' = data \ (session \ (Rows \cup kept))

\* Engine::start: reconcile, then a watcher on every torrent.
start ==
    /\ ~up
    /\ up' = TRUE
    /\ \E kept \in SUBSET (IF OrphansStay THEN session \ Rows ELSE {}),
          failed \in SUBSET (Rows \ session) : reconcile(kept, failed)
    /\ watcher' = session'
    /\ UNCHANGED <<now, tables, lock, pc, locals>>

-----------------------------------------------------------------------------
Init ==
    /\ now = 0 /\ up = FALSE
    /\ movie = [m \in Imdb |-> NoMovie]
    /\ row = [h \in Hashes |-> NoRow]
    /\ session = {} /\ data = {} /\ watcher = {}
    /\ lock = NoOne
    /\ pc = [p \in Procs |-> "idle"]
    /\ req = [p \in Procs |-> NoRequest]
    /\ todo = [p \in Procs |-> {}]
    /\ victim = [p \in Procs |-> NoMovie]

Step(p) ==
    \/ add_resolved(p) \/ add_fails(p) \/ add_torrent(p)
    \/ record_movie(p) \/ record_torrent(p)
    \/ evict(p) \/ evict_fails(p) \/ evicted(p) \/ forget(p) \/ forget_fails(p)
    \/ reannounce_skip(p) \/ reannounce(p) \/ reload_in(p) \/ reload_fails(p)

Next ==
    \/ \E p \in Procs : Step(p)
    \/ \E p \in Api : add_movie(p) \/ remove_movie(p) \/ set_movie_limits(p)
    \/ \E p \in Sweepers : sweep(p)
    \/ \E p \in Announcers : reannounce_active(p)
    \/ \E m \in Imdb : stream_target(m) \/ set_last_used(m)
    \/ \E h \in Hashes : Download(h) \/ watch_completion(h)
    \/ Tick \/ Crash \/ start

Spec == Init /\ [][Next]_vars

-----------------------------------------------------------------------------
(* Properties.                                                             *)

CandidateType ==
    [key : Hashes, size : Nat, last_used_at : Int, protected : BOOLEAN]

\* Every variable has its type, no row outlives its movie (the foreign key), and
\* every waiting completion watcher has its torrent.
TypeOK ==
    /\ now \in Nat /\ up \in BOOLEAN
    /\ movie \in [Imdb -> Int \cup {NoMovie}]
    /\ row \in [Hashes -> Row \cup {NoRow}]
    /\ \A h \in Rows : row[h].imdb \in Movies
    /\ session \subseteq Hashes /\ data \subseteq Hashes /\ watcher \subseteq session
    /\ lock \in Procs \cup {NoOne}
    /\ pc \in [Procs -> PCs]
    /\ req \in [Procs -> [imdb : Imdb \cup {NoMovie}, hash : Hashes \cup {0}, at : Nat]]
    /\ todo \in [Procs -> SUBSET CandidateType]
    /\ victim \in [Procs -> Imdb \cup {NoMovie}]

\* The catalog never holds more than the budget, whatever adds, removals and
\* sweeps run at the same time and wherever the process dies: add_lock
\* "serialises add + evict so two concurrent adds cannot both pass the budget
\* check".
BudgetKept == SizeOf(Rows) <= Budget

\* From its first check until it is recorded or has failed, an add is the only
\* one: no other add plans space that this one is about to use.
OneAdder ==
    \A p \in Api :
        pc[p] \in {"resolve", "evict", "add", "upsert", "insert"} => lock = p

\* "Make the session and the catalog agree after a restart": whatever races and
\* crashes left behind, the next start holds only torrents with a row, within
\* the budget, and nothing that was not recorded keeps data on the disk through
\* the session.
RestartHeals ==
    [][~up /\ up' =>
          /\ session' \subseteq Rows
          /\ SizeOf(session') <= Budget
          /\ data' \cap (session \ Rows) = {}]_vars

\* --disk-budget: "eviction keeps torrents under this".
SessionWithinBudget == SizeOf(session) <= Budget

\* "Movies watched within --stream-grace are never evicted."
ProtectedNotEvicted ==
    [][\A p \in Procs :
          pc[p] = "evict" /\ pc'[p] = "forget" /\ victim'[p] \in Movies
              => ~is_protected(movie[victim'[p]])]_vars

\* completed_at is "`None` while still downloading": a recorded torrent whose
\* completion watcher has run is recorded as complete.
CompletionRecorded ==
    \A h \in Rows \cap session \cap data :
        up /\ h \notin watcher => row[h].completed
=============================================================================
