--------------------------- MODULE LibraryProofs ---------------------------
(***************************************************************************)
(* Proofs about the library, for any set of torrents, movies and tasks,    *)
(* any sizes, budgets and clocks.                                          *)
(***************************************************************************)
EXTENDS Library, RuleLemmas

-----------------------------------------------------------------------------
(* The inductive invariant.                                                *)

\* The steps of an add, and the evictions an add has under way.
Adding(p) ==
    \/ pc[p] \in {"resolve", "add", "upsert", "insert"}
    \/ pc[p] = "evict" /\ p \in Api
    \/ pc[p] = "forget" /\ req[p].hash # 0

\* Which steps each kind of task can be at, and what it leaves behind.
Roles ==
    \A p \in Procs :
        /\ p \in Sweepers => pc[p] \in {"idle", "evict", "forget"} /\ req[p] = NoRequest
        /\ p \in Announcers => pc[p] \in {"idle", "reload", "reload_in"}
        /\ p \in Api => pc[p] # "reload"
        /\ pc[p] = "idle" => req[p] = NoRequest
        /\ pc[p] = "reload_in" => req[p].hash \in Hashes

\* An add holds the lock and knows its movie and torrent throughout.
AddCarries ==
    \A p \in Procs : Adding(p) =>
        lock = p /\ req[p].imdb \in Imdb /\ req[p].hash \in Hashes

\* Nothing survives the end of the process but the disk and the tables.
DownIsQuiet ==
    ~up => /\ watcher = {} /\ lock = NoOne
           /\ pc = [p \in Procs |-> "idle"]

LibraryInv == TypeOK /\ Roles /\ AddCarries /\ DownIsQuiet

-----------------------------------------------------------------------------
(* TypeOK in three parts: the tables, the torrents, the tasks.             *)

TablesOK ==
    /\ movie \in [Imdb -> Int \cup {NoMovie}]
    /\ row \in [Hashes -> Row \cup {NoRow}]
    /\ \A h \in Rows : row[h].imdb \in Movies

TorrentsOK ==
    session \subseteq Hashes /\ data \subseteq Hashes /\ watcher \subseteq session

ControlOK ==
    /\ now \in Nat /\ up \in BOOLEAN
    /\ lock \in Procs \cup {NoOne}
    /\ pc \in [Procs -> PCs]
    /\ req \in [Procs -> [imdb : Imdb \cup {NoMovie}, hash : Hashes \cup {0}, at : Nat]]
    /\ todo \in [Procs -> SUBSET CandidateType]
    /\ victim \in [Procs -> Imdb \cup {NoMovie}]

\* The parts make up the type invariant, before and after a step.
LEMMA TypeParts ==
  /\ TypeOK <=> TablesOK /\ TorrentsOK /\ ControlOK
  /\ TypeOK' <=> TablesOK' /\ TorrentsOK' /\ ControlOK'
  BY DEF TypeOK, TablesOK, TorrentsOK, ControlOK

\* The first start finds empty tables, an empty session and idle tasks.
LEMMA LibraryInit == Init => LibraryInv
<1> SUFFICES ASSUME Init PROVE LibraryInv
  OBVIOUS
<1>1. TablesOK
  BY DEF Init, TablesOK, Rows
<1>2. TorrentsOK
  BY DEF Init, TorrentsOK
<1>3. ControlOK
  BY DEF Init, ControlOK, PCs, NoRequest
<1>4. Roles /\ AddCarries /\ DownIsQuiet
  BY DEF Init, Roles, AddCarries, DownIsQuiet, Adding, NoRequest
<1> QED
  BY <1>1, <1>2, <1>3, <1>4, TypeParts DEF LibraryInv

-----------------------------------------------------------------------------
(* What the store's statements keep.                                       *)

\* A step that writes neither table keeps them.
LEMMA SameTables ==
  ASSUME TypeOK, UNCHANGED tables PROVE TablesOK'
  BY DEF TypeOK, TablesOK, tables, Rows, Movies

\* Giving a movie a last use keeps every row's movie.
LEMMA SetMovie ==
  ASSUME TypeOK, NEW m \in Imdb, NEW ts \in Int,
         movie' = [movie EXCEPT ![m] = ts], row' = row
  PROVE  TablesOK'
  BY LibraryAssumption DEF TypeOK, TablesOK, Rows, Movies

\* insert_torrent: the foreign key lets a row in only with its movie.
LEMMA SetRow ==
  ASSUME TypeOK, NEW p \in Procs, req[p].imdb \in Imdb, record_torrent(p)
  PROVE  TablesOK'
<1>1. /\ movie' = movie
      /\ \/ row' = row
         \/ /\ req[p].imdb \in Movies
            /\ row' = [row EXCEPT ![req[p].hash] =
                  [imdb |-> req[p].imdb, added_at |-> req[p].at, completed |-> FALSE]]
  BY DEF record_torrent
<1>2. req[p].at \in Nat
  BY DEF TypeOK
<1>3. [imdb |-> req[p].imdb, added_at |-> req[p].at, completed |-> FALSE] \in Row
  BY <1>2 DEF Row
<1>4. row' \in [Hashes -> Row \cup {NoRow}]
  BY <1>1, <1>3 DEF TypeOK
<1>5. Movies' = Movies
  BY <1>1 DEF Movies
<1>6. \A h \in Rows' : row'[h].imdb \in Movies
  BY <1>1, <1>3 DEF TypeOK, Rows
<1> QED
  BY <1>1, <1>4, <1>5, <1>6 DEF TypeOK, TablesOK

\* mark_complete changes nothing else of a row.
LEMMA CompleteRow ==
  ASSUME TypeOK, NEW h \in Hashes, h \in Rows,
         row' = [row EXCEPT ![h].completed = TRUE], movie' = movie
  PROVE  TablesOK'
<1>1. row[h] \in Row
  BY DEF TypeOK, Rows
<1>2. /\ [row[h] EXCEPT !.completed = TRUE] \in Row
      /\ [row[h] EXCEPT !.completed = TRUE].imdb = row[h].imdb
  BY <1>1 DEF Row
<1>3. \A g \in Hashes : row'[g] = IF g = h THEN [row[h] EXCEPT !.completed = TRUE] ELSE row[g]
  BY DEF TypeOK
<1>4. row' \in [Hashes -> Row \cup {NoRow}]
  BY <1>2 DEF TypeOK
<1>5. \A g \in Rows' : g \in Rows /\ row'[g].imdb = row[g].imdb
  BY <1>2, <1>3 DEF Rows
<1> QED
  BY <1>4, <1>5 DEF TypeOK, TablesOK, Movies

\* delete_movie cascades: no row is left without its movie.
LEMMA DeleteMovieTables ==
  ASSUME TypeOK, NEW m \in Imdb, DeleteMovie(m)
  PROVE  TablesOK'
<1>1. /\ \A n \in Imdb : movie'[n] = IF n = m THEN NoMovie ELSE movie[n]
      /\ \A h \in Hashes : row'[h] = IF h \in RowsOf(m) THEN NoRow ELSE row[h]
  BY DEF DeleteMovie, TypeOK
<1>2. /\ movie' \in [Imdb -> Int \cup {NoMovie}]
      /\ row' \in [Hashes -> Row \cup {NoRow}]
  BY DEF DeleteMovie, TypeOK
<1>3. \A h \in Rows' : h \in Rows /\ row'[h] = row[h] /\ row[h].imdb # m
  BY <1>1 DEF Rows, RowsOf
<1>4. \A n \in Movies : n # m => n \in Movies'
  BY <1>1 DEF Movies
<1> QED
  BY <1>2, <1>3, <1>4 DEF TypeOK, TablesOK

\* Rows belong to known hashes.
LEMMA RowsInHashes == Rows \subseteq Hashes
  BY DEF Rows

\* What a plan is made from: every row has a movie with a last use.
LEMMA CandidatesTyped ==
  ASSUME TypeOK PROVE Candidates \subseteq CandidateType
<1> SUFFICES ASSUME NEW h \in Rows
    PROVE [key |-> h, size |-> Size[h], last_used_at |-> movie[row[h].imdb],
           protected |-> is_protected(movie[row[h].imdb])] \in CandidateType
  BY DEF Candidates
<1>1. h \in Hashes /\ Size[h] \in Nat
  BY LibraryAssumption DEF Rows
<1>2. movie[row[h].imdb] \in Int
  BY DEF TypeOK, Movies
<1>3. is_protected(movie[row[h].imdb]) \in BOOLEAN
  BY DEF is_protected
<1> QED
  BY <1>1, <1>2, <1>3 DEF CandidateType

\* torrent_for_movie returns a row of that movie.
LEMMA NewestIsRow ==
  ASSUME NEW m \in Imdb, NEW h \in Newest(m)
  PROVE  h \in Rows /\ h \in Hashes /\ row[h].imdb = m
  BY DEF Newest, RowsOf, Rows

-----------------------------------------------------------------------------
(* What the end of a task keeps.                                           *)

\* A task in the middle of its work is a task of a running process.
LEMMA UpWhenBusy ==
  ASSUME LibraryInv, NEW p \in Procs, pc[p] # "idle"
  PROVE  up
  BY DEF LibraryInv, DownIsQuiet

\* A task that ends leaves its locals well-typed.
LEMMA ReturnTypes ==
  ASSUME TypeOK, NEW p \in Procs, Return(p)
  PROVE  /\ lock' \in Procs \cup {NoOne}
         /\ pc' \in [Procs -> PCs]
         /\ req' \in [Procs -> [imdb : Imdb \cup {NoMovie}, hash : Hashes \cup {0}, at : Nat]]
         /\ todo' \in [Procs -> SUBSET CandidateType]
         /\ victim' \in [Procs -> Imdb \cup {NoMovie}]
  BY DEF TypeOK, Return, Goto, PCs, NoRequest

\* A task that ends keeps the others' share of the invariant.
LEMMA ReturnRoles ==
  ASSUME LibraryInv, NEW p \in Procs, Return(p), up, up'
  PROVE  Roles' /\ AddCarries' /\ DownIsQuiet'
  BY DEF LibraryInv, TypeOK, Return, Goto, Roles, AddCarries, Adding, DownIsQuiet,
         NoRequest, PCs

-----------------------------------------------------------------------------
\* Every step keeps the invariant: one case per action.
LEMMA LibraryStep == LibraryInv /\ [Next]_vars => LibraryInv'
<1> SUFFICES ASSUME LibraryInv, [Next]_vars PROVE LibraryInv'
  OBVIOUS
<1> USE DEF tables, torrent, locals
<1>1. ASSUME NEW p \in Api, add_movie(p) PROVE LibraryInv'
  <2>1. TablesOK'
    BY <1>1, SameTables DEF add_movie, LibraryInv
  <2>2. TorrentsOK'
    BY <1>1 DEF add_movie, LibraryInv, TypeOK, TorrentsOK
  <2>3. ControlOK'
    BY <1>1 DEF add_movie, Acquire, Goto, LibraryInv, TypeOK, ControlOK, PCs, Procs
  <2>4. Roles' /\ AddCarries' /\ DownIsQuiet'
    BY <1>1, LibraryAssumption
       DEF add_movie, Acquire, Goto, LibraryInv, TypeOK, Roles, AddCarries,
           DownIsQuiet, Adding, Procs
  <2> QED
    BY <2>1, <2>2, <2>3, <2>4, TypeParts DEF LibraryInv
<1>2. ASSUME NEW p \in Api, set_movie_limits(p) PROVE LibraryInv'
  <2>1. TablesOK'
    BY <1>2, SameTables DEF set_movie_limits, ReloadOut, LibraryInv
  <2>2. TorrentsOK'
    BY <1>2 DEF set_movie_limits, ReloadOut, LibraryInv, TypeOK, TorrentsOK
  <2>3. ControlOK'
    BY <1>2
       DEF set_movie_limits, Acquire, ReloadOut, Goto, LibraryInv, TypeOK, ControlOK,
           PCs, Procs
  <2>4. Roles' /\ AddCarries' /\ DownIsQuiet'
    BY <1>2, LibraryAssumption
       DEF set_movie_limits, Acquire, ReloadOut, Goto, LibraryInv, TypeOK, Roles,
           AddCarries, DownIsQuiet, Adding, Procs
  <2> QED
    BY <2>1, <2>2, <2>3, <2>4, TypeParts DEF LibraryInv
<1>3. ASSUME NEW p \in Api, remove_movie(p) PROVE LibraryInv'
  <2>1. TablesOK'
    BY <1>3, SameTables DEF remove_movie, LibraryInv
  <2>2. TorrentsOK'
    <3>1. UNCHANGED torrent \/ \E h \in Hashes : DropTorrent(h)
      BY <1>3, NewestIsRow DEF remove_movie, Movies
    <3> QED
      BY <3>1 DEF DropTorrent, LibraryInv, TypeOK, TorrentsOK
  <2>3. ControlOK'
    BY <1>3 DEF remove_movie, Goto, LibraryInv, TypeOK, ControlOK, PCs, Movies
  <2>4. Roles' /\ AddCarries' /\ DownIsQuiet'
    BY <1>3, LibraryAssumption
       DEF remove_movie, Goto, LibraryInv, Roles, AddCarries, DownIsQuiet, Adding,
           NoRequest
  <2> QED
    BY <2>1, <2>2, <2>3, <2>4, TypeParts DEF LibraryInv
<1>4. ASSUME NEW p \in Procs, add_resolved(p) PROVE LibraryInv'
  <2>1. TablesOK'
    BY <1>4, SameTables DEF add_resolved, LibraryInv
  <2>2. TorrentsOK'
    BY <1>4 DEF add_resolved, LibraryInv, TypeOK, TorrentsOK
  <2>3. ControlOK'
    BY <1>4, CandidatesTyped
       DEF add_resolved, Goto, Planned, LibraryInv, TypeOK, ControlOK, PCs
  <2>4. Roles' /\ AddCarries' /\ DownIsQuiet'
    BY <1>4 DEF add_resolved, Goto, LibraryInv, Roles, AddCarries, DownIsQuiet, Adding
  <2> QED
    BY <2>1, <2>2, <2>3, <2>4, TypeParts DEF LibraryInv
<1>5. ASSUME NEW p \in Procs, add_fails(p) PROVE LibraryInv'
  <2>1. TablesOK'
    BY <1>5, SameTables DEF add_fails, LibraryInv
  <2>2. TorrentsOK'
    BY <1>5 DEF add_fails, LibraryInv, TypeOK, TorrentsOK
  <2>3. ControlOK'
    BY <1>5, ReturnTypes DEF add_fails, LibraryInv, TypeOK, ControlOK
  <2>4. Roles' /\ AddCarries' /\ DownIsQuiet'
    BY <1>5, ReturnRoles, UpWhenBusy DEF add_fails, LibraryInv
  <2> QED
    BY <2>1, <2>2, <2>3, <2>4, TypeParts DEF LibraryInv
<1>6. ASSUME NEW p \in Procs, add_torrent(p) PROVE LibraryInv'
  <2>1. TablesOK'
    BY <1>6, SameTables DEF add_torrent, LibraryInv
  <2>2. TorrentsOK'
    BY <1>6
       DEF add_torrent, AddTorrent, LibraryInv, TypeOK, TorrentsOK, AddCarries, Adding
  <2>3. ControlOK'
    BY <1>6 DEF add_torrent, Goto, LibraryInv, TypeOK, ControlOK, PCs
  <2>4. Roles' /\ AddCarries' /\ DownIsQuiet'
    BY <1>6 DEF add_torrent, Goto, LibraryInv, Roles, AddCarries, DownIsQuiet, Adding
  <2> QED
    BY <2>1, <2>2, <2>3, <2>4, TypeParts DEF LibraryInv
<1>7. ASSUME NEW p \in Procs, record_movie(p) PROVE LibraryInv'
  <2>1. TablesOK'
    <3>1. req[p].imdb \in Imdb /\ req[p].at \in Int
      BY <1>7 DEF record_movie, LibraryInv, TypeOK, AddCarries, Adding
    <3> QED
      BY <1>7, <3>1, SetMovie DEF record_movie, LibraryInv
  <2>2. TorrentsOK'
    BY <1>7 DEF record_movie, LibraryInv, TypeOK, TorrentsOK
  <2>3. ControlOK'
    BY <1>7 DEF record_movie, Goto, LibraryInv, TypeOK, ControlOK, PCs
  <2>4. Roles' /\ AddCarries' /\ DownIsQuiet'
    BY <1>7 DEF record_movie, Goto, LibraryInv, Roles, AddCarries, DownIsQuiet, Adding
  <2> QED
    BY <2>1, <2>2, <2>3, <2>4, TypeParts DEF LibraryInv
<1>8. ASSUME NEW p \in Procs, record_torrent(p) PROVE LibraryInv'
  <2>1. TablesOK'
    BY <1>8, SetRow DEF record_torrent, LibraryInv, AddCarries, Adding
  <2>2. TorrentsOK'
    BY <1>8 DEF record_torrent, LibraryInv, TypeOK, TorrentsOK
  <2>3. ControlOK'
    BY <1>8, ReturnTypes DEF record_torrent, LibraryInv, TypeOK, ControlOK
  <2>4. Roles' /\ AddCarries' /\ DownIsQuiet'
    BY <1>8, ReturnRoles, UpWhenBusy DEF record_torrent, LibraryInv
  <2> QED
    BY <2>1, <2>2, <2>3, <2>4, TypeParts DEF LibraryInv
<1>9. ASSUME NEW p \in Procs, evict(p) PROVE LibraryInv'
  <2>1. TablesOK'
    BY <1>9, SameTables DEF evict, LibraryInv
  <2>2. TorrentsOK'
    BY <1>9 DEF evict, DropTorrent, LibraryInv, TypeOK, TorrentsOK
  <2>3. ControlOK'
    <3>1. PICK c \in todo[p] :
              /\ todo' = [todo EXCEPT ![p] = @ \ {c}]
              /\ victim' = [victim EXCEPT ![p] =
                    IF c.key \in Rows THEN row[c.key].imdb ELSE NoMovie]
      BY <1>9 DEF evict
    <3>2. ASSUME c.key \in Rows PROVE row[c.key].imdb \in Imdb
      BY <3>2, RowsInHashes DEF LibraryInv, TypeOK, Movies
    <3>3. victim' \in [Procs -> Imdb \cup {NoMovie}]
      BY <3>1, <3>2 DEF LibraryInv, TypeOK
    <3>4. todo' \in [Procs -> SUBSET CandidateType]
      BY <3>1 DEF LibraryInv, TypeOK
    <3> QED
      BY <1>9, <3>3, <3>4 DEF evict, Goto, LibraryInv, TypeOK, ControlOK, PCs
  <2>4. Roles' /\ AddCarries' /\ DownIsQuiet'
    BY <1>9
       DEF evict, Goto, LibraryInv, Roles, AddCarries, DownIsQuiet, Adding, NoRequest,
           Procs
  <2> QED
    BY <2>1, <2>2, <2>3, <2>4, TypeParts DEF LibraryInv
<1>10. ASSUME NEW p \in Procs, evict_fails(p) PROVE LibraryInv'
  <2>1. TablesOK'
    BY <1>10, SameTables DEF evict_fails, LibraryInv
  <2>2. TorrentsOK'
    BY <1>10 DEF evict_fails, LibraryInv, TypeOK, TorrentsOK
  <2>3. ControlOK'
    BY <1>10, ReturnTypes DEF evict_fails, LibraryInv, TypeOK, ControlOK
  <2>4. Roles' /\ AddCarries' /\ DownIsQuiet'
    BY <1>10, ReturnRoles, UpWhenBusy DEF evict_fails, LibraryInv
  <2> QED
    BY <2>1, <2>2, <2>3, <2>4, TypeParts DEF LibraryInv
<1>11. ASSUME NEW p \in Procs, evicted(p) PROVE LibraryInv'
  <2>1. TablesOK'
    BY <1>11, SameTables DEF evicted, LibraryInv
  <2>2. TorrentsOK'
    BY <1>11 DEF evicted, LibraryInv, TypeOK, TorrentsOK
  <2>3. ControlOK'
    BY <1>11, ReturnTypes DEF evicted, Goto, LibraryInv, TypeOK, ControlOK, PCs
  <2>4. Roles' /\ AddCarries' /\ DownIsQuiet'
    BY <1>11, LibraryAssumption, ReturnRoles
       DEF evicted, Goto, LibraryInv, TypeOK, Roles, AddCarries, DownIsQuiet, Adding
  <2> QED
    BY <2>1, <2>2, <2>3, <2>4, TypeParts DEF LibraryInv
<1>12. ASSUME NEW p \in Procs, forget(p) PROVE LibraryInv'
  <2>1. TablesOK'
    BY <1>12, DeleteMovieTables, SameTables DEF forget, LibraryInv
  <2>2. TorrentsOK'
    BY <1>12 DEF forget, LibraryInv, TypeOK, TorrentsOK
  <2>3. ControlOK'
    BY <1>12, ReturnTypes DEF forget, Goto, LibraryInv, TypeOK, ControlOK, PCs
  <2>4. Roles' /\ AddCarries' /\ DownIsQuiet'
    BY <1>12, LibraryAssumption, ReturnRoles
       DEF forget, Goto, LibraryInv, TypeOK, Roles, AddCarries, DownIsQuiet, Adding
  <2> QED
    BY <2>1, <2>2, <2>3, <2>4, TypeParts DEF LibraryInv
<1>13. ASSUME NEW p \in Procs, forget_fails(p) PROVE LibraryInv'
  <2>1. TablesOK'
    BY <1>13, SameTables DEF forget_fails, LibraryInv
  <2>2. TorrentsOK'
    BY <1>13 DEF forget_fails, LibraryInv, TypeOK, TorrentsOK
  <2>3. ControlOK'
    BY <1>13, ReturnTypes DEF forget_fails, LibraryInv, TypeOK, ControlOK
  <2>4. Roles' /\ AddCarries' /\ DownIsQuiet'
    BY <1>13, ReturnRoles, UpWhenBusy DEF forget_fails, LibraryInv
  <2> QED
    BY <2>1, <2>2, <2>3, <2>4, TypeParts DEF LibraryInv
<1>14. ASSUME NEW p \in Procs, reannounce_skip(p) PROVE LibraryInv'
  <2>1. TablesOK'
    BY <1>14, SameTables DEF reannounce_skip, LibraryInv
  <2>2. TorrentsOK'
    BY <1>14 DEF reannounce_skip, LibraryInv, TypeOK, TorrentsOK
  <2>3. ControlOK'
    BY <1>14, ReturnTypes DEF reannounce_skip, LibraryInv, TypeOK, ControlOK
  <2>4. Roles' /\ AddCarries' /\ DownIsQuiet'
    BY <1>14, ReturnRoles
       DEF reannounce_skip, LibraryInv, Roles, AddCarries, DownIsQuiet, Adding
  <2> QED
    BY <2>1, <2>2, <2>3, <2>4, TypeParts DEF LibraryInv
<1>15. ASSUME NEW p \in Procs, reannounce(p) PROVE LibraryInv'
  <2>1. TablesOK'
    BY <1>15, SameTables DEF reannounce, ReloadOut, LibraryInv
  <2>2. TorrentsOK'
    BY <1>15 DEF reannounce, ReloadOut, LibraryInv, TypeOK, TorrentsOK
  <2>3. ControlOK'
    BY <1>15 DEF reannounce, ReloadOut, Goto, LibraryInv, TypeOK, ControlOK, PCs
  <2>4. Roles' /\ AddCarries' /\ DownIsQuiet'
    BY <1>15
       DEF reannounce, ReloadOut, Goto, LibraryInv, TypeOK, Roles, AddCarries,
           DownIsQuiet, Adding
  <2> QED
    BY <2>1, <2>2, <2>3, <2>4, TypeParts DEF LibraryInv
<1>16. ASSUME NEW p \in Procs, reload_in(p) PROVE LibraryInv'
  <2>1. TablesOK'
    BY <1>16, SameTables DEF reload_in, LibraryInv
  <2>2. TorrentsOK'
    BY <1>16 DEF reload_in, AddTorrent, LibraryInv, TypeOK, TorrentsOK, Roles
  <2>3. ControlOK'
    BY <1>16, ReturnTypes
       DEF reload_in, Goto, LibraryInv, TypeOK, ControlOK, PCs, NoRequest
  <2>4. Roles' /\ AddCarries' /\ DownIsQuiet'
    BY <1>16, LibraryAssumption, ReturnRoles
       DEF reload_in, AddTorrent, Goto, LibraryInv, TypeOK, Roles, AddCarries,
           DownIsQuiet, Adding
  <2> QED
    BY <2>1, <2>2, <2>3, <2>4, TypeParts DEF LibraryInv
<1>17. ASSUME NEW p \in Procs, reload_fails(p) PROVE LibraryInv'
  <2>1. TablesOK'
    BY <1>17, SameTables DEF reload_fails, LibraryInv
  <2>2. TorrentsOK'
    BY <1>17 DEF reload_fails, LibraryInv, TypeOK, TorrentsOK
  <2>3. ControlOK'
    BY <1>17, ReturnTypes DEF reload_fails, LibraryInv, TypeOK, ControlOK
  <2>4. Roles' /\ AddCarries' /\ DownIsQuiet'
    BY <1>17, ReturnRoles, UpWhenBusy DEF reload_fails, LibraryInv
  <2> QED
    BY <2>1, <2>2, <2>3, <2>4, TypeParts DEF LibraryInv
<1>18. ASSUME NEW p \in Sweepers, sweep(p) PROVE LibraryInv'
  <2>1. TablesOK'
    BY <1>18, SameTables DEF sweep, LibraryInv
  <2>2. TorrentsOK'
    BY <1>18 DEF sweep, LibraryInv, TypeOK, TorrentsOK
  <2>3. ControlOK'
    BY <1>18, CandidatesTyped
       DEF sweep, Goto, Planned, LibraryInv, TypeOK, ControlOK, PCs
  <2>4. Roles' /\ AddCarries' /\ DownIsQuiet'
    BY <1>18, LibraryAssumption
       DEF sweep, Goto, LibraryInv, Roles, AddCarries, DownIsQuiet, Adding
  <2> QED
    BY <2>1, <2>2, <2>3, <2>4, TypeParts DEF LibraryInv
<1>19. ASSUME NEW p \in Announcers, reannounce_active(p) PROVE LibraryInv'
  <2>1. TablesOK'
    BY <1>19, SameTables DEF reannounce_active, LibraryInv
  <2>2. TorrentsOK'
    BY <1>19 DEF reannounce_active, LibraryInv, TypeOK, TorrentsOK
  <2>3. ControlOK'
    BY <1>19, CandidatesTyped
       DEF reannounce_active, Goto, LibraryInv, TypeOK, ControlOK, PCs
  <2>4. Roles' /\ AddCarries' /\ DownIsQuiet'
    BY <1>19, LibraryAssumption
       DEF reannounce_active, Goto, LibraryInv, Roles, AddCarries, DownIsQuiet, Adding
  <2> QED
    BY <2>1, <2>2, <2>3, <2>4, TypeParts DEF LibraryInv
<1>20. ASSUME NEW m \in Imdb, stream_target(m) PROVE LibraryInv'
  <2>1. TablesOK'
    <3>1. now \in Int
      BY DEF LibraryInv, TypeOK
    <3> QED
      BY <1>20, <3>1, SetMovie DEF stream_target, LibraryInv
  <2>2. TorrentsOK'
    BY <1>20 DEF stream_target, LibraryInv, TypeOK, TorrentsOK
  <2>3. ControlOK'
    BY <1>20 DEF stream_target, LibraryInv, TypeOK, ControlOK
  <2>4. Roles' /\ AddCarries' /\ DownIsQuiet'
    BY <1>20 DEF stream_target, LibraryInv, Roles, AddCarries, DownIsQuiet, Adding
  <2> QED
    BY <2>1, <2>2, <2>3, <2>4, TypeParts DEF LibraryInv
<1>21. ASSUME NEW m \in Imdb, set_last_used(m) PROVE LibraryInv'
  <2>1. TablesOK'
    <3>1. PICK ts \in Stamps \cup {now} : movie' = [movie EXCEPT ![m] = ts]
      BY <1>21 DEF set_last_used
    <3>2. ts \in Int
      BY LibraryAssumption DEF LibraryInv, TypeOK
    <3> QED
      BY <1>21, <3>1, <3>2, SetMovie DEF set_last_used, LibraryInv
  <2>2. TorrentsOK'
    BY <1>21 DEF set_last_used, LibraryInv, TypeOK, TorrentsOK
  <2>3. ControlOK'
    BY <1>21 DEF set_last_used, LibraryInv, TypeOK, ControlOK
  <2>4. Roles' /\ AddCarries' /\ DownIsQuiet'
    BY <1>21 DEF set_last_used, LibraryInv, Roles, AddCarries, DownIsQuiet, Adding
  <2> QED
    BY <2>1, <2>2, <2>3, <2>4, TypeParts DEF LibraryInv
<1>22. ASSUME NEW h \in Hashes, Download(h) PROVE LibraryInv'
  <2>1. TablesOK'
    BY <1>22, SameTables DEF Download, LibraryInv
  <2>2. TorrentsOK'
    BY <1>22 DEF Download, LibraryInv, TypeOK, TorrentsOK
  <2>3. ControlOK'
    BY <1>22 DEF Download, LibraryInv, TypeOK, ControlOK
  <2>4. Roles' /\ AddCarries' /\ DownIsQuiet'
    BY <1>22 DEF Download, LibraryInv, Roles, AddCarries, DownIsQuiet, Adding
  <2> QED
    BY <2>1, <2>2, <2>3, <2>4, TypeParts DEF LibraryInv
<1>23. ASSUME NEW h \in Hashes, watch_completion(h) PROVE LibraryInv'
  <2>1. TablesOK'
    BY <1>23, CompleteRow, SameTables DEF watch_completion, LibraryInv
  <2>2. TorrentsOK'
    BY <1>23 DEF watch_completion, LibraryInv, TypeOK, TorrentsOK
  <2>3. ControlOK'
    BY <1>23 DEF watch_completion, LibraryInv, TypeOK, ControlOK
  <2>4. Roles' /\ AddCarries' /\ DownIsQuiet'
    BY <1>23 DEF watch_completion, LibraryInv, Roles, AddCarries, DownIsQuiet, Adding
  <2> QED
    BY <2>1, <2>2, <2>3, <2>4, TypeParts DEF LibraryInv
<1>24. ASSUME Tick PROVE LibraryInv'
  <2>1. TablesOK'
    BY <1>24, SameTables DEF Tick, LibraryInv
  <2>2. TorrentsOK'
    BY <1>24 DEF Tick, LibraryInv, TypeOK, TorrentsOK
  <2>3. ControlOK'
    BY <1>24 DEF Tick, LibraryInv, TypeOK, ControlOK
  <2>4. Roles' /\ AddCarries' /\ DownIsQuiet'
    BY <1>24 DEF Tick, LibraryInv, Roles, AddCarries, DownIsQuiet, Adding
  <2> QED
    BY <2>1, <2>2, <2>3, <2>4, TypeParts DEF LibraryInv
<1>25. ASSUME Crash PROVE LibraryInv'
  <2>1. TablesOK'
    BY <1>25, SameTables DEF Crash, LibraryInv
  <2>2. TorrentsOK'
    BY <1>25 DEF Crash, LibraryInv, TypeOK, TorrentsOK
  <2>3. ControlOK'
    BY <1>25 DEF Crash, LibraryInv, TypeOK, ControlOK, PCs, NoRequest
  <2>4. Roles' /\ AddCarries' /\ DownIsQuiet'
    BY <1>25 DEF Crash, LibraryInv, Roles, AddCarries, DownIsQuiet, Adding
  <2> QED
    BY <2>1, <2>2, <2>3, <2>4, TypeParts DEF LibraryInv
<1>26. ASSUME start PROVE LibraryInv'
  <2>1. TablesOK'
    BY <1>26, SameTables DEF start, reconcile, LibraryInv
  <2>2. TorrentsOK'
    BY <1>26, RowsInHashes DEF start, reconcile, LibraryInv, TypeOK, TorrentsOK
  <2>3. ControlOK'
    BY <1>26 DEF start, reconcile, LibraryInv, TypeOK, ControlOK
  <2>4. Roles' /\ AddCarries' /\ DownIsQuiet'
    BY <1>26 DEF start, reconcile, LibraryInv, Roles, AddCarries, DownIsQuiet, Adding
  <2> QED
    BY <2>1, <2>2, <2>3, <2>4, TypeParts DEF LibraryInv
<1>27. CASE UNCHANGED vars
  BY <1>27
     DEF vars, LibraryInv, TypeOK, Roles, AddCarries, DownIsQuiet, Adding, Rows, Movies
<1> QED
  BY <1>1, <1>2, <1>3, <1>4, <1>5, <1>6, <1>7, <1>8, <1>9, <1>10, <1>11, <1>12, <1>13, <1>14,
      <1>15, <1>16, <1>17, <1>18, <1>19, <1>20, <1>21, <1>22, <1>23, <1>24, <1>25, <1>26, <1>27
  DEF Next, Step

\* The invariant holds in every reachable state.
LEMMA LibraryInvariant == Spec => []LibraryInv
  BY LibraryInit, LibraryStep, PTL DEF Spec

\* Type correctness of the library, whatever adds, removals, evictions, reloads
\* and crashes overlap: in particular no row outlives its movie and no completion
\* watcher its torrent.
THEOREM LibraryTypeCorrect == Spec => []TypeOK
<1>1. LibraryInv => TypeOK
  BY DEF LibraryInv
<1> QED
  BY <1>1, LibraryInvariant, PTL

\* add_movie holds add_lock from its first check until it is recorded or has
\* failed, through every eviction it makes room with.
THEOREM AddsAreSerialised == Spec => []OneAdder
<1>1. LibraryInv => OneAdder
  BY DEF LibraryInv, AddCarries, Adding, OneAdder, Procs
<1> QED
  BY <1>1, LibraryInvariant, PTL

-----------------------------------------------------------------------------
(* The budget.  An add that has planned its evictions has room for its     *)
(* torrent in what they will leave, and what they will leave only shrinks: *)
(* no other task inserts rows while it holds the lock.                     *)

\* No sum of two of the limits reaches 2^64.
NoOverflow == Budget + Budget < Word /\ Budget + MinFree < Word

\* An add that has its plan.
Planning(p) == Adding(p) /\ pc[p] # "resolve"

\* The rows that are left when the planned evictions of p are done.
Left(p) ==
    {h \in Rows : /\ \A c \in todo[p] : c.key # h
                  /\ pc[p] = "forget" => row[h].imdb # victim[p]}

HasRoom == \A p \in Procs : Planning(p) => SizeOf(Left(p)) + Size[req[p].hash] <= Budget

\* The torrent starts only when the plan is executed.
PlanDone == \A p \in Procs : pc[p] \in {"add", "upsert", "insert"} => todo[p] = {}

\* No download fills the disk beyond its size.
DiskHolds == SizeOf(data) <= DiskSize

WithinLimits == BudgetKept /\ HasRoom /\ PlanDone /\ DiskHolds
BudgetInv == LibraryInv /\ WithinLimits

\* What the sums of torrent sizes obey.
LEMMA SizeOfFacts ==
  /\ \A S \in SUBSET Hashes : SizeOf(S) \in Nat
  /\ SizeOf({}) = 0
  /\ \A S \in SUBSET Hashes : \A R \in SUBSET S : SizeOf(R) <= SizeOf(S)
  /\ \A S \in SUBSET Hashes : \A h \in Hashes : SizeOf(S \cup {h}) <= SizeOf(S) + Size[h]
<1>0. IsFiniteSet(Hashes) /\ Size \in [Hashes -> Nat]
  BY LibraryAssumption
<1>1. \A S : SizeOf(S) = Sum(Size, S)
  BY DEF SizeOf, Sum
<1>2. \A S \in SUBSET Hashes : Sum(Size, S) \in Nat
  BY <1>0, SumTake
<1>3. Sum(Size, {}) = 0
  BY <1>0, SumTake
<1>4. \A S \in SUBSET Hashes : \A R \in SUBSET S : Sum(Size, R) <= Sum(Size, S)
  BY <1>0, SumMonotone
<1>5. ASSUME NEW S \in SUBSET Hashes, NEW h \in Hashes
      PROVE  Sum(Size, S \cup {h}) <= Sum(Size, S) + Size[h]
  <2> DEFINE T == S \cup {h}
             R == T \ {h}
  <2>1. T \in SUBSET Hashes /\ h \in T /\ R \in SUBSET S
    OBVIOUS
  <2>2. Sum(Size, T) = Size[h] + Sum(Size, R)
    <3> HIDE DEF T
    <3> QED
      BY <1>0, <2>1, SumTake
  <2>3. Sum(Size, R) <= Sum(Size, S) /\ Sum(Size, R) \in Nat /\ Sum(Size, S) \in Nat
        /\ Size[h] \in Nat
    <3>1. R \in SUBSET Hashes
      OBVIOUS
    <3> HIDE DEF R
    <3> QED
      BY <1>0, <1>2, <1>4, <2>1, <3>1
  <2> HIDE DEF R
  <2> QED
    BY <2>2, <2>3
<1> QED
  BY <1>1, <1>2, <1>3, <1>4, <1>5

\* The rows make a library for the planner, of their total size.
LEMMA CandidatesLibrary ==
  ASSUME TypeOK
  PROVE  /\ IsLibrary(Candidates)
         /\ \A c \in Candidates : c.key \in Rows
         /\ \A h \in Rows : \E c \in Candidates : c.key = h
         /\ \A S \in SUBSET Candidates : TotalSize(S) = SizeOf({c.key : c \in S})
<1> DEFINE Cand(h) == [key |-> h, size |-> Size[h], last_used_at |-> movie[row[h].imdb],
                       protected |-> is_protected(movie[row[h].imdb])]
<1>1. Candidates = {Cand(h) : h \in Rows}
  BY DEF Candidates
<1>2. \A h \in Rows : Cand(h).key = h /\ Cand(h).size = Size[h]
  OBVIOUS
<1> HIDE DEF Cand
<1>3. IsFiniteSet(Candidates)
  <2> DEFINE cand == [h \in Rows |-> Cand(h)]
  <2>1. IsFiniteSet(Rows)
    BY RowsInHashes, LibraryAssumption, FS_Subset
  <2>2. cand \in Surjection(Rows, Candidates)
    BY <1>1 DEF Surjection
  <2> QED
    BY <2>1, <2>2, FS_Surjection
<1>4. Candidates \subseteq PlanCandidate
  <2>1. \A h \in Hashes : h \in Int
    BY LibraryAssumption
  <2>2. CandidateType \subseteq PlanCandidate
    BY <2>1 DEF CandidateType, PlanCandidate
  <2> QED
    BY <2>2, CandidatesTyped
<1>5. \A c \in Candidates : c.key \in Rows /\ c = Cand(c.key) /\ c.size = Size[c.key]
  BY <1>1, <1>2
<1>6. IsLibrary(Candidates)
  BY <1>3, <1>4, <1>5 DEF IsLibrary
<1>7. \A h \in Rows : \E c \in Candidates : c.key = h
  BY <1>1, <1>2
<1>8. ASSUME NEW S \in SUBSET Candidates
      PROVE  TotalSize(S) = SizeOf({c.key : c \in S})
  <2> DEFINE E == Candidates
             e == SizeIn(E)
             key == [c \in E |-> c.key]
             K == {c.key : c \in S}
  <2>1. IsFiniteSet(Hashes) /\ Size \in [Hashes -> Nat]
    BY LibraryAssumption
  <2>2. e \in [E -> Nat] /\ \A c \in E : e[c] = c.size
    BY <1>4 DEF SizeIn, PlanCandidate
  <2>3. key \in [E -> Hashes] /\ \A c \in E : key[c] = c.key
    BY <1>5, RowsInHashes
  <2>4. TotalSize(S) = Sum(e, S)
    BY <1>6, TotalSizeIsSum
  <2>5. {key[c] : c \in S} = K
    BY <2>3
  <2> HIDE DEF e, key, K, E
  <2>6. S \in SUBSET E /\ IsFiniteSet(E)
    BY <1>3 DEF E
  <2>7. \A x, y \in E : key[x] = key[y] => x = y
    BY <1>5, <2>3 DEF E
  <2>8. \A x \in E : e[x] = Size[key[x]]
    BY <1>5, <2>2, <2>3 DEF E
  <2>9. Sum(e, S) = Sum(Size, {key[c] : c \in S})
    BY <2>1, <2>2, <2>3, <2>6, <2>7, <2>8, SumRename
  <2>10. SizeOf(K) = Sum(Size, K)
    BY DEF SizeOf, Sum
  <2> QED
    BY <2>4, <2>5, <2>9, <2>10 DEF K
<1> QED
  BY <1>5, <1>6, <1>7, <1>8

\* A granted plan of ensure_space leaves room in the budget for what comes in.
LEMMA PlanLeavesRoom ==
  ASSUME TypeOK, BudgetKept, DiskHolds, NoOverflow, NEW incoming \in Nat,
         NEW r, r = SpacePlan(incoming), r.ok
  PROVE  SizeOf({h \in Rows : \A c \in Planned(r) : c.key # h}) + incoming <= Budget
<1> DEFINE cs == Candidates
           E == ToSet(r.evict)
           L == {h \in Rows : \A c \in Planned(r) : c.key # h}
<1>1. /\ IsLibrary(cs)
      /\ \A c \in cs : c.key \in Rows
      /\ \A h \in Rows : \E c \in cs : c.key = h
      /\ \A S \in SUBSET cs : TotalSize(S) = SizeOf({c.key : c \in S})
  BY CandidatesLibrary
<1> HIDE DEF cs
<1>2. TotalSize(cs) = SizeOf(Rows)
  <2>1. {c.key : c \in cs} = Rows
    BY <1>1
  <2> QED
    BY <1>1, <2>1
<1>3. PlanInput(cs, incoming, Budget, disk_free, MinFree)
  <2>1. SizeOf(Rows) \in Nat /\ SizeOf(data) \in Nat
    BY SizeOfFacts, RowsInHashes DEF TypeOK
  <2>2. Budget \in Nat /\ MinFree \in Nat /\ DiskSize \in Nat /\ Word \in Nat
    BY LibraryAssumption, WordAssumption
  <2>3. disk_free \in Nat
    BY <2>1, <2>2 DEF disk_free, DiskHolds
  <2>4. TotalSize(cs) + Budget < Word /\ Budget + MinFree < Word
    BY <1>2, <2>1, <2>2 DEF BudgetKept, NoOverflow
  <2> QED
    BY <1>1, <2>2, <2>3, <2>4 DEF PlanInput
<1>4. r = CatalogPlan(cs, TotalSize(cs), disk_free, incoming, Budget, MinFree)
  BY <1>2 DEF SpacePlan, cs
<1>5. E \subseteq cs /\ TotalSize(cs \ E) + incoming <= Budget
  <2> DEFINE needed == Needed(TotalSize(cs), incoming, Budget,
                              Extra(incoming, MinFree, disk_free))
  <2>1. LeastUsed(r.evict, cs, needed) /\ TotalSize(cs \ E) + incoming <= Budget
    BY <1>3, <1>4, PlanGranted
  <2> QED
    BY <2>1 DEF LeastUsed, Unprotected
<1>6. Planned(r) = E
  BY <1>5 DEF Planned, ToSet, cs
<1>7. {c.key : c \in cs \ E} = L
  <2>1. \A c, d \in cs : c.key = d.key => c = d
    BY <1>1 DEF IsLibrary
  <2> HIDE DEF E
  <2> QED
    BY <1>1, <1>5, <1>6, <2>1
<1>8. cs \ E \in SUBSET cs
  OBVIOUS
<1>9. TotalSize(cs \ E) = SizeOf(L)
  BY <1>1, <1>7, <1>8
<1> QED
  BY <1>5, <1>9

\* A step that adds no row and leaves each planned add at least the room it had.
LEMMA RoomKept ==
  ASSUME LibraryInv, BudgetKept, HasRoom, Rows' \subseteq Rows,
         \A p \in Procs : Planning(p)' =>
             Planning(p) /\ req'[p] = req[p] /\ Left(p)' \subseteq Left(p)
  PROVE  BudgetKept' /\ HasRoom'
<1>1. Rows \in SUBSET Hashes
  BY RowsInHashes
<1>2. \A S \in SUBSET Hashes : \A R \in SUBSET S :
         SizeOf(R) <= SizeOf(S) /\ SizeOf(R) \in Nat /\ SizeOf(S) \in Nat
  BY SizeOfFacts
<1>3. Budget \in Nat
  BY LibraryAssumption
<1>4. BudgetKept'
  <2>1. SizeOf(Rows') <= SizeOf(Rows) /\ SizeOf(Rows') \in Nat /\ SizeOf(Rows) \in Nat
    BY <1>1, <1>2
  <2>2. SizeOf(Rows') <= Budget
    BY <1>3, <2>1 DEF BudgetKept
  <2>3. SizeOf(Rows)' = SizeOf(Rows')
    OBVIOUS
  <2> QED
    BY <2>2, <2>3 DEF BudgetKept
<1>5. ASSUME NEW p \in Procs, Planning(p)'
      PROVE  SizeOf(Left(p)') + Size[req'[p].hash] <= Budget
  <2>1. Planning(p) /\ req'[p] = req[p] /\ Left(p)' \subseteq Left(p)
    BY <1>5
  <2>2. Left(p) \in SUBSET Hashes /\ Left(p)' \in SUBSET Left(p)
    BY <1>1, <2>1 DEF Left
  <2>3. SizeOf(Left(p)') <= SizeOf(Left(p)) /\ SizeOf(Left(p)') \in Nat /\ SizeOf(Left(p)) \in Nat
    BY <1>2, <2>2
  <2>4. SizeOf(Left(p)) + Size[req[p].hash] <= Budget
    BY <2>1 DEF HasRoom
  <2>5. Size[req[p].hash] \in Nat
    BY <2>1, LibraryAssumption DEF LibraryInv, AddCarries, Planning
  <2> QED
    BY <1>3, <2>1, <2>3, <2>4, <2>5
<1>6. HasRoom'
  BY <1>5 DEF HasRoom
<1> QED
  BY <1>4, <1>6

\* The disk holds what is left of its data.
LEMMA DiskKept ==
  ASSUME TypeOK, DiskHolds, data' \subseteq data
  PROVE  DiskHolds'
<1>1. SizeOf(data') <= SizeOf(data) /\ SizeOf(data') \in Nat /\ SizeOf(data) \in Nat
  <2>1. data \in SUBSET Hashes /\ data' \in SUBSET data /\ data' \in SUBSET Hashes
    BY DEF TypeOK
  <2> QED
    BY <2>1, SizeOfFacts
<1>2. SizeOf(data') <= DiskSize
  BY <1>1, LibraryAssumption DEF DiskHolds
<1> QED
  BY <1>2 DEF DiskHolds

\* A step of one task that adds no row, no data and nothing to what it has planned.
OnlyMoves(p) ==
    /\ \A q \in Procs \ {p} : /\ pc'[q] = pc[q] /\ req'[q] = req[q]
                              /\ todo'[q] = todo[q] /\ victim'[q] = victim[q]
    /\ Rows' \subseteq Rows
    /\ \A h \in Rows' : row'[h].imdb = row[h].imdb
    /\ data' \subseteq data

\* Such a step keeps the limits if it keeps the task's own plan.
LEMMA OneMoves ==
  ASSUME BudgetInv, NEW p \in Procs, OnlyMoves(p),
         Planning(p)' => Planning(p) /\ req'[p] = req[p] /\ Left(p)' \subseteq Left(p),
         pc'[p] \in {"add", "upsert", "insert"} => todo'[p] = {}
  PROVE  WithinLimits'
<1>1. ASSUME NEW q \in Procs, q # p, Planning(q)'
      PROVE  Planning(q) /\ req'[q] = req[q] /\ Left(q)' \subseteq Left(q)
  BY <1>1 DEF OnlyMoves, Planning, Adding, Left
<1>2. \A q \in Procs : Planning(q)' =>
             Planning(q) /\ req'[q] = req[q] /\ Left(q)' \subseteq Left(q)
  BY <1>1
<1>3. BudgetKept' /\ HasRoom'
  BY <1>2, RoomKept DEF OnlyMoves, BudgetInv, WithinLimits
<1>4. PlanDone'
  BY DEF OnlyMoves, PlanDone, BudgetInv, WithinLimits
<1>5. DiskHolds'
  BY DiskKept DEF OnlyMoves, BudgetInv, WithinLimits, LibraryInv
<1> QED
  BY <1>3, <1>4, <1>5 DEF WithinLimits

\* The end of a task.
LEMMA ReturnKeeps ==
  ASSUME BudgetInv, NEW p \in Procs, Return(p), row' = row, data' \subseteq data
  PROVE  WithinLimits'
<1>1. pc'[p] = "idle" /\ OnlyMoves(p)
  BY DEF Return, Goto, OnlyMoves, BudgetInv, LibraryInv, TypeOK, Rows
<1>2. ~Planning(p)'
  BY <1>1 DEF Planning, Adding
<1> QED
  BY <1>1, <1>2, OneMoves

\* The rows, tasks and plans that no task moves.
LEMMA NoneMoves ==
  ASSUME BudgetInv, UNCHANGED <<row, pc, locals>>
  PROVE  BudgetKept' /\ HasRoom' /\ PlanDone'
<1> USE DEF locals
<1>1. Rows' = Rows
  BY DEF Rows
<1>2. \A q \in Procs : Planning(q)' =>
             Planning(q) /\ req'[q] = req[q] /\ Left(q)' \subseteq Left(q)
  BY DEF Planning, Adding, Left, Rows
<1>3. BudgetKept' /\ HasRoom'
  BY <1>1, <1>2, RoomKept DEF BudgetInv, WithinLimits
<1> QED
  BY <1>3 DEF PlanDone, BudgetInv, WithinLimits

\* The first start is within every limit.
LEMMA BudgetInit == Init => BudgetInv
<1> SUFFICES ASSUME Init PROVE BudgetInv
  OBVIOUS
<1>1. LibraryInv
  BY LibraryInit
<1>2. Rows = {} /\ data = {}
  BY DEF Init, Rows
<1>3. BudgetKept /\ DiskHolds
  BY <1>2, SizeOfFacts, LibraryAssumption DEF BudgetKept, DiskHolds
<1>4. HasRoom /\ PlanDone
  BY DEF Init, HasRoom, PlanDone, Planning, Adding, NoRequest
<1> QED
  BY <1>1, <1>3, <1>4 DEF BudgetInv, WithinLimits

\* add_resolved: the plan leaves room for the torrent.
LEMMA ResolvedHasRoom ==
  ASSUME NoOverflow, BudgetInv, NEW p \in Procs, add_resolved(p)
  PROVE  WithinLimits'
<1> USE DEF tables, torrent, locals
<1>1. PICK r : /\ r = SpacePlan(Size[req[p].hash]) /\ r.ok
               /\ todo' = [todo EXCEPT ![p] = Planned(r)]
  BY DEF add_resolved
<1>2. /\ pc[p] = "resolve" /\ pc' = [pc EXCEPT ![p] = "evict"]
      /\ UNCHANGED <<row, data, req, victim>>
  BY DEF add_resolved, Goto
<1>3. TypeOK /\ req[p].hash \in Hashes
  BY <1>2 DEF BudgetInv, LibraryInv, AddCarries, Adding
<1>4. Size[req[p].hash] \in Nat
  BY <1>3, LibraryAssumption
<1>5. SizeOf({h \in Rows : \A c \in Planned(r) : c.key # h}) + Size[req[p].hash] <= Budget
  BY <1>1, <1>3, <1>4, PlanLeavesRoom DEF BudgetInv, WithinLimits
<1>6. Left(p)' = {h \in Rows : \A c \in Planned(r) : c.key # h}
  BY <1>1, <1>2, <1>3 DEF Left, Rows, TypeOK
<1>7. Rows' = Rows
  BY <1>2 DEF Rows
<1>8. ASSUME NEW q \in Procs, q # p PROVE ~Planning(q)'
  <2>1. pc'[q] = pc[q] /\ req'[q] = req[q]
    BY <1>2, <1>3, <1>8 DEF TypeOK
  <2>2. lock = p /\ (Adding(q) => lock = q)
    BY <1>2 DEF BudgetInv, LibraryInv, AddCarries, Adding
  <2> QED
    BY <1>8, <2>1, <2>2 DEF Planning, Adding
<1>9. HasRoom'
  BY <1>2, <1>5, <1>6, <1>8 DEF HasRoom
<1>10. BudgetKept'
  BY <1>7 DEF BudgetInv, WithinLimits, BudgetKept
<1>11. PlanDone'
  BY <1>1, <1>2, <1>3 DEF BudgetInv, WithinLimits, PlanDone, TypeOK
<1>12. DiskHolds'
  BY <1>2 DEF BudgetInv, WithinLimits, DiskHolds
<1> QED
  BY <1>9, <1>10, <1>11, <1>12 DEF WithinLimits

\* record_torrent: the row it inserts takes the room the add was given.
LEMMA RecordFits ==
  ASSUME BudgetInv, NEW p \in Procs, record_torrent(p)
  PROVE  WithinLimits'
<1> USE DEF tables, torrent, locals
<1>1. pc[p] = "insert" /\ Return(p) /\ data' = data
  BY DEF record_torrent
<1>2. TypeOK /\ Adding(p) /\ lock = p /\ req[p].hash \in Hashes
  BY <1>1 DEF BudgetInv, LibraryInv, AddCarries, Adding
<1>3. todo[p] = {}
  BY <1>1 DEF BudgetInv, WithinLimits, PlanDone
<1>4. SizeOf(Rows) + Size[req[p].hash] <= Budget
  <2>1. Left(p) = Rows
    BY <1>1, <1>3 DEF Left
  <2> QED
    BY <1>1, <1>2, <2>1 DEF BudgetInv, WithinLimits, HasRoom, Planning
<1>5. Rows' \subseteq Rows \cup {req[p].hash}
  BY DEF record_torrent, Rows, BudgetInv, LibraryInv, TypeOK
<1>6. BudgetKept'
  <2> DEFINE T == Rows \cup {req[p].hash}
  <2>1. T \in SUBSET Hashes /\ Rows' \in SUBSET T /\ Rows \in SUBSET Hashes
    BY <1>2, <1>5, RowsInHashes
  <2>2. SizeOf(T) <= SizeOf(Rows) + Size[req[p].hash]
    BY <1>2, <2>1, SizeOfFacts
  <2>3. SizeOf(Rows') <= SizeOf(T) /\ SizeOf(Rows') \in Nat /\ SizeOf(T) \in Nat
    <3>1. Rows' \in SUBSET Hashes
      BY <2>1
    <3> HIDE DEF T
    <3> QED
      BY <2>1, <3>1, SizeOfFacts
  <2>4. SizeOf(Rows) \in Nat /\ Size[req[p].hash] \in Nat /\ Budget \in Nat
    BY <1>2, <2>1, SizeOfFacts, LibraryAssumption
  <2> HIDE DEF T
  <2>5. SizeOf(Rows') <= Budget
    BY <1>4, <2>2, <2>3, <2>4
  <2> QED
    BY <2>5 DEF BudgetKept
<1>7. ASSUME NEW q \in Procs PROVE ~Planning(q)'
  <2>1. CASE q = p
    BY <1>1, <1>2, <2>1 DEF Return, Goto, Planning, Adding, TypeOK
  <2>2. CASE q # p
    <3>1. pc'[q] = pc[q] /\ req'[q] = req[q]
      BY <1>1, <1>2, <2>2 DEF Return, Goto, TypeOK
    <3>2. Adding(q) => lock = q
      BY DEF BudgetInv, LibraryInv, AddCarries
    <3> QED
      BY <1>2, <2>2, <3>1, <3>2 DEF Planning, Adding
  <2> QED
    BY <2>1, <2>2
<1>8. HasRoom'
  BY <1>7 DEF HasRoom
<1>9. PlanDone'
  BY <1>1, <1>2 DEF BudgetInv, WithinLimits, PlanDone, Return, Goto, TypeOK
<1>10. DiskHolds'
  BY <1>1 DEF BudgetInv, WithinLimits, DiskHolds
<1> QED
  BY <1>6, <1>8, <1>9, <1>10 DEF WithinLimits

\* evict: the movie it is about to forget takes the place of the candidate.
LEMMA EvictKeepsRoom ==
  ASSUME BudgetInv, NEW p \in Procs, evict(p)
  PROVE  WithinLimits'
<1> USE DEF tables, torrent, locals
<1>1. PICK c \in todo[p] :
        /\ todo' = [todo EXCEPT ![p] = @ \ {c}]
        /\ victim' = [victim EXCEPT ![p] = IF c.key \in Rows THEN row[c.key].imdb ELSE NoMovie]
  BY DEF evict
<1>2. /\ pc[p] = "evict" /\ pc' = [pc EXCEPT ![p] = "forget"]
      /\ UNCHANGED <<row, req>> /\ data' \subseteq data
  BY DEF evict, Goto, DropTorrent
<1>3. TypeOK /\ Rows' = Rows
  BY <1>2 DEF BudgetInv, LibraryInv, Rows
<1>4. OnlyMoves(p) /\ pc'[p] = "forget" /\ req'[p] = req[p]
      /\ todo'[p] = todo[p] \ {c}
      /\ victim'[p] = (IF c.key \in Rows THEN row[c.key].imdb ELSE NoMovie)
  BY <1>1, <1>2, <1>3 DEF OnlyMoves, TypeOK
<1>5. Left(p)' \subseteq Left(p)
  BY <1>2, <1>3, <1>4 DEF Left
<1>6. Planning(p)' => Planning(p)
  BY <1>2, <1>4 DEF Planning, Adding, BudgetInv, LibraryInv, Roles, NoRequest, Procs
<1> QED
  BY <1>4, <1>5, <1>6, OneMoves

\* forget: what it deletes was not counted as left.
LEMMA ForgetKeepsRoom ==
  ASSUME BudgetInv, NEW p \in Procs, forget(p)
  PROVE  WithinLimits'
<1> USE DEF tables, torrent, locals
<1>1. /\ TypeOK /\ pc[p] = "forget" /\ data' = data
      /\ IF victim[p] \in Imdb THEN DeleteMovie(victim[p]) ELSE UNCHANGED tables
  BY DEF forget, BudgetInv, LibraryInv
<1>2. \A h \in Rows' : h \in Rows /\ row'[h] = row[h] /\ row[h].imdb # victim[p]
  <2>1. CASE victim[p] \in Imdb
    BY <1>1, <2>1 DEF DeleteMovie, Rows, RowsOf, TypeOK
  <2>2. CASE victim[p] \notin Imdb
    BY <1>1, <2>2 DEF Rows, Movies, TypeOK
  <2> QED
    BY <2>1, <2>2
<1>3. CASE Return(p)
  <2>1. pc'[p] = "idle"
    BY <1>1, <1>3 DEF Return, Goto, TypeOK
  <2>2. OnlyMoves(p)
    BY <1>1, <1>2, <1>3 DEF Return, Goto, TypeOK, OnlyMoves
  <2>3. ~Planning(p)'
    BY <2>1 DEF Planning, Adding
  <2> QED
    BY <2>1, <2>2, <2>3, OneMoves
<1>4. CASE /\ Goto(p, "evict") /\ victim' = [victim EXCEPT ![p] = NoMovie]
           /\ UNCHANGED <<req, todo>>
           /\ req[p].hash # 0 \/ p \in Sweepers
  <2>1. pc'[p] = "evict" /\ OnlyMoves(p) /\ req'[p] = req[p] /\ todo'[p] = todo[p]
    BY <1>1, <1>2, <1>4 DEF Goto, TypeOK, OnlyMoves
  <2>2. Left(p)' \subseteq Left(p)
    BY <1>2, <2>1 DEF Left
  <2>3. Planning(p)' => Planning(p)
    BY <1>1, <1>4, <2>1, LibraryAssumption DEF Planning, Adding
  <2> QED
    BY <2>1, <2>2, <2>3, OneMoves
<1> QED
  BY <1>3, <1>4 DEF forget

\* Every step keeps the limits: one case per action.
LEMMA BudgetStep ==
  ASSUME NoOverflow, BudgetInv, [Next]_vars
  PROVE  BudgetInv'
<1> USE DEF tables, torrent, locals
<1>0. LibraryInv' /\ LibraryInv /\ TypeOK
  BY LibraryStep DEF BudgetInv, LibraryInv
<1> SUFFICES WithinLimits'
  BY <1>0 DEF BudgetInv
<1>1. ASSUME NEW p \in Api, add_movie(p) PROVE WithinLimits'
  <2>1. p \in Procs /\ pc'[p] = "resolve" /\ OnlyMoves(p)
    BY <1>0, <1>1 DEF add_movie, Goto, OnlyMoves, Rows, TypeOK, Procs
  <2>2. ~Planning(p)'
    BY <2>1 DEF Planning
  <2> QED
    BY <2>1, <2>2, OneMoves
<1>2. ASSUME NEW p \in Api, set_movie_limits(p) PROVE WithinLimits'
  <2>1. p \in Procs /\ pc'[p] = "reload_in" /\ OnlyMoves(p)
    BY <1>0, <1>2 DEF set_movie_limits, ReloadOut, Goto, OnlyMoves, Rows, TypeOK, Procs
  <2>2. ~Planning(p)'
    BY <2>1 DEF Planning, Adding
  <2> QED
    BY <2>1, <2>2, OneMoves
<1>3. ASSUME NEW p \in Api, remove_movie(p) PROVE WithinLimits'
  <2>1. p \in Procs /\ pc[p] = "idle" /\ pc'[p] = "forget" /\ req'[p] = req[p] /\ data' \subseteq data
    BY <1>0, <1>3 DEF remove_movie, DropTorrent, Goto, TypeOK, Procs
  <2>2. OnlyMoves(p)
    BY <1>0, <1>3, <2>1 DEF remove_movie, Goto, OnlyMoves, Rows, TypeOK
  <2>3. ~Planning(p)'
    BY <1>0, <2>1 DEF Planning, Adding, LibraryInv, Roles, NoRequest
  <2> QED
    BY <2>1, <2>2, <2>3, OneMoves
<1>4. ASSUME NEW p \in Procs, add_resolved(p) PROVE WithinLimits'
  BY <1>4, ResolvedHasRoom
<1>5. ASSUME NEW p \in Procs, add_fails(p) PROVE WithinLimits'
  BY <1>5, ReturnKeeps DEF add_fails
<1>6. ASSUME NEW p \in Procs, add_torrent(p) PROVE WithinLimits'
  <2>1. /\ pc[p] = "add" /\ pc'[p] = "upsert" /\ req'[p] = req[p] /\ todo'[p] = todo[p]
        /\ OnlyMoves(p)
    BY <1>0, <1>6 DEF add_torrent, AddTorrent, Goto, OnlyMoves, Rows, TypeOK
  <2>2. Planning(p) /\ Left(p)' \subseteq Left(p)
    BY <1>6, <2>1 DEF add_torrent, Planning, Adding, Left, Rows
  <2>3. todo'[p] = {}
    BY <2>1 DEF BudgetInv, WithinLimits, PlanDone
  <2> QED
    BY <2>1, <2>2, <2>3, OneMoves
<1>7. ASSUME NEW p \in Procs, record_movie(p) PROVE WithinLimits'
  <2>1. /\ pc[p] = "upsert" /\ pc'[p] = "insert" /\ req'[p] = req[p] /\ todo'[p] = todo[p]
        /\ OnlyMoves(p)
    BY <1>0, <1>7 DEF record_movie, Goto, OnlyMoves, Rows, TypeOK
  <2>2. Planning(p) /\ Left(p)' \subseteq Left(p)
    BY <1>7, <2>1 DEF record_movie, Planning, Adding, Left, Rows
  <2>3. todo'[p] = {}
    BY <2>1 DEF BudgetInv, WithinLimits, PlanDone
  <2> QED
    BY <2>1, <2>2, <2>3, OneMoves
<1>8. ASSUME NEW p \in Procs, record_torrent(p) PROVE WithinLimits'
  BY <1>8, RecordFits
<1>9. ASSUME NEW p \in Procs, evict(p) PROVE WithinLimits'
  BY <1>9, EvictKeepsRoom
<1>10. ASSUME NEW p \in Procs, evict_fails(p) PROVE WithinLimits'
  BY <1>10, ReturnKeeps DEF evict_fails
<1>11. ASSUME NEW p \in Procs, evicted(p) PROVE WithinLimits'
  <2>1. CASE Return(p)
    BY <1>11, <2>1, ReturnKeeps DEF evicted
  <2>2. CASE p \in Api /\ Goto(p, "add") /\ UNCHANGED locals
    <3>1. /\ pc[p] = "evict" /\ pc'[p] = "add" /\ req'[p] = req[p] /\ todo'[p] = {}
          /\ todo[p] = {} /\ OnlyMoves(p)
      BY <1>0, <1>11, <2>2 DEF evicted, Goto, OnlyMoves, Rows, TypeOK
    <3>2. Planning(p) /\ Left(p)' \subseteq Left(p)
      BY <1>11, <2>2, <3>1 DEF evicted, Planning, Adding, Left, Rows
    <3> QED
      BY <3>1, <3>2, OneMoves
  <2> QED
    BY <1>11, <2>1, <2>2 DEF evicted
<1>12. ASSUME NEW p \in Procs, forget(p) PROVE WithinLimits'
  BY <1>12, ForgetKeepsRoom
<1>13. ASSUME NEW p \in Procs, forget_fails(p) PROVE WithinLimits'
  BY <1>13, ReturnKeeps DEF forget_fails
<1>14. ASSUME NEW p \in Procs, reannounce_skip(p) PROVE WithinLimits'
  <2>1. CASE Return(p)
    BY <1>14, <2>1, ReturnKeeps DEF reannounce_skip
  <2>2. CASE ~Return(p)
    <3>1. pc'[p] = "reload" /\ OnlyMoves(p)
      BY <1>0, <1>14, <2>2 DEF reannounce_skip, OnlyMoves, Rows, TypeOK
    <3>2. ~Planning(p)'
      BY <3>1 DEF Planning, Adding
    <3> QED
      BY <3>1, <3>2, OneMoves
  <2> QED
    BY <2>1, <2>2
<1>15. ASSUME NEW p \in Procs, reannounce(p) PROVE WithinLimits'
  <2>1. pc'[p] = "reload_in" /\ OnlyMoves(p)
    BY <1>0, <1>15 DEF reannounce, ReloadOut, Goto, OnlyMoves, Rows, TypeOK
  <2>2. ~Planning(p)'
    BY <2>1 DEF Planning, Adding
  <2> QED
    BY <2>1, <2>2, OneMoves
<1>16. ASSUME NEW p \in Procs, reload_in(p) PROVE WithinLimits'
  <2>1. CASE Return(p)
    BY <1>16, <2>1, ReturnKeeps DEF reload_in, AddTorrent
  <2>2. CASE ~Return(p)
    <3>1. pc'[p] = "reload" /\ OnlyMoves(p)
      BY <1>0, <1>16, <2>2 DEF reload_in, AddTorrent, Goto, OnlyMoves, Rows, TypeOK
    <3>2. ~Planning(p)'
      BY <3>1 DEF Planning, Adding
    <3> QED
      BY <3>1, <3>2, OneMoves
  <2> QED
    BY <2>1, <2>2
<1>17. ASSUME NEW p \in Procs, reload_fails(p) PROVE WithinLimits'
  BY <1>17, ReturnKeeps DEF reload_fails
<1>18. ASSUME NEW p \in Sweepers, sweep(p) PROVE WithinLimits'
  <2>1. p \in Procs /\ pc'[p] = "evict" /\ OnlyMoves(p)
    BY <1>0, <1>18 DEF sweep, Goto, OnlyMoves, Rows, TypeOK, Procs
  <2>2. ~Planning(p)'
    BY <1>18, <2>1, LibraryAssumption DEF Planning, Adding
  <2> QED
    BY <2>1, <2>2, OneMoves
<1>19. ASSUME NEW p \in Announcers, reannounce_active(p) PROVE WithinLimits'
  <2>1. p \in Procs /\ pc'[p] = "reload" /\ OnlyMoves(p)
    BY <1>0, <1>19 DEF reannounce_active, Goto, OnlyMoves, Rows, TypeOK, Procs
  <2>2. ~Planning(p)'
    BY <2>1 DEF Planning, Adding
  <2> QED
    BY <2>1, <2>2, OneMoves
<1>20. ASSUME NEW m \in Imdb, stream_target(m) PROVE WithinLimits'
  BY <1>0, <1>20, NoneMoves, DiskKept DEF stream_target, WithinLimits, BudgetInv
<1>21. ASSUME NEW m \in Imdb, set_last_used(m) PROVE WithinLimits'
  BY <1>0, <1>21, NoneMoves, DiskKept DEF set_last_used, WithinLimits, BudgetInv
<1>22. ASSUME NEW h \in Hashes, Download(h) PROVE WithinLimits'
  <2>1. BudgetKept' /\ HasRoom' /\ PlanDone'
    BY <1>22, NoneMoves DEF Download
  <2>2. DiskHolds'
    <3>1. data' = data \cup {h} /\ DiskSize - SizeOf(data) >= Size[h]
      BY <1>22 DEF Download, disk_free
    <3>2. /\ data \in SUBSET Hashes /\ SizeOf(data) \in Nat
          /\ data \cup {h} \in SUBSET Hashes
      BY <1>0, SizeOfFacts DEF TypeOK
    <3>3. SizeOf(data \cup {h}) <= SizeOf(data) + Size[h] /\ SizeOf(data \cup {h}) \in Nat
      BY <3>2, SizeOfFacts
    <3>4. SizeOf(data') <= DiskSize
      BY <3>1, <3>2, <3>3, LibraryAssumption
    <3> QED
      BY <3>4 DEF DiskHolds
  <2> QED
    BY <2>1, <2>2 DEF WithinLimits
<1>23. ASSUME NEW h \in Hashes, watch_completion(h) PROVE WithinLimits'
  <2>1. \A g \in Hashes : (row'[g] # NoRow) <=> (row[g] # NoRow)
    <3>1. CASE h \notin Rows
      BY <1>23, <3>1 DEF watch_completion
    <3>2. CASE h \in Rows
      <4>1. row' = [row EXCEPT ![h].completed = TRUE] /\ row[h] \in Row
        BY <1>0, <1>23, <3>2 DEF watch_completion, Rows, TypeOK
      <4>2. [row[h] EXCEPT !.completed = TRUE] \in Row
        BY <4>1 DEF Row
      <4> QED
        BY <1>0, <3>2, <4>1, <4>2, NoRowAssumption DEF TypeOK, Rows
    <3> QED
      BY <3>1, <3>2
  <2>2. Rows' = Rows
    BY <2>1 DEF Rows
  <2>3. \A g \in Rows' : row'[g].imdb = row[g].imdb
    <3>1. CASE h \notin Rows
      BY <1>23, <3>1 DEF watch_completion
    <3>2. CASE h \in Rows
      <4>1. row' = [row EXCEPT ![h].completed = TRUE] /\ row[h] \in Row
        BY <1>0, <1>23, <3>2 DEF watch_completion, Rows, TypeOK
      <4>2. [row[h] EXCEPT !.completed = TRUE].imdb = row[h].imdb
        BY <4>1 DEF Row
      <4>3. \A g \in Hashes : row'[g] = IF g = h THEN [row[h] EXCEPT !.completed = TRUE] ELSE row[g]
        BY <1>0, <4>1 DEF TypeOK
      <4> QED
        BY <2>2, <4>2, <4>3, RowsInHashes
    <3> QED
      BY <3>1, <3>2
  <2>4. \A q \in Procs : Planning(q)' =>
             Planning(q) /\ req'[q] = req[q] /\ Left(q)' \subseteq Left(q)
    BY <1>23, <2>2, <2>3 DEF watch_completion, Planning, Adding, Left
  <2>5. BudgetKept' /\ HasRoom'
    BY <1>0, <2>2, <2>4, RoomKept DEF BudgetInv, WithinLimits
  <2>6. PlanDone' /\ DiskHolds'
    BY <1>0, <1>23, DiskKept DEF watch_completion, PlanDone, BudgetInv, WithinLimits
  <2> QED
    BY <2>5, <2>6 DEF WithinLimits
<1>24. ASSUME Tick PROVE WithinLimits'
  BY <1>0, <1>24, NoneMoves, DiskKept DEF Tick, WithinLimits, BudgetInv
<1>25. ASSUME Crash PROVE WithinLimits'
  <2>1. \A q \in Procs : pc'[q] = "idle"
    BY <1>25 DEF Crash
  <2>2. \A q \in Procs : ~Planning(q)'
    BY <2>1 DEF Planning, Adding
  <2>3. Rows' = Rows /\ data' = data
    BY <1>25 DEF Crash, Rows
  <2>4. BudgetKept' /\ HasRoom'
    BY <1>0, <2>2, <2>3, RoomKept DEF BudgetInv, WithinLimits
  <2>5. PlanDone' /\ DiskHolds'
    BY <1>0, <2>1, <2>3, DiskKept DEF PlanDone, BudgetInv, WithinLimits
  <2> QED
    BY <2>4, <2>5 DEF WithinLimits
<1>26. ASSUME start PROVE WithinLimits'
  <2>1. data' \subseteq data
    BY <1>26 DEF start, reconcile
  <2> QED
    BY <1>0, <1>26, <2>1, NoneMoves, DiskKept DEF start, WithinLimits, BudgetInv
<1>27. CASE UNCHANGED vars
  BY <1>0, <1>27, NoneMoves, DiskKept DEF vars, WithinLimits, BudgetInv
<1> QED
  BY <1>1, <1>2, <1>3, <1>4, <1>5, <1>6, <1>7, <1>8, <1>9, <1>10, <1>11, <1>12, <1>13, <1>14,
      <1>15, <1>16, <1>17, <1>18, <1>19, <1>20, <1>21, <1>22, <1>23, <1>24, <1>25, <1>26, <1>27
  DEF Next, Step

\* The limits hold in every reachable state.
LEMMA BudgetInvariant == ASSUME NoOverflow PROVE Spec => []BudgetInv
<1>1. Init => BudgetInv
  BY BudgetInit
<1>2. BudgetInv /\ [Next]_vars => BudgetInv'
  BY BudgetStep
<1> QED
  BY <1>1, <1>2, PTL DEF Spec

\* --disk-budget: the catalog never holds more than the budget, for any number of
\* torrents, requests and tasks, any sizes, and wherever removals, sweeps, failures
\* and crashes fall, as long as no two limits add up to 2^64.
THEOREM CatalogWithinBudget == ASSUME NoOverflow PROVE Spec => []BudgetKept
<1>1. BudgetInv => BudgetKept
  BY DEF BudgetInv, WithinLimits
<1> QED
  BY <1>1, BudgetInvariant, PTL

\* reconcile: where every torrent without a row can be deleted, each start leaves
\* only recorded torrents in the session, within the budget, and no data of what
\* was not recorded.
THEOREM StartReconciles ==
  ASSUME NoOverflow, OrphansStay = FALSE PROVE Spec => RestartHeals
<1> DEFINE Heals == ~up /\ up' =>
                      /\ session' \subseteq Rows
                      /\ SizeOf(session') <= Budget
                      /\ data' \cap (session \ Rows) = {}
<1>1. ASSUME BudgetInv, [Next]_vars PROVE [Heals]_vars
  <2>1. SUFFICES ASSUME ~up, up' PROVE Heals
    BY <1>1
  <2>2. start
    <3> USE DEF tables, torrent, locals
    <3>1. ~ \E p \in Procs : Step(p)
      <4>1. \A p \in Procs : pc[p] = "idle"
        BY <1>1, <2>1 DEF BudgetInv, LibraryInv, DownIsQuiet
      <4> QED
        BY <4>1
           DEF Step, add_resolved, add_fails, add_torrent, record_movie, record_torrent,
               evict, evict_fails, evicted, forget, forget_fails, reannounce_skip,
               reannounce, reload_in, reload_fails
    <3>2. ~ \E p \in Api : add_movie(p) \/ remove_movie(p) \/ set_movie_limits(p)
      BY <2>1 DEF add_movie, remove_movie, set_movie_limits
    <3>3. ~ \E p \in Sweepers : sweep(p)
      BY <2>1 DEF sweep
    <3>4. ~ \E p \in Announcers : reannounce_active(p)
      BY <2>1 DEF reannounce_active
    <3>5. ~ \E m \in Imdb : stream_target(m) \/ set_last_used(m)
      BY <2>1 DEF stream_target, set_last_used
    <3>6. ~ (\E h \in Hashes : Download(h) \/ watch_completion(h)) /\ ~Tick /\ ~Crash
      BY <2>1 DEF Download, watch_completion, Tick, Crash
    <3> QED
      BY <1>1, <2>1, <3>1, <3>2, <3>3, <3>4, <3>5, <3>6 DEF Next, vars
  <2>3. PICK failed \in SUBSET (Rows \ session) : reconcile({}, failed)
    BY <2>2 DEF start
  <2>4. session' = Rows \ failed /\ data' = data \ (session \ Rows)
    BY <2>3 DEF reconcile
  <2>5. SizeOf(session') <= Budget
    <3>1. Rows \in SUBSET Hashes /\ session' \in SUBSET Rows /\ session' \in SUBSET Hashes
      BY <2>4, RowsInHashes
    <3>2. SizeOf(session') <= SizeOf(Rows) /\ SizeOf(session') \in Nat /\ SizeOf(Rows) \in Nat
      BY <3>1, SizeOfFacts
    <3> QED
      BY <1>1, <3>2, LibraryAssumption DEF BudgetInv, WithinLimits, BudgetKept
  <2> QED
    BY <2>4, <2>5
<1> QED
  BY <1>1, BudgetInvariant, PTL DEF Spec, RestartHeals
=============================================================================
