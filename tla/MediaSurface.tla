---------------------------- MODULE MediaSurface ----------------------------
(***************************************************************************)
(* What players and API clients see of the library while it changes under  *)
(* them: the Stremio catalogue that is fetched page by page, the DLNA      *)
(* folder whose object ids are positions, the streams both lead to, and    *)
(* concurrent PATCHes of a movie's limits.                                 *)
(*                                                                         *)
(* The catalog has two tables: the movies with their titles, and the       *)
(* torrents in insertion order.  A movie can have several torrents: adding *)
(* it again is refused only while its newest torrent is in the session.    *)
(* An add writes the movie first, which refreshes the title of one that is *)
(* there, and then the torrent.  A title stands for all a search looks at, *)
(* the genres too.                                                         *)
(***************************************************************************)
EXTENDS Integers, Sequences, SequencesExt, FiniteSets

CONSTANTS
    Hashes,    \* info hashes: pairs of a movie and a number
    Titles,    \* the titles a movie may have, as numbers that sort like them
    Times,     \* what the clock may say when a movie is added, in seconds
    Page,      \* entries per catalogue page, 100 in the code
    Queries,   \* what a search or a genre lets through, as sets of titles
    Patched,   \* the movies that are patched
    Clients,   \* concurrent PATCH requests
    Limits,    \* the limits they set; 0 is none
    Connected  \* the kinds of clients: "player", "api"

Movies == {h[1] : h \in Hashes}
NoLimit == 0
Root == 0

ASSUME SurfaceAssumption ==
    /\ Page \in Nat \ {0}
    /\ NoLimit \in Limits
    /\ Queries \subseteq SUBSET Nat
    /\ Titles \subseteq Nat /\ Times \subseteq Nat

VARIABLES
    movies,   \* the movies table: the title of each movie in it
    rows,     \* the torrents table
    loaded,   \* the torrents in the librqbit session
    adding,   \* the add that has written its movie and not yet its torrent, if any
    player,   \* a Stremio or DLNA client and what it has been told so far
    patch,    \* per PATCH request: what it read before it waits for add_lock
    asked,    \* history: per torrent, the limits the requests asked for, in order
    clean,    \* history: nothing came between a request's read and its write of them
    who       \* who is connected: a player, or the API clients.  They share only
              \* the table, which changes under both.

table == <<movies, rows, loaded, adding>>
api   == <<patch, asked, clean>>
vars  == <<table, player, api, who>>

NoMovies == [m \in {} |-> 0]
Row == [hash : Hashes, movie : Movies, added_at : Times, done : BOOLEAN,
        download_limit : Limits, upload_limit : Limits]
Fields == {"download_limit", "upload_limit"}

-----------------------------------------------------------------------------
(* The catalog's queries.                                                  *)

\* The positions in S in the order R, and what s has there.  (SetToSortSeq and
\* SelectSeq are recursive, which no theorem could be about.)
Orderings(S, R) ==
    {l \in [1..Cardinality(S) -> S] :
        /\ \A i \in S : \E n \in DOMAIN l : l[n] = i
        /\ \A m, n \in DOMAIN l : m < n => <<l[m], l[n]>> \in R}
Listing(S, R) == CHOOSE l \in Orderings(S, R) : TRUE
Arranged(s, S, R) == [n \in 1..Cardinality(S) |-> s[Listing(S, R)[n]]]
Increasing == {p \in Nat \X Nat : p[1] < p[2]}
Only(s, S) == Arranged(s, S, Increasing)

RowsOf(m) == {i \in DOMAIN rows : rows[i].movie = m}
list_movies == movies

\* The newest torrent of a movie by the clock, in whole seconds, which may tie or step
\* back.  Of a tie SQLite gives the first row it scans.
Newer(i, j) ==
    \/ rows[j].added_at < rows[i].added_at
    \/ rows[j].added_at = rows[i].added_at /\ i <= j
torrent_for_movie(m) == rows[CHOOSE i \in RowsOf(m) : \A j \in RowsOf(m) : Newer(i, j)]

\* The completed torrents of the movies in a list, by title.  The sort is stable.
Unsorted(ms) == {i \in DOMAIN rows : rows[i].done /\ rows[i].movie \in DOMAIN ms}
ByTitle(ms, i, j) ==
    \/ ms[rows[i].movie] < ms[rows[j].movie]
    \/ ms[rows[i].movie] = ms[rows[j].movie] /\ i < j
MediaEntry(ms, row) == [id |-> row.movie, file |-> row.hash, title |-> ms[row.movie]]
entries(ms) ==
    LET sorted == Arranged(rows, Unsorted(ms), {p \in Nat \X Nat : ByTitle(ms, p[1], p[2])})
    IN  [n \in DOMAIN sorted |-> MediaEntry(ms, sorted[n])]

entry(m) ==
    IF RowsOf(m) = {} \/ ~torrent_for_movie(m).done THEN <<>>
    ELSE <<MediaEntry(movies, torrent_for_movie(m))>>

\* What opening a movie leads to: not found, not loaded, or the file.
NotFound == [status |-> 404]
Conflict == [status |-> 409]
Serves(file) == [status |-> 200, file |-> file]
stream_target(m) ==
    IF RowsOf(m) = {} THEN NotFound
    ELSE IF torrent_for_movie(m).hash \notin loaded THEN Conflict
    ELSE Serves(torrent_for_movie(m).hash)

-----------------------------------------------------------------------------
(* The protocols.  A URL is the route it is for, the movie and the name of *)
(* the file, which is for show: the file is chosen by the movie.           *)

video_path(e, prefix) == [route |-> prefix, id |-> e.id, name |-> e.file]
video(url) == IF url.route = "/video" THEN stream_target(url.id) ELSE NotFound
dlna_video(url) == IF url.route = "/dlna/video" THEN stream_target(url.id) ELSE NotFound

\* One page of the Stremio catalogue: what the search finds, then the page of it.
Min2(a, b) == IF a < b THEN a ELSE b
Found(es, query) == Only(es, {i \in DOMAIN es : es[i].title \in query})
PageOf(es, skip) == SubSeq(es, skip + 1, Min2(skip + Page, Len(es)))
SearchInPage(es, query, skip) ==  \* mistake: the page is cut before the search
    Found(PageOf(es, skip), query)
catalog(es, query, skip) == PageOf(Found(es, query), skip)

\* The details of a movie, and the URL it streams from.
full_meta(e) == [id |-> e.id, video |-> e.id, name |-> e.title]
stream_for(e) == video_path(e, "/video")
meta(m) == [n \in DOMAIN entry(m) |-> full_meta(entry(m)[n])]
stream(m) == [n \in DOMAIN entry(m) |-> stream_for(entry(m)[n])]

\* The DLNA folder: object ids are positions, from 1, and 0 is the folder.
FromZero(es) == {<<i - 1, es[i]>> : i \in DOMAIN es}  \* mistake: from 0
DirectoryEntries(es) == {<<i, es[i]>> : i \in DOMAIN es}
Folder == [id |-> Root, file |-> <<Root, Root>>, title |-> Root]
items(e) == video_path(e, "/dlna/video")
browse_metadata(es, id) ==
    IF id = Root THEN {Folder} ELSE {o[2] : o \in {p \in DirectoryEntries(es) : p[1] = id}}

-----------------------------------------------------------------------------
NoPlayer == [at |-> "idle", protocol |-> "none", query |-> {}, movies |-> NoMovies, skip |-> 0,
             got |-> <<>>, want |-> {}, same |-> TRUE, shrunk |-> FALSE]
NoPatch == [at |-> "idle", movie |-> 0, field |-> "none", value |-> NoLimit,
            limits |-> [f \in Fields |-> NoLimit], alone |-> TRUE]

Init ==
    /\ movies = NoMovies /\ rows = <<>> /\ loaded = {} /\ adding = {}
    /\ player = NoPlayer
    /\ patch = [c \in Clients |-> NoPatch]
    /\ asked = [h \in Hashes |-> [f \in Fields |-> NoLimit]]
    /\ clean = [h \in Hashes |-> TRUE]
    /\ who \in Connected

\* Bookkeeping of the history variables when the library changes: what the player
\* was told may be out of date, and listed entries may have gone or moved: an entry
\* has its title, and so has a movie the player has just read.
Listed == {MediaEntry(list_movies, rows[i]) : i \in Unsorted(list_movies)}
Retitled == \E m \in DOMAIN player.movies \cap DOMAIN movies' : player.movies[m] # movies'[m]
LibraryChanges ==
    player' = IF player.at = "idle" THEN player
              ELSE [player EXCEPT !.same = FALSE,
                                  !.shrunk = @ \/ ~(Listed \subseteq Listed') \/ Retitled]
\* A movie's limits change under the requests that have read them.
LimitsChange(m) ==
    [c \in Clients |-> IF patch[c].movie = m THEN [patch[c] EXCEPT !.alone = FALSE] ELSE patch[c]]

-----------------------------------------------------------------------------
(* The library, as the engine changes it.                                  *)

NewRow(h, now) == [hash |-> h, movie |-> h[1], added_at |-> now, done |-> FALSE,
                   download_limit |-> NoLimit, upload_limit |-> NoLimit]

\* add_movie, up to the row of the movie: its torrent is in the session by then.
upsert_movie(h, x) ==
    LET m == h[1] IN
    /\ adding = {} /\ h \notin loaded
    /\ RowsOf(m) # {} => torrent_for_movie(m).hash \notin loaded
    /\ movies' = [n \in DOMAIN movies \cup {m} |-> IF n = m THEN x ELSE movies[n]]
    /\ loaded' = loaded \cup {h} /\ adding' = {h}
    /\ UNCHANGED <<rows, api, who>>
    /\ LibraryChanges

\* add_movie records the torrent, without limits; a hash already there is replaced.
\* Mistake: the row the hash already has is kept beside the new one.
AddBeside(h, now) ==
    /\ h \in adding /\ h[1] \in DOMAIN movies
    /\ rows' = Append(rows, NewRow(h, now)) /\ adding' = {}
    /\ UNCHANGED <<movies, loaded, api, who>>
    /\ LibraryChanges
Add(h, now) ==
    /\ h \in adding /\ h[1] \in DOMAIN movies
    /\ rows' = Append(Only(rows, {i \in DOMAIN rows : rows[i].hash # h}), NewRow(h, now))
    /\ adding' = {}
    /\ asked' = [asked EXCEPT ![h] = [f \in Fields |-> NoLimit]]
    /\ clean' = [clean EXCEPT ![h] = TRUE]
    /\ patch' = LimitsChange(h[1])
    /\ UNCHANGED <<movies, loaded, who>>
    /\ LibraryChanges

\* The torrent's row cannot be written: its movie has gone meanwhile, or the store
\* fails.
AddFails ==
    /\ adding # {} /\ adding' = {}
    /\ UNCHANGED <<movies, rows, loaded, player, api, who>>

\* watch_completion: the torrent's row, if it is still there.
Complete(h) ==
    /\ h \in loaded
    /\ \E i \in DOMAIN rows : rows[i].hash = h /\ ~rows[i].done
    /\ rows' = [i \in DOMAIN rows |-> IF rows[i].hash = h THEN [rows[i] EXCEPT !.done = TRUE]
                                      ELSE rows[i]]
    /\ UNCHANGED <<movies, loaded, adding, api, who>>
    /\ LibraryChanges

\* Torrents leave the session, and a movie goes with all its rows.
Forget(m, hs) ==
    /\ movies' = [n \in DOMAIN movies \ {m} |-> movies[n]]
    /\ rows' = Only(rows, {i \in DOMAIN rows : rows[i].movie # m})
    /\ loaded' = loaded \ hs
    /\ UNCHANGED <<adding, api, who>>
    /\ LibraryChanges

\* DELETE takes the movie's newest torrent, if it has one, an eviction any.
remove_movie(m) ==
    /\ m \in DOMAIN movies
    /\ Forget(m, IF RowsOf(m) = {} THEN {} ELSE {torrent_for_movie(m).hash})
evict(h) ==
    /\ \E i \in DOMAIN rows : rows[i].hash = h
    /\ Forget(h[1], {h})

\* A reload whose torrent cannot be added again, or a torrent that fails to load.
Unload(h) ==
    /\ h \in loaded
    /\ loaded' = loaded \ {h}
    /\ UNCHANGED <<movies, rows, adding, player, api, who>>

\* A restart loads what the table names.
Restart ==
    /\ loaded' = {rows[i].hash : i \in DOMAIN rows}
    /\ player' = NoPlayer
    /\ patch' = [c \in Clients |-> NoPatch]
    /\ adding' = {}
    /\ UNCHANGED <<movies, rows, asked, clean, who>>

-----------------------------------------------------------------------------
(* A player.  The table is read in two steps, movies and then torrents.    *)

\* A Stremio client may search; a DLNA client sees the whole folder.
Browse(protocol, query) ==
    /\ who = "player" /\ player.at = "idle"
    /\ player' = [NoPlayer EXCEPT !.at = "movies", !.protocol = protocol, !.query = query,
                                  !.want = {e.id : e \in {f \in Listed : f.title \in query}}]
    /\ UNCHANGED <<table, api, who>>

ReadMovies ==
    /\ player.at = "movies"
    /\ player' = [player EXCEPT !.at = "torrents", !.movies = list_movies]
    /\ UNCHANGED <<table, api, who>>

\* A page shorter than Page is the last one; the DLNA folder comes in one piece.
ReadTorrents ==
    LET es    == entries(player.movies)
        piece == IF player.protocol = "stremio" THEN catalog(es, player.query, player.skip)
                 ELSE es
        more  == player.protocol = "stremio" /\ Len(piece) >= Page
    IN  /\ player.at = "torrents"
        /\ player' = [player EXCEPT
             !.at = IF more THEN "movies" ELSE "told", !.movies = NoMovies,
             !.skip = IF more THEN @ + Page ELSE @, !.got = @ \o piece]
        /\ UNCHANGED <<table, api, who>>

\* A read fails, say because the catalog's disk is gone: the answer is as if the table
\* were empty.
StoreFails ==
    /\ player.at \in {"movies", "torrents"}
    /\ player' = [player EXCEPT !.at = IF @ = "movies" THEN "torrents" ELSE "told",
                                !.movies = NoMovies, !.same = FALSE, !.shrunk = TRUE]
    /\ UNCHANGED <<table, api, who>>

Leave ==
    /\ player.at = "told"
    /\ player' = NoPlayer
    /\ UNCHANGED <<table, api, who>>

-----------------------------------------------------------------------------
(* PATCH /api/movies/{imdb_id}: the row is read first, and all limits are  *)
(* written later, under add_lock, which an add holds.                      *)

\* Mistake: a field the request does not name is cleared.
PatchClears(c, m, f, v) ==
    /\ who = "api" /\ patch[c].at = "idle"
    /\ RowsOf(m) # {}
    /\ patch' = [patch EXCEPT ![c] =
         [at |-> "lock", movie |-> m, field |-> f, value |-> v,
          limits |-> [g \in Fields |-> IF g = f THEN v ELSE NoLimit], alone |-> TRUE]]
    /\ UNCHANGED <<table, player, asked, clean, who>>
api_patch(c, m, f, v) ==
    /\ who = "api" /\ patch[c].at = "idle"
    /\ RowsOf(m) # {}
    /\ LET row == torrent_for_movie(m) IN
       patch' = [patch EXCEPT ![c] =
         [at |-> "lock", movie |-> m, field |-> f, value |-> v,
          limits |-> [g \in Fields |-> IF g = f THEN v ELSE row[g]], alone |-> TRUE]]
    /\ UNCHANGED <<table, player, asked, clean, who>>

\* The movie is looked up again; its newest row takes the limits, and its torrent
\* is reloaded, which may lose it from the session.
set_movie_limits(c) ==
    LET p == patch[c]
        h == torrent_for_movie(p.movie).hash
    IN  /\ p.at = "lock" /\ adding = {} /\ RowsOf(p.movie) # {}
        /\ rows' = [i \in DOMAIN rows |->
                      IF rows[i].hash = h
                      THEN [rows[i] EXCEPT !.download_limit = p.limits["download_limit"],
                                           !.upload_limit = p.limits["upload_limit"]]
                      ELSE rows[i]]
        /\ loaded' \in {loaded, loaded \ {h}}
        /\ asked' = [asked EXCEPT ![h][p.field] = p.value]
        /\ clean' = [clean EXCEPT ![h] = @ /\ p.alone]
        /\ patch' = [LimitsChange(p.movie) EXCEPT ![c] = NoPatch]
        /\ UNCHANGED <<movies, adding, player, who>>

\* The movie has gone meanwhile, the data disk is missing or the store fails.
PatchFails(c) ==
    /\ patch[c].at = "lock"
    /\ patch' = [patch EXCEPT ![c] = NoPatch]
    /\ UNCHANGED <<table, player, asked, clean, who>>

Next ==
    \/ \E h \in Hashes, x \in Titles : upsert_movie(h, x)
    \/ \E h \in Hashes, now \in Times : Add(h, now)
    \/ AddFails
    \/ \E h \in Hashes : Complete(h) \/ Unload(h) \/ evict(h)
    \/ \E m \in Movies : remove_movie(m)
    \/ Restart
    \/ \E query \in Queries : Browse("stremio", query)
    \/ Browse("dlna", {})
    \/ ReadMovies \/ ReadTorrents \/ StoreFails \/ Leave
    \/ \E c \in Clients, m \in Patched, f \in Fields, v \in Limits : api_patch(c, m, f, v)
    \/ \E c \in Clients : set_movie_limits(c) \/ PatchFails(c)

Spec == Init /\ [][Next]_vars

-----------------------------------------------------------------------------
TypeOK ==
    /\ rows \in Seq(Row)
    /\ \A i, j \in DOMAIN rows : rows[i].hash = rows[j].hash => i = j
    /\ \A i \in DOMAIN rows : rows[i].movie \in DOMAIN movies
    /\ loaded \cup adding \subseteq Hashes
    /\ player.at \in {"idle", "movies", "torrents", "told"}
    /\ player.skip \in Nat
    /\ \A c \in Clients : patch[c].at \in {"idle", "lock"}

\* A player that fetches the catalogue, or what a search finds in it, page by page
\* (stremio catalog, `skip`) and stops at the first short page has seen every movie
\* of it that was listed when it began, whatever is added or finishes meanwhile,
\* unless a listed one goes or gets another title, or the store fails under a read;
\* and if nothing changed it has seen each exactly once, in order.
WalkSeesAll ==
    player.at = "told" /\ player.protocol = "stremio" =>
        /\ ~player.shrunk => player.want \subseteq {e.id : e \in ToSet(player.got)}
        /\ player.same => player.got = Found(entries(list_movies), player.query)

\* An entry that a player was shown leads somewhere while the library stays as it was
\* and the movie has one torrent: its DLNA object id names that entry and nothing
\* else, the add-on's meta and stream answers are about the same file, and its URL
\* opens that file unless the torrent is not loaded.
Resolves(e) ==
    /\ meta(e.id) = <<full_meta(e)>> /\ stream(e.id) = <<stream_for(e)>>
    /\ video(stream_for(e)) \in {Serves(e.file), Conflict}
    /\ dlna_video(items(e)) = video(stream_for(e))
ObjectsResolve ==
    \A o \in DirectoryEntries(player.got) : browse_metadata(entries(list_movies), o[1]) = {o[2]}
ShownResolves ==
    player.at = "told" /\ player.same =>
        /\ player.protocol = "dlna" => ObjectsResolve
        /\ \A e \in ToSet(player.got) : Cardinality(RowsOf(e.id)) = 1 => Resolves(e)

\* As long as the requests for a torrent's limits do not overlap (PATCH reads the row
\* before add_lock and writes all of it after), its row has what they asked for: a
\* request changes the fields it names and keeps the others, and goes to the torrent
\* it has read, whatever other torrents the movie gets or had.
LimitsAsAsked ==
    \A i \in DOMAIN rows : clean[rows[i].hash] =>
        \A f \in Fields : rows[i][f] = asked[rows[i].hash][f]

\* The same of requests that overlap.
PartialUpdate ==
    \A i \in DOMAIN rows : \A f \in Fields : rows[i][f] = asked[rows[i].hash][f]

\* Every entry shown resolves, "one fully-downloaded movie by IMDb id".
EveryShownResolves ==
    player.at = "told" /\ player.same => \A e \in ToSet(player.got) : Resolves(e)
=============================================================================
