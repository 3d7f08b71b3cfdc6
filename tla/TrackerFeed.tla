---------------------------- MODULE TrackerFeed ----------------------------
(***************************************************************************)
(* The public tracker feed over time: refreshes that overlap (the worker   *)
(* loop, SIGHUP, POST /api/trackers), sources that fail, the cache file, a *)
(* list that goes stale, restarts, and one public torrent that is given    *)
(* the list when it starts.                                                *)
(*                                                                         *)
(* A refresh awaits every fetch, commits under the state lock, and then    *)
(* restarts the active torrents; nothing keeps two refreshes apart.        *)
(***************************************************************************)
EXTENDS TrackerRules, FiniteSets

CONSTANTS
    Refreshers,   \* tasks that may refresh at the same time
    Caller,       \* Caller[r]: what runs refresher r: "loop", "sighup" or "api"
    Config,       \* the tracker configuration
    Listings,     \* Listings[i]: the answers source i may give
    StaleAfter,   \* stale_after
    MaxTime       \* bound on the clock

ASSUME FeedAssumption ==
    /\ Config.max \in Nat /\ Config.add \in Seq(TrackerLine)
    /\ Config.sources \in Seq([enabled : BOOLEAN, schemes : SUBSET STRING, take : Nat \cup {All}])
    /\ DOMAIN Listings = DOMAIN Config.sources
    /\ \A i \in DOMAIN Listings : Listings[i] \subseteq Seq(TrackerLine)
    /\ {StaleAfter, MaxTime} \subseteq Nat
    /\ Caller \in [Refreshers -> {"loop", "sighup", "api"}]

VARIABLES
    clock,
    feed,        \* TrackerState: the list and when it was fetched
    cache,       \* trackers.json
    refresh,     \* refresh[r]: where refresher r is and what it has fetched
    torrent,     \* "none", "adding", "active", "reloading", "paused"
    holds,       \* the list the torrent was given
    current_at,  \* history: the list was fresh when the torrent was given it
    skipped,     \* history: since then a re-announce passed over or did not get to it
    lastListed   \* history: when a source last listed a tracker

vars == <<clock, feed, cache, refresh, torrent, holds, current_at, skipped, lastListed>>

Never == -1
NoState == [trackers |-> <<>>, updated_at |-> Never]
Idle == [pc |-> "idle", start |-> Never, at |-> 0, got |-> <<>>]
Trackers ==
    UNION {ToSet(normalize(raw)) : raw \in UNION {ToSet(l) : l \in UNION ToSet(Listings)}}

\* Trackers for a public torrent right now: the list while it is fresh, else the
\* static ones.
fresh == feed.updated_at # Never /\ clock - feed.updated_at <= StaleAfter
CurrentForever == IF feed.updated_at # Never THEN feed.trackers ELSE merge(Config, <<>>)  \* mistake: never stale
current == IF fresh THEN feed.trackers ELSE merge(Config, <<>>)

Init ==
    /\ clock = 0 /\ feed = NoState /\ cache = NoState
    /\ refresh = [r \in Refreshers |-> Idle]
    /\ torrent = "none" /\ holds = <<>> /\ current_at = FALSE /\ skipped = FALSE
    /\ lastListed = [t \in Trackers |-> Never]

-----------------------------------------------------------------------------
(* refresh.                                                                *)

RefreshStarts(r) ==
    /\ refresh[r].pc = "idle"
    /\ refresh' = [refresh EXCEPT ![r] =
                      [pc |-> "fetching", start |-> clock, at |-> 1, got |-> <<>>]]
    /\ UNCHANGED <<clock, feed, cache, torrent, holds, current_at, skipped, lastListed>>

\* The next source answers with one of its lists.
FetchOk(r) ==
    LET i == refresh[r].at
    IN  /\ refresh[r].pc = "fetching" /\ i \in DOMAIN Config.sources
        /\ Config.sources[i].enabled
        /\ \E lines \in Listings[i] :
             LET l == [schemes |-> Config.sources[i].schemes,
                       list |-> Taken(Config.sources[i], lines)]
             IN  /\ refresh' = [refresh EXCEPT ![r].at = i + 1,
                                               ![r].got = Append(@, l)]
                 /\ lastListed' = [t \in Trackers |->
                        IF \E j \in DOMAIN l.list : normalize(l.list[j]) = <<t>>
                        THEN clock ELSE lastListed[t]]
    /\ UNCHANGED <<clock, feed, cache, torrent, holds, current_at, skipped>>

\* It fails, times out or answers with an error status; or it is disabled.
FetchFails(r) ==
    /\ refresh[r].pc = "fetching" /\ refresh[r].at \in DOMAIN Config.sources
    /\ refresh' = [refresh EXCEPT ![r].at = @ + 1]
    /\ UNCHANGED <<clock, feed, cache, torrent, holds, current_at, skipped, lastListed>>

\* The client of POST /api/trackers hangs up, and its refresh is dropped.
HangUp(r) ==
    /\ Caller[r] = "api" /\ refresh[r].pc = "fetching"
    /\ refresh' = [refresh EXCEPT ![r] = Idle]
    /\ UNCHANGED <<clock, feed, cache, torrent, holds, current_at, skipped, lastListed>>

\* What a refresh leaves in the state: its list if a source answered, or if nothing
\* was listed before either.
Committed(r, list) ==
    IF refresh[r].got # <<>> \/ feed.trackers = <<>>
    THEN [trackers |-> list, updated_at |-> refresh[r].start]
    ELSE feed

LengthChanged(r, list) == refresh[r].got # <<>> /\ Len(feed.trackers) # Len(list)  \* mistake: counts
Changed(r, list) == refresh[r].got # <<>> /\ feed.trackers # list

\* SIGHUP re-announces whatever the configuration says.
Reannounces(r) == Config.reannounce_active \/ Caller[r] = "sighup"

\* The cache is rewritten in place: the write succeeds, fails before it begins or
\* is cut short, and what does not parse is read as nothing.
Commit(r) ==
    /\ refresh[r].pc = "fetching" /\ refresh[r].at = Len(Config.sources) + 1
    /\ LET list == merge(Config, refresh[r].got)
       IN  /\ feed' = Committed(r, list)
           /\ refresh' = [refresh EXCEPT ![r] =
                  IF Changed(r, list) /\ Reannounces(r)
                  THEN [Idle EXCEPT !.pc = "reannounce"] ELSE Idle]
    /\ cache' \in {feed', cache, NoState}
    /\ UNCHANGED <<clock, torrent, holds, current_at, skipped, lastListed>>

-----------------------------------------------------------------------------
(* The torrent, and reannounce_active.                                     *)

\* The torrent is given a list: the one that is current at that moment.
Reads ==
    /\ holds' = current /\ current_at' = fresh /\ skipped' = FALSE

\* add_movie reads the list, and adds the torrent to the session later.
AddReads ==
    /\ torrent = "none" /\ torrent' = "adding" /\ Reads
    /\ UNCHANGED <<clock, feed, cache, refresh, lastListed>>
AddEnters ==
    /\ torrent = "adding" /\ torrent' = "active"
    /\ UNCHANGED <<clock, feed, cache, refresh, holds, current_at, skipped, lastListed>>

\* The queue or the kill switch: the torrent keeps the list it has.
PauseOrResume ==
    /\ torrent \in {"active", "paused"}
    /\ torrent' = IF torrent = "active" THEN "paused" ELSE "active"
    /\ UNCHANGED <<clock, feed, cache, refresh, holds, current_at, skipped, lastListed>>

RemoveTorrent ==
    /\ torrent \in {"active", "paused"} /\ torrent' = "none"
    /\ holds' = <<>> /\ current_at' = FALSE /\ skipped' = FALSE
    /\ UNCHANGED <<clock, feed, cache, refresh, lastListed>>

\* A torrent that is active leaves the session and comes back with the list read in
\* between; one with no handle, or paused, is passed over.
ReannounceAny(r) ==  \* mistake: a torrent that is being reloaded is reloaded again
    /\ refresh[r].pc = "reannounce" /\ torrent \in {"active", "reloading"}
    /\ torrent' = "reloading" /\ Reads
    /\ refresh' = [refresh EXCEPT ![r].pc = "reload"]
    /\ UNCHANGED <<clock, feed, cache, lastListed>>
Reannounce(r) ==
    /\ refresh[r].pc = "reannounce" /\ torrent = "active"
    /\ torrent' = "reloading" /\ Reads
    /\ refresh' = [refresh EXCEPT ![r].pc = "reload"]
    /\ UNCHANGED <<clock, feed, cache, lastListed>>
ReannounceSkips(r) ==
    /\ refresh[r].pc = "reannounce" /\ torrent # "active"
    /\ skipped' = (torrent # "none")
    /\ refresh' = [refresh EXCEPT ![r] = Idle]
    /\ UNCHANGED <<clock, feed, cache, torrent, holds, current_at, lastListed>>

\* The pass ends before the torrent is deleted: everything is paused, the catalog
\* cannot be read, a torrent before it or its own source fails, or the client is
\* gone.  It may have been paused for the reload by then.
ReannounceFails(r) ==
    /\ refresh[r].pc = "reannounce" /\ torrent = "active"
    /\ torrent' \in {"active", "paused"} /\ skipped' = TRUE
    /\ refresh' = [refresh EXCEPT ![r] = Idle]
    /\ UNCHANGED <<clock, feed, cache, holds, current_at, lastListed>>

ReloadEnters(r) ==
    /\ refresh[r].pc = "reload"
    /\ torrent' = "active"
    /\ refresh' = [refresh EXCEPT ![r] = Idle]
    /\ UNCHANGED <<clock, feed, cache, holds, current_at, skipped, lastListed>>

\* It cannot be added back, or the client is gone: it is out until it is added again.
ReloadFails(r) ==
    /\ refresh[r].pc = "reload"
    /\ torrent' = "none"
    /\ holds' = <<>> /\ current_at' = FALSE /\ skipped' = FALSE
    /\ refresh' = [refresh EXCEPT ![r] = Idle]
    /\ UNCHANGED <<clock, feed, cache, lastListed>>

-----------------------------------------------------------------------------
\* A new process: the cache is read back; the torrents the session restores carry
\* librqbit's saved lists and are outside this module.
Restart ==
    /\ feed' = cache /\ refresh' = [r \in Refreshers |-> Idle]
    /\ torrent' = "none"
    /\ holds' = <<>> /\ current_at' = FALSE /\ skipped' = FALSE
    /\ UNCHANGED <<clock, cache, lastListed>>

Tick ==
    /\ clock < MaxTime /\ clock' = clock + 1
    /\ UNCHANGED <<feed, cache, refresh, torrent, holds, current_at, skipped, lastListed>>

Next ==
    \/ \E r \in Refreshers :
         \/ RefreshStarts(r) \/ FetchOk(r) \/ FetchFails(r) \/ HangUp(r) \/ Commit(r)
         \/ Reannounce(r) \/ ReannounceSkips(r) \/ ReannounceFails(r)
         \/ ReloadEnters(r) \/ ReloadFails(r)
    \/ AddReads \/ AddEnters \/ PauseOrResume \/ RemoveTorrent
    \/ Restart \/ Tick

Spec == Init /\ [][Next]_vars

-----------------------------------------------------------------------------
(* Properties.                                                             *)

\* The types; and one torrent is reloaded by one refresh at a time.
TypeOK ==
    /\ clock \in 0..MaxTime
    /\ {feed, cache} \subseteq
         [trackers : Seq(Trackers \cup ToSet(merge(Config, <<>>))), updated_at : Never..MaxTime]
    /\ \A r \in Refreshers :
         /\ refresh[r].pc \in {"idle", "fetching", "reannounce", "reload"}
         /\ refresh[r].start \in Never..clock
         /\ refresh[r].at \in 0..Len(Config.sources) + 1
         /\ Len(refresh[r].got) <= refresh[r].at
    /\ torrent \in {"none", "adding", "active", "reloading", "paused"}
    /\ torrent = "reloading" <=>
         Cardinality({r \in Refreshers : refresh[r].pc = "reload"}) = 1
    /\ {current_at, skipped} \subseteq BOOLEAN
    /\ lastListed \in [Trackers -> Never..clock]

\* "Keep serving the cached list this long after the last successful fetch": a
\* tracker that is not static is served only while a fetch that listed it is at most
\* stale_after old, whatever refreshes fail, overlap or commit out of order, and
\* whatever a restart reads back.
StaleNeverServed ==
    \A t \in ToSet(current) \ ToSet(merge(Config, <<>>)) :
        /\ lastListed[t] # Never
        /\ clock - lastListed[t] <= StaleAfter

\* When no re-announce is under way, an active torrent that was given its list while
\* the list was fresh, and that no re-announce since has passed over or failed to
\* reach, holds the list of the feed, however refreshes overlap, fail or hang up.
ActiveFollowsList ==
    /\ \A r \in Refreshers : refresh[r].pc \notin {"reannounce", "reload"}
    /\ torrent = "active" /\ current_at /\ ~skipped
    => holds = feed.trackers

\* "... so one outage doesn't shrink the set" (refresh): where every source lists what
\* it always did, a refresh in which one of them fails drops no tracker of theirs.
OutageKeepsList ==
    [][\A r \in Refreshers : Commit(r) /\ Len(refresh[r].got) < Len(Config.sources) =>
          ToSet(feed.trackers) \ ToSet(merge(Config, <<>>)) \subseteq ToSet(feed'.trackers)]_vars

\* "... and re-applied to downloads still in progress when it changes": the same
\* without the exception.
ReappliedOnChange ==
    /\ \A r \in Refreshers : refresh[r].pc \notin {"reannounce", "reload"}
    /\ torrent = "active" /\ current_at
    => holds = feed.trackers
=============================================================================
