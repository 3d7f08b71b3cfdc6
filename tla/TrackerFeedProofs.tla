-------------------------- MODULE TrackerFeedProofs --------------------------
(***************************************************************************)
(* The tracker feed serves nothing stale and active torrents follow it,    *)
(* for any sources, lists and limits and any number of overlapping         *)
(* refreshes.                                                              *)
(***************************************************************************)
EXTENDS TrackerFeed, RuleLemmas

Static == merge(Config, <<>>)
Known == Trackers \cup ToSet(Static)
Fetches == ListsOf(SUBSET STRING, TrackerLine)

\* A state of the feed or of the cache file: what it lists beside the static
\* trackers was listed by a source since the time it bears, and it is empty only if
\* it was never written or the static trackers alone make an empty list.
FeedType == [trackers : Seq(Known), updated_at : Int]
Sound(f, listed, now) ==
    /\ f \in FeedType /\ f.updated_at \in Never..now
    /\ f.updated_at = Never => f.trackers = <<>>
    /\ f.updated_at # Never =>
          /\ f.trackers = <<>> => Static = <<>>
          /\ \A t \in ToSet(f.trackers) \ ToSet(Static) : listed[t] >= f.updated_at

\* What a refresh has fetched was listed since it began.
Listed(got, start, listed) ==
    \A l \in ToSet(got) : \A raw \in ToSet(l.list) : \A t \in ToSet(normalize(raw)) :
        t \in Trackers /\ listed[t] >= start
RefreshType ==
    [pc : {"idle", "fetching", "reannounce", "reload"}, start : Int, at : Nat, got : Fetches]
Fetched(q, listed, now) ==
    /\ q \in RefreshType /\ q.start \in Never..now
    /\ q.at \in 0..Len(Config.sources) + 1 /\ Len(q.got) <= q.at
    /\ q.pc = "fetching" => q.start # Never /\ Listed(q.got, q.start, listed)

Clocks ==
    /\ clock \in 0..MaxTime
    /\ lastListed \in [Trackers -> Never..clock]
Fetching ==
    /\ refresh \in [Refreshers -> RefreshType]
    /\ \A r \in Refreshers : Fetched(refresh[r], lastListed, clock)
Stores == Sound(feed, lastListed, clock) /\ Sound(cache, lastListed, clock)

\* At most one refresh reloads the torrent, and only while it is out of the session.
Reloading(r) == refresh[r].pc = "reload"
OneReload ==
    /\ torrent \in {"none", "adding", "active", "reloading", "paused"}
    /\ {current_at, skipped} \subseteq BOOLEAN
    /\ torrent = "reloading" <=> \E r \in Refreshers : Reloading(r)
    /\ \A r, s \in Refreshers : Reloading(r) /\ Reloading(s) => r = s

\* A torrent that was given a fresh list, and was not passed over, holds the list of
\* the feed, unless a re-announce is still to come.
Followed ==
    /\ torrent # "none" /\ current_at /\ ~skipped
    /\ \A r \in Refreshers : refresh[r].pc # "reannounce"
    => holds = feed.trackers /\ feed.updated_at # Never

-----------------------------------------------------------------------------
(* The constants.                                                          *)

\* What a source lists, the part of it that is taken, and the trackers in it.
LEMMA ListingLines ==
  ASSUME NEW i \in DOMAIN Config.sources, NEW lines \in Listings[i]
  PROVE  /\ Taken(Config.sources[i], lines) \in Seq(TrackerLine)
         /\ ToSet(Taken(Config.sources[i], lines)) \subseteq ToSet(lines)
         /\ \A raw \in ToSet(lines) : ToSet(normalize(raw)) \subseteq Trackers
         /\ Config.sources[i].schemes \in SUBSET STRING
<1> DEFINE src == Config.sources[i]
           R == [enabled : BOOLEAN, schemes : SUBSET STRING, take : Nat \cup {All}]
<1>1. Config.sources \in Seq(R)
  BY FeedAssumption
<1>2. src \in R
  <2> HIDE DEF R
  <2> QED
    BY <1>1
<1>3. src.take \in Nat \cup {All} /\ src.schemes \in SUBSET STRING
  BY <1>2
<1>4. lines \in Seq(TrackerLine)
  BY FeedAssumption
<1> HIDE DEF src
<1>5. ASSUME src.take = All
      PROVE  /\ Taken(src, lines) \in Seq(TrackerLine)
             /\ ToSet(Taken(src, lines)) \subseteq ToSet(lines)
  <2>1. Taken(src, lines) = lines
    BY <1>5 DEF Taken
  <2> QED
    BY <1>4, <2>1
<1>6. ASSUME src.take \in Nat, src.take # All
      PROVE  /\ Taken(src, lines) \in Seq(TrackerLine)
             /\ ToSet(Taken(src, lines)) \subseteq ToSet(lines)
  <2> DEFINE n == src.take
  <2>1. Taken(src, lines) = FirstN(lines, n)
    BY <1>6 DEF Taken
  <2>2. ToSet(FirstN(lines, n)) \subseteq ToSet(lines)
    <3>1. ASSUME NEW t \in ToSet(FirstN(lines, n)) PROVE t \in ToSet(lines)
      <4>1. PICK j \in 1..Len(lines) : j <= n /\ lines[j] = t
        BY <1>4, <1>6, FirstElements
      <4> QED
        BY <1>4, <4>1 DEF ToSet
    <3> QED
      BY <3>1
  <2>3. FirstN(lines, n) \in Seq(TrackerLine)
    <3> DEFINE k == Len(lines)
               m == IF k < n THEN k ELSE n
    <3>1. k \in Nat /\ m \in 0..k
      BY <1>4, <1>6
    <3>2. FirstN(lines, n) = SubSeq(lines, 1, m)
      BY DEF FirstN
    <3> HIDE DEF m, n
    <3> QED
      BY <1>4, <3>1, <3>2
  <2> HIDE DEF n
  <2> QED
    BY <2>1, <2>2, <2>3
<1>7. Taken(src, lines) \in Seq(TrackerLine) /\ ToSet(Taken(src, lines)) \subseteq ToSet(lines)
  BY <1>3, <1>5, <1>6
<1>8. \A raw \in ToSet(lines) : ToSet(normalize(raw)) \subseteq Trackers
  <2> DEFINE Answers == UNION ToSet(Listings)
             Raws == UNION {ToSet(l) : l \in Answers}
  <2>1. Listings[i] \in ToSet(Listings)
    BY FeedAssumption DEF ToSet
  <2>2. lines \in Answers
    BY <2>1
  <2> HIDE DEF Answers
  <2>3. ToSet(lines) \subseteq Raws
    BY <2>2
  <2>4. Trackers = UNION {ToSet(normalize(raw)) : raw \in Raws}
    BY DEF Trackers, Answers
  <2> HIDE DEF Raws
  <2> QED
    BY <2>3, <2>4
<1> QED
  BY <1>3, <1>7, <1>8 DEF src

\* The static list is a list of known trackers.
LEMMA StaticKnown == Static \in Seq(Known)
<1>1. PICK none \in Fetches : none = <<>>
  <2> DEFINE R == [schemes : SUBSET STRING, list : Seq(TrackerLine)]
  <2>1. Fetches = Seq(R)
    BY DEF Fetches, ListsOf
  <2> HIDE DEF R
  <2>2. PICK e : e = <<>>
    OBVIOUS
  <2>3. e \in Seq(R)
    BY <2>2
  <2> QED
    BY <2>1, <2>2, <2>3
<1>2. Static \in Once(TrackerLine)
  BY <1>1, FeedAssumption, MergeHolds DEF Static, Fetches
<1>3. Static \in Seq(Canon(TrackerLine)) /\ \A k \in 1..Len(Static) : Static[k] \in ToSet(Static)
  BY <1>2 DEF Once, ToSet
<1> QED
  BY <1>3 DEF Known

\* What a refresh commits is sound: a tracker of the merged list is static, or was
\* listed by a source since the refresh began.
LEMMA MergeSound ==
  ASSUME NEW got \in Fetches, NEW listed, NEW now \in Nat, NEW start \in 0..now,
         Listed(got, start, listed)
  PROVE  Sound([trackers |-> merge(Config, got), updated_at |-> start], listed, now)
<1> DEFINE out == merge(Config, got)
<1>1. out \in Once(TrackerLine)
  BY FeedAssumption, MergeHolds DEF Fetches
<1>2. ASSUME NEW t \in ToSet(out), t \notin ToSet(Static)
      PROVE  t \in Trackers /\ listed[t] >= start
  <2>0. Config.add \in Seq(TrackerLine) /\ Config.max \in Nat
    BY FeedAssumption
  <2>1. PICK l \in ToSet(got) : \E raw \in ToSet(l.list) : normalize(raw) = <<t>>
    BY <1>2, <2>0, ListedOrStatic DEF Fetches, Static
  <2>2. PICK raw \in ToSet(l.list) : normalize(raw) = <<t>>
    BY <2>1
  <2>3. t \in ToSet(normalize(raw))
    BY <2>2 DEF ToSet
  <2> QED
    BY <2>1, <2>2, <2>3 DEF Listed
<1>3. out = <<>> => Static = <<>>
  BY FeedAssumption, EmptyMerge DEF Fetches, Static
<1> HIDE DEF out
<1>4. out \in Seq(Known)
  <2>1. out \in Seq(Canon(TrackerLine)) /\ \A k \in 1..Len(out) : out[k] \in ToSet(out)
    BY <1>1 DEF Once, ToSet
  <2>2. \A k \in 1..Len(out) : out[k] \in Known
    BY <1>2, <2>1 DEF Known
  <2> QED
    BY <2>1, <2>2
<1> DEFINE f == [trackers |-> out, updated_at |-> start]
<1>5. f \in FeedType /\ f.trackers = out /\ f.updated_at = start
  BY <1>4 DEF FeedType
<1>6. start \in Never..now /\ start # Never
  BY DEF Never
<1> HIDE DEF f
<1>7. Sound(f, listed, now)
  BY <1>2, <1>3, <1>5, <1>6 DEF Sound
<1> QED
  BY <1>7 DEF f, out

\* What is sound stays so when time passes and sources list more.
LEMMA SoundLater ==
  ASSUME NEW listed \in [Trackers -> Int], NEW listed2 \in [Trackers -> Int],
         \A t \in Trackers : listed2[t] >= listed[t],
         NEW now \in Nat, NEW now2 \in Nat, now2 >= now
  PROVE  /\ \A f : Sound(f, listed, now) => Sound(f, listed2, now2)
         /\ \A q : Fetched(q, listed, now) => Fetched(q, listed2, now2)
<1>1. \A n : n \in Never..now => n \in Never..now2
  BY DEF Never
<1>2. ASSUME NEW t \in Trackers, NEW n \in Int, listed[t] >= n PROVE listed2[t] >= n
  BY <1>2
<1>3. ASSUME NEW f, Sound(f, listed, now) PROVE Sound(f, listed2, now2)
  <2>1. f \in FeedType /\ f.updated_at \in Int /\ f.trackers \in Seq(Known)
    BY <1>3 DEF Sound, FeedType
  <2>2. ToSet(f.trackers) \subseteq Known
    BY <2>1 DEF ToSet
  <2>3. \A t \in ToSet(f.trackers) \ ToSet(Static) : t \in Trackers
    BY <2>2 DEF Known
  <2> QED
    BY <1>1, <1>2, <1>3, <2>1, <2>3 DEF Sound
<1>4. ASSUME NEW q, Fetched(q, listed, now) PROVE Fetched(q, listed2, now2)
  <2>1. q.start \in Int
    BY <1>4 DEF Fetched, RefreshType
  <2>2. Listed(q.got, q.start, listed) => Listed(q.got, q.start, listed2)
    BY <1>2, <2>1 DEF Listed
  <2> QED
    BY <1>1, <1>4, <2>2 DEF Fetched
<1> QED
  BY <1>3, <1>4

-----------------------------------------------------------------------------
(* The clock, the refreshes and the two stores.                            *)

Kept == Clocks /\ Fetching /\ Stores

\* A refresh that is not under way has fetched nothing.
LEMMA IdleFetched ==
  ASSUME NEW listed, NEW now \in Nat
  PROVE  /\ Fetched(Idle, listed, now)
         /\ Fetched([Idle EXCEPT !.pc = "reannounce"], listed, now)
<1> DEFINE next == [Idle EXCEPT !.pc = "reannounce"]
<1>1. PICK none : none = <<>>
  OBVIOUS
<1>2. none \in Fetches
  <2> DEFINE R == [schemes : SUBSET STRING, list : Seq(TrackerLine)]
  <2>1. Fetches = Seq(R)
    BY DEF Fetches, ListsOf
  <2> HIDE DEF R
  <2> QED
    BY <1>1, <2>1
<1>3. /\ Idle = [pc |-> "idle", start |-> Never, at |-> 0, got |-> none]
      /\ next = [pc |-> "reannounce", start |-> Never, at |-> 0, got |-> none]
  BY <1>1 DEF Idle
<1>4. Len(none) = 0 /\ Len(Config.sources) \in Nat
  BY <1>1, FeedAssumption
<1>5. /\ Idle \in RefreshType /\ Idle.start = Never /\ Idle.at = 0 /\ Idle.got = none
      /\ Idle.pc # "fetching"
      /\ next \in RefreshType /\ next.start = Never /\ next.at = 0 /\ next.got = none
      /\ next.pc # "fetching"
  BY <1>2, <1>3 DEF RefreshType, Never
<1> HIDE DEF next
<1>6. Fetched(Idle, listed, now) /\ Fetched(next, listed, now)
  BY <1>4, <1>5 DEF Fetched, Never
<1> QED
  BY <1>6 DEF next

\* A state that was never written is sound.
LEMMA NothingSound ==
  ASSUME NEW listed, NEW now \in Nat
  PROVE  Sound(NoState, listed, now)
<1>1. NoState \in FeedType /\ NoState.updated_at = Never /\ NoState.trackers = <<>>
  BY DEF NoState, FeedType, Never
<1> QED
  BY <1>1 DEF Sound, Never

\* One refresh moves on.
LEMMA OneMoves ==
  ASSUME Fetching, NEW r \in Refreshers, NEW q, Fetched(q, lastListed, clock),
         refresh' = [refresh EXCEPT ![r] = q], UNCHANGED <<lastListed, clock>>
  PROVE  Fetching'
<1>1. q \in RefreshType
  BY DEF Fetched
<1>2. refresh' \in [Refreshers -> RefreshType]
  BY <1>1 DEF Fetching
<1>3. \A s \in Refreshers : refresh'[s] = IF s = r THEN q ELSE refresh[s]
  BY DEF Fetching
<1>4. \A s \in Refreshers : Fetched(refresh'[s], lastListed', clock')
  BY <1>3 DEF Fetching
<1> QED
  BY <1>2, <1>4 DEF Fetching

\* Initially nothing is fetched or stored.
LEMMA KeptInit == Init => Kept
<1> SUFFICES ASSUME Init PROVE Kept
  OBVIOUS
<1>1. Clocks
  BY FeedAssumption DEF Init, Clocks, Never
<1>2. Fetched(Idle, lastListed, clock)
  BY IdleFetched DEF Init
<1>3. Idle \in RefreshType
  BY <1>2 DEF Fetched
<1>4. Fetching
  BY <1>2, <1>3 DEF Init, Fetching
<1>5. Sound(NoState, lastListed, clock)
  BY NothingSound DEF Init
<1> QED
  BY <1>1, <1>4, <1>5 DEF Init, Stores, Kept

\* A source answers: what it lists is listed now.
LEMMA FetchOkKept ==
  ASSUME Kept, NEW r \in Refreshers, FetchOk(r)
  PROVE  Kept'
<1> DEFINE i == refresh[r].at
           src == Config.sources[i]
<1>1. PICK lines \in Listings[i] :
        LET l == [schemes |-> src.schemes, list |-> Taken(src, lines)]
        IN  /\ refresh' = [refresh EXCEPT ![r].at = i + 1, ![r].got = Append(@, l)]
            /\ lastListed' = [t \in Trackers |->
                   IF \E j \in DOMAIN l.list : normalize(l.list[j]) = <<t>>
                   THEN clock ELSE lastListed[t]]
  BY DEF FetchOk
<1> DEFINE taken == Taken(src, lines)
           l == [schemes |-> src.schemes, list |-> taken]
           q == [refresh[r] EXCEPT !.at = i + 1, !.got = Append(@, l)]
           listed2 == [t \in Trackers |->
                         IF \E j \in DOMAIN taken : normalize(taken[j]) = <<t>>
                         THEN clock ELSE lastListed[t]]
<1>2. /\ refresh[r].pc = "fetching" /\ i \in DOMAIN Config.sources
      /\ UNCHANGED <<clock, feed, cache>>
  BY DEF FetchOk
<1>3. lastListed' = listed2
  BY <1>1
<1>4. refresh' = [refresh EXCEPT ![r] = q]
  BY <1>1 DEF Kept, Fetching
<1>5. /\ taken \in Seq(TrackerLine) /\ ToSet(taken) \subseteq ToSet(lines)
      /\ \A raw \in ToSet(lines) : ToSet(normalize(raw)) \subseteq Trackers
      /\ src.schemes \in SUBSET STRING
  BY <1>1, <1>2, ListingLines
<1>6. /\ clock \in Nat /\ clock \in 0..MaxTime /\ lastListed \in [Trackers -> Int]
      /\ \A t \in Trackers : lastListed[t] \in Never..clock /\ lastListed[t] <= clock
  BY FeedAssumption DEF Kept, Clocks, Never
<1> HIDE DEF taken
<1>7. /\ listed2 \in [Trackers -> Never..clock] /\ listed2 \in [Trackers -> Int]
      /\ \A t \in Trackers : listed2[t] >= lastListed[t]
      /\ \A t \in Trackers : (\E j \in DOMAIN taken : normalize(taken[j]) = <<t>>) =>
                                listed2[t] = clock
  BY <1>6 DEF Never
<1> HIDE DEF listed2
<1>8. \A x : /\ Sound(x, lastListed, clock) => Sound(x, listed2, clock)
             /\ Fetched(x, lastListed, clock) => Fetched(x, listed2, clock)
  BY <1>6, <1>7, SoundLater
<1>9. Clocks' /\ Stores'
  BY <1>2, <1>3, <1>6, <1>7, <1>8 DEF Kept, Clocks, Stores
<1>10. \A s \in Refreshers : Fetched(refresh[s], listed2, clock) /\ refresh[s] \in RefreshType
  BY <1>8 DEF Kept, Fetching, Fetched
<1>11. l \in [schemes : SUBSET STRING, list : Seq(TrackerLine)] /\ l.list = taken
  BY <1>5
<1> HIDE DEF l
<1> DEFINE got == refresh[r].got
           start == refresh[r].start
<1>12. got \in Fetches /\ i \in Nat /\ start \in Never..clock /\ start # Never
  BY <1>2, <1>10 DEF Fetched, RefreshType
<1>13. /\ Append(got, l) \in Fetches /\ Len(Append(got, l)) = Len(got) + 1 /\ Len(got) \in Nat
       /\ ToSet(Append(got, l)) = ToSet(got) \cup {l}
  <2> DEFINE R == [schemes : SUBSET STRING, list : Seq(TrackerLine)]
  <2>1. Fetches = Seq(R) /\ l \in R
    BY <1>11 DEF Fetches, ListsOf
  <2> HIDE DEF R, got
  <2> QED
    BY <1>12, <2>1, Elements
<1>14. /\ q \in RefreshType /\ q.start = start /\ q.at = i + 1 /\ q.got = Append(got, l)
       /\ q.pc = "fetching"
  <2> DEFINE got2 == Append(got, l)
             old == refresh[r]
  <2>1. got2 \in Fetches /\ i + 1 \in Nat /\ old \in RefreshType /\ old.pc = "fetching"
    BY <1>2, <1>10, <1>12, <1>13
  <2>2. q = [old EXCEPT !.at = i + 1, !.got = got2]
    OBVIOUS
  <2> HIDE DEF got2, old, q, i
  <2>3. /\ q \in RefreshType /\ q.start = old.start /\ q.at = i + 1 /\ q.got = got2
        /\ q.pc = old.pc
    BY <2>1, <2>2 DEF RefreshType
  <2> QED
    BY <2>1, <2>3 DEF got2, old
<1> HIDE DEF q
<1>15. Listed(q.got, q.start, listed2)
  <2>1. Listed(got, start, listed2)
    BY <1>2, <1>10 DEF Fetched
  <2>2. ASSUME NEW raw \in ToSet(l.list), NEW t \in ToSet(normalize(raw))
        PROVE  t \in Trackers /\ listed2[t] >= start
    <3>1. t \in Trackers
      BY <1>5, <1>11, <2>2
    <3>2. normalize(raw) = <<t>>
      <4>1. normalize(raw) = <<>> \/ normalize(raw) = <<normalize(raw)[1]>>
        BY DEF normalize
      <4> QED
        BY <2>2, <4>1 DEF ToSet
    <3>3. PICK j \in DOMAIN taken : taken[j] = raw
      BY <1>11, <2>2 DEF ToSet
    <3>4. listed2[t] = clock
      BY <1>7, <3>1, <3>2, <3>3
    <3>5. clock >= start
      BY <1>6, <1>12 DEF Never
    <3> QED
      BY <3>1, <3>4, <3>5
  <2> QED
    BY <1>13, <1>14, <2>1, <2>2 DEF Listed
<1>16. Fetched(q, listed2, clock)
  <2>1. Len(got) <= i
    BY <1>10 DEF Fetched
  <2>2. Len(Config.sources) \in Nat /\ i \in 1..Len(Config.sources)
    BY <1>2, FeedAssumption
  <2>3. i + 1 \in 0..Len(Config.sources) + 1 /\ Len(Append(got, l)) <= i + 1
    BY <1>12, <1>13, <2>1, <2>2
  <2> QED
    BY <1>12, <1>14, <1>15, <2>3 DEF Fetched
<1>17. Fetching'
  <2>1. refresh' \in [Refreshers -> RefreshType]
    BY <1>4, <1>14 DEF Kept, Fetching
  <2>2. \A s \in Refreshers : refresh'[s] = IF s = r THEN q ELSE refresh[s]
    BY <1>4 DEF Kept, Fetching
  <2>3. \A s \in Refreshers : Fetched(refresh'[s], listed2, clock)
    BY <1>10, <1>16, <2>2
  <2> QED
    BY <1>2, <1>3, <2>1, <2>3 DEF Fetching
<1> QED
  BY <1>9, <1>17 DEF Kept

\* A refresh commits: the feed is the merged list, or stays as it was.
LEMMA CommitKept ==
  ASSUME Kept, NEW r \in Refreshers, Commit(r)
  PROVE  Kept'
<1> DEFINE got == refresh[r].got
           start == refresh[r].start
           list == merge(Config, got)
           new == [trackers |-> list, updated_at |-> start]
<1>1. clock \in Nat /\ UNCHANGED <<clock, lastListed>>
  BY DEF Kept, Clocks, Commit
<1>2. /\ refresh[r].pc = "fetching" /\ Fetched(refresh[r], lastListed, clock)
  BY DEF Kept, Fetching, Commit
<1>3. /\ got \in Fetches /\ start \in Never..clock /\ start # Never
      /\ Listed(got, start, lastListed)
  BY <1>2 DEF Fetched, RefreshType
<1>4. start \in 0..clock
  BY <1>1, <1>3 DEF Never
<1>5. Sound(new, lastListed, clock)
  BY <1>1, <1>3, <1>4, MergeSound
<1>6. feed' = Committed(r, list) /\ cache' \in {feed', cache, NoState}
  BY DEF Commit
<1>7. feed' \in {new, feed}
  BY <1>6 DEF Committed
<1> HIDE DEF new, list
<1>8. Sound(feed', lastListed, clock)
  BY <1>5, <1>7 DEF Kept, Stores
<1>9. Sound(cache', lastListed, clock)
  BY <1>1, <1>6, <1>8, NothingSound DEF Kept, Stores
<1>10. Clocks' /\ Stores'
  BY <1>1, <1>8, <1>9 DEF Kept, Clocks, Stores
<1>11. PICK q : /\ q \in {Idle, [Idle EXCEPT !.pc = "reannounce"]}
                /\ refresh' = [refresh EXCEPT ![r] = q]
  BY DEF Commit
<1>12. Fetched(q, lastListed, clock)
  BY <1>1, <1>11, IdleFetched
<1>13. Fetching'
  BY <1>1, <1>11, <1>12, OneMoves DEF Kept
<1> QED
  BY <1>10, <1>13 DEF Kept

\* A refresh that begins, passes over a source, or is done with the torrent.
LEMMA RefreshKept ==
  ASSUME Kept, NEW r \in Refreshers,
         \/ RefreshStarts(r) \/ FetchFails(r) \/ HangUp(r)
         \/ Reannounce(r) \/ ReannounceSkips(r) \/ ReannounceFails(r)
         \/ ReloadEnters(r) \/ ReloadFails(r)
  PROVE  Kept'
<1>1. UNCHANGED <<clock, feed, cache, lastListed>>
  BY DEF RefreshStarts, FetchFails, HangUp, Reannounce, ReannounceSkips, ReannounceFails,
         ReloadEnters, ReloadFails
<1>2. Clocks' /\ Stores'
  BY <1>1 DEF Kept, Clocks, Stores
<1>3. /\ clock \in Nat /\ Fetched(refresh[r], lastListed, clock) /\ refresh[r] \in RefreshType
      /\ Len(Config.sources) \in Nat
  BY FeedAssumption DEF Kept, Clocks, Fetching
<1> SUFFICES \E q : Fetched(q, lastListed, clock) /\ refresh' = [refresh EXCEPT ![r] = q]
  BY <1>1, <1>2, OneMoves DEF Kept
<1>4. CASE RefreshStarts(r)
  <2>1. PICK none : none = <<>>
    OBVIOUS
  <2>2. none \in Fetches /\ Len(none) = 0 /\ ToSet(none) = {}
    <3> DEFINE R == [schemes : SUBSET STRING, list : Seq(TrackerLine)]
    <3>1. Fetches = Seq(R)
      BY DEF Fetches, ListsOf
    <3> HIDE DEF R
    <3> QED
      BY <2>1, <3>1 DEF ToSet
  <2> DEFINE q == [pc |-> "fetching", start |-> clock, at |-> 1, got |-> none]
  <2>3. refresh' = [refresh EXCEPT ![r] = q]
    BY <1>4, <2>1 DEF RefreshStarts
  <2>4. /\ q \in RefreshType /\ q.start = clock /\ q.at = 1 /\ q.got = none
    BY <1>3, <2>2 DEF RefreshType
  <2> HIDE DEF q
  <2>5. Fetched(q, lastListed, clock)
    BY <1>3, <2>2, <2>4 DEF Fetched, Listed, Never
  <2> QED
    BY <2>3, <2>5
<1>5. CASE FetchFails(r)
  <2> DEFINE old == refresh[r]
             q == [old EXCEPT !.at = @ + 1]
  <2>1. refresh' = [refresh EXCEPT ![r] = q]
    BY <1>5 DEF FetchFails, Kept, Fetching
  <2>2. old.at \in 1..Len(Config.sources) /\ old \in RefreshType
    BY <1>3, <1>5, FeedAssumption DEF FetchFails
  <2>3. Fetched(old, lastListed, clock)
    BY <1>3
  <2> HIDE DEF old
  <2>4. /\ q \in RefreshType /\ q.start = old.start /\ q.at = old.at + 1 /\ q.got = old.got
        /\ q.pc = old.pc
    BY <2>2 DEF RefreshType
  <2> HIDE DEF q
  <2>5. Len(old.got) \in Nat
    BY <2>2 DEF RefreshType, Fetches, ListsOf
  <2>6. q.at \in 0..Len(Config.sources) + 1 /\ Len(q.got) <= q.at
    BY <1>3, <2>2, <2>3, <2>4, <2>5 DEF Fetched
  <2>7. Fetched(q, lastListed, clock)
    BY <2>3, <2>4, <2>6 DEF Fetched
  <2> QED
    BY <2>1, <2>7
<1>6. CASE Reannounce(r)
  <2> DEFINE old == refresh[r]
             q == [old EXCEPT !.pc = "reload"]
  <2>1. refresh' = [refresh EXCEPT ![r] = q]
    BY <1>6 DEF Reannounce, Kept, Fetching
  <2>2. Fetched(old, lastListed, clock) /\ old \in RefreshType
    BY <1>3
  <2> HIDE DEF old
  <2>3. /\ q \in RefreshType /\ q.start = old.start /\ q.at = old.at /\ q.got = old.got
        /\ q.pc = "reload"
    BY <2>2 DEF RefreshType
  <2> HIDE DEF q
  <2>4. Fetched(q, lastListed, clock)
    BY <2>2, <2>3 DEF Fetched
  <2> QED
    BY <2>1, <2>4
<1>7. CASE HangUp(r) \/ ReannounceSkips(r) \/ ReannounceFails(r) \/ ReloadEnters(r)
           \/ ReloadFails(r)
  BY <1>3, <1>7, IdleFetched
     DEF HangUp, ReannounceSkips, ReannounceFails, ReloadEnters, ReloadFails
<1> QED
  BY <1>4, <1>5, <1>6, <1>7

\* Every step keeps the clock, the refreshes and the stores as they should be.
LEMMA KeptStep == Kept /\ [Next]_vars => Kept'
<1> SUFFICES ASSUME Kept, [Next]_vars PROVE Kept'
  OBVIOUS
<1>1. ASSUME NEW r \in Refreshers,
             \/ RefreshStarts(r) \/ FetchOk(r) \/ FetchFails(r) \/ HangUp(r) \/ Commit(r)
             \/ Reannounce(r) \/ ReannounceSkips(r) \/ ReannounceFails(r)
             \/ ReloadEnters(r) \/ ReloadFails(r)
      PROVE  Kept'
  BY <1>1, FetchOkKept, CommitKept, RefreshKept
<1>2. CASE AddReads \/ AddEnters \/ PauseOrResume \/ RemoveTorrent \/ UNCHANGED vars
  <2>1. UNCHANGED <<clock, feed, cache, refresh, lastListed>>
    BY <1>2 DEF AddReads, AddEnters, PauseOrResume, RemoveTorrent, vars
  <2> QED
    BY <2>1 DEF Kept, Clocks, Fetching, Stores
<1>3. CASE Restart
  <2>1. /\ UNCHANGED <<clock, cache, lastListed>> /\ feed' = cache
        /\ refresh' = [r \in Refreshers |-> Idle]
    BY <1>3 DEF Restart
  <2>2. Fetched(Idle, lastListed, clock) /\ Idle \in RefreshType
    BY IdleFetched DEF Kept, Clocks, Fetched
  <2>3. Fetching'
    BY <2>1, <2>2 DEF Fetching
  <2> QED
    BY <2>1, <2>3 DEF Kept, Clocks, Stores
<1>4. CASE Tick
  <2>1. UNCHANGED <<feed, cache, refresh, lastListed>> /\ clock' = clock + 1 /\ clock < MaxTime
    BY <1>4 DEF Tick
  <2>2. clock \in Nat /\ clock' \in Nat /\ clock' >= clock /\ clock' \in 0..MaxTime
    BY <2>1, FeedAssumption DEF Kept, Clocks
  <2>3. lastListed \in [Trackers -> Int] /\ lastListed \in [Trackers -> Never..clock']
    BY <2>1, <2>2 DEF Kept, Clocks, Never
  <2>4. \A x : /\ Sound(x, lastListed, clock) => Sound(x, lastListed, clock')
               /\ Fetched(x, lastListed, clock) => Fetched(x, lastListed, clock')
    BY <2>2, <2>3, SoundLater
  <2> QED
    BY <2>1, <2>2, <2>3, <2>4 DEF Kept, Clocks, Fetching, Stores
<1> QED
  BY <1>1, <1>2, <1>3, <1>4 DEF Next

-----------------------------------------------------------------------------
(* The torrent.                                                            *)

\* The torrent is out of the session for one refresh at a time.
LEMMA ReloadStep == Fetching /\ OneReload /\ [Next]_vars => OneReload'
<1> SUFFICES ASSUME Fetching, OneReload, [Next]_vars PROVE OneReload'
  OBVIOUS
<1>1. refresh \in [Refreshers -> RefreshType]
  BY DEF Fetching
<1>2. ASSUME NEW r \in Refreshers,
             RefreshStarts(r) \/ FetchFails(r) \/ HangUp(r) \/ FetchOk(r) \/ Commit(r)
      PROVE  OneReload'
  <2>1. UNCHANGED <<torrent, current_at, skipped>> /\ ~Reloading(r)
    BY <1>2 DEF RefreshStarts, FetchFails, HangUp, FetchOk, Commit, Reloading
  <2>2. /\ \A s \in Refreshers : s # r => refresh'[s] = refresh[s]
        /\ refresh'[r].pc # "reload"
    <3>1. CASE RefreshStarts(r)
      BY <1>1, <3>1 DEF RefreshStarts
    <3>2. CASE FetchFails(r)
      BY <1>1, <3>2 DEF FetchFails, RefreshType
    <3>3. CASE FetchOk(r)
      <4>1. PICK l : refresh' = [refresh EXCEPT ![r].at = refresh[r].at + 1,
                                                ![r].got = Append(@, l)]
        BY <3>3 DEF FetchOk
      <4>2. refresh[r].pc = "fetching" /\ refresh[r] \in RefreshType
        BY <1>1, <3>3 DEF FetchOk
      <4> QED
        BY <1>1, <4>1, <4>2 DEF RefreshType
    <3>4. CASE Commit(r)
      BY <1>1, <3>4 DEF Commit, Idle
    <3>5. CASE HangUp(r)
      BY <1>1, <3>5 DEF HangUp, Idle
    <3> QED
      BY <1>2, <3>1, <3>2, <3>3, <3>4, <3>5
  <2>3. \A s \in Refreshers : Reloading(s)' <=> Reloading(s)
    BY <2>1, <2>2 DEF Reloading
  <2> QED
    BY <2>1, <2>3 DEF OneReload
<1>3. ASSUME NEW r \in Refreshers, Reannounce(r)
      PROVE  OneReload'
  <2>1. \A s \in Refreshers : ~Reloading(s)
    BY <1>3 DEF Reannounce, OneReload
  <2>2. \A s \in Refreshers : Reloading(s)' <=> s = r
    <3>1. /\ refresh'[r].pc = "reload" /\ \A s \in Refreshers : s # r => refresh'[s] = refresh[s]
      BY <1>1, <1>3 DEF Reannounce, RefreshType
    <3> QED
      BY <2>1, <3>1 DEF Reloading
  <2>3. torrent' = "reloading" /\ {current_at, skipped}' \subseteq BOOLEAN
    BY <1>3 DEF Reannounce, Reads, fresh
  <2> QED
    BY <2>2, <2>3 DEF OneReload
<1>4. ASSUME NEW r \in Refreshers, ReannounceSkips(r) \/ ReannounceFails(r)
      PROVE  OneReload'
  <2>1. \A s \in Refreshers : Reloading(s)' <=> Reloading(s)
    BY <1>1, <1>4 DEF ReannounceSkips, ReannounceFails, Reloading, Idle
  <2>2. torrent' = torrent \/ (torrent = "active" /\ torrent' \in {"active", "paused"})
    BY <1>4 DEF ReannounceSkips, ReannounceFails
  <2>3. {current_at, skipped}' \subseteq BOOLEAN
    <3>1. CASE ReannounceSkips(r)
      BY <3>1 DEF ReannounceSkips, OneReload
    <3>2. CASE ReannounceFails(r)
      BY <3>2 DEF ReannounceFails, OneReload
    <3> QED
      BY <1>4, <3>1, <3>2
  <2> QED
    BY <2>1, <2>2, <2>3 DEF OneReload
<1>5. ASSUME NEW r \in Refreshers, ReloadEnters(r) \/ ReloadFails(r)
      PROVE  OneReload'
  <2>1. \A s \in Refreshers : ~Reloading(s)'
    BY <1>1, <1>5 DEF ReloadEnters, ReloadFails, Reloading, Idle, OneReload
  <2>2. torrent' \in {"active", "none"} /\ {current_at, skipped}' \subseteq BOOLEAN
    BY <1>5 DEF ReloadEnters, ReloadFails, OneReload
  <2> QED
    BY <2>1, <2>2 DEF OneReload
<1>6. CASE AddReads \/ AddEnters \/ PauseOrResume \/ RemoveTorrent
  <2>1. \A s \in Refreshers : Reloading(s)' <=> Reloading(s)
    BY <1>6 DEF AddReads, AddEnters, PauseOrResume, RemoveTorrent, Reloading
  <2>2. /\ torrent' \in {"none", "adding", "active", "paused"} /\ torrent # "reloading"
        /\ {current_at, skipped}' \subseteq BOOLEAN
    BY <1>6 DEF AddReads, AddEnters, PauseOrResume, RemoveTorrent, Reads, fresh, OneReload
  <2> QED
    BY <2>1, <2>2 DEF OneReload
<1>7. CASE Restart
  BY <1>7 DEF Restart, OneReload, Reloading, Idle
<1>8. CASE Tick \/ UNCHANGED vars
  BY <1>8 DEF Tick, vars, OneReload, Reloading
<1> QED
  BY <1>2, <1>3, <1>4, <1>5, <1>6, <1>7, <1>8 DEF Next

\* If every refresh re-announces, a torrent is behind the feed only until the refresh
\* that changed the list has come round to it.
LEMMA FollowedStep ==
  ASSUME \A r \in Refreshers : Reannounces(r), Kept, OneReload, Followed, [Next]_vars
  PROVE  Followed'
<1> DEFINE Waits == torrent # "none" /\ current_at /\ ~skipped
           Pending == \E r \in Refreshers : refresh[r].pc = "reannounce"
           Same == holds = feed.trackers /\ feed.updated_at # Never
<1>1. Waits /\ ~Pending => Same
  BY DEF Followed
<1>0. SUFFICES ASSUME Waits', ~Pending' PROVE Same'
  BY DEF Followed
<1>2. refresh \in [Refreshers -> RefreshType]
  BY DEF Kept, Fetching
<1>3. ASSUME NEW r \in Refreshers, RefreshStarts(r) \/ FetchFails(r) \/ HangUp(r) \/ FetchOk(r)
      PROVE  Same'
  <2>1. UNCHANGED <<feed, holds, torrent, current_at, skipped>>
    BY <1>3 DEF RefreshStarts, FetchFails, HangUp, FetchOk
  <2>2. refresh[r].pc # "reannounce" /\ \A s \in Refreshers : s # r => refresh'[s] = refresh[s]
    BY <1>2, <1>3 DEF RefreshStarts, FetchFails, HangUp, FetchOk
  <2>3. ~Pending
    BY <1>0, <2>2
  <2> QED
    BY <1>0, <1>1, <2>1, <2>3
<1>4. ASSUME NEW r \in Refreshers, ReloadEnters(r)
      PROVE  Same'
  <2>1. UNCHANGED <<feed, holds, current_at, skipped>> /\ torrent # "none"
    BY <1>4 DEF ReloadEnters, OneReload, Reloading
  <2>2. refresh[r].pc # "reannounce" /\ \A s \in Refreshers : s # r => refresh'[s] = refresh[s]
    BY <1>2, <1>4 DEF ReloadEnters
  <2>3. ~Pending
    BY <1>0, <2>2
  <2> QED
    BY <1>0, <1>1, <2>1, <2>3
<1>5. ASSUME NEW r \in Refreshers, Commit(r)
      PROVE  Same'
  <2> DEFINE got == refresh[r].got
             start == refresh[r].start
             list == merge(Config, got)
             new == [trackers |-> list, updated_at |-> start]
  <2>1. UNCHANGED <<holds, torrent, current_at, skipped>> /\ refresh[r].pc = "fetching"
    BY <1>5 DEF Commit
  <2>2. \A s \in Refreshers : s # r => refresh'[s] = refresh[s]
    BY <1>2, <1>5 DEF Commit
  <2>3. Same
    BY <1>0, <1>1, <2>1, <2>2
  <2>4. ~Changed(r, list)
    <3>1. Changed(r, list) => refresh'[r] = [Idle EXCEPT !.pc = "reannounce"]
      BY <1>2, <1>5 DEF Commit
    <3>2. [Idle EXCEPT !.pc = "reannounce"].pc = "reannounce"
      BY DEF Idle
    <3> QED
      BY <1>0, <3>1, <3>2
  <2>5. start # Never
    BY <2>1 DEF Kept, Fetching, Fetched
  <2>6. feed' = Committed(r, list)
    BY <1>5 DEF Commit
  <2>7. CASE got # <<>>
    <3>1. feed.trackers = list /\ feed' = new
      BY <2>4, <2>6, <2>7 DEF Changed, Committed
    <3> QED
      BY <2>1, <2>3, <2>5, <3>1
  <2>8. CASE got = <<>> /\ feed.trackers # <<>>
    <3>1. feed' = feed
      BY <2>6, <2>8 DEF Committed
    <3> QED
      BY <2>1, <2>3, <3>1
  <2>9. CASE got = <<>> /\ feed.trackers = <<>>
    <3>1. feed' = new /\ list = Static
      BY <2>6, <2>9 DEF Committed, Static
    <3>2. Static = <<>>
      BY <2>3, <2>9 DEF Kept, Stores, Sound
    <3> QED
      BY <2>1, <2>3, <2>5, <2>9, <3>1, <3>2
  <2> QED
    BY <2>7, <2>8, <2>9
<1>6. ASSUME Reads, UNCHANGED feed
      PROVE  Same'
  <2>1. fresh /\ holds' = current
    BY <1>0, <1>6 DEF Reads
  <2> QED
    BY <1>6, <2>1 DEF current, fresh
<1>7. ASSUME NEW r \in Refreshers, Reannounce(r)
      PROVE  Same'
  BY <1>6, <1>7 DEF Reannounce
<1>8. ASSUME NEW r \in Refreshers, ReannounceSkips(r) \/ ReannounceFails(r) \/ ReloadFails(r)
      PROVE  Same'
  <2>1. torrent' = "none"
    BY <1>0, <1>8 DEF ReannounceSkips, ReannounceFails, ReloadFails
  <2> QED
    BY <1>0, <2>1
<1>9. CASE AddReads
  BY <1>6, <1>9 DEF AddReads
<1>10. CASE AddEnters \/ PauseOrResume \/ Tick \/ UNCHANGED vars
  <2>1. UNCHANGED <<feed, holds, current_at, skipped, refresh>> /\ (torrent' # "none" => torrent # "none")
    BY <1>10 DEF AddEnters, PauseOrResume, Tick, vars
  <2> QED
    BY <1>0, <1>1, <2>1
<1>11. CASE RemoveTorrent \/ Restart
  BY <1>0, <1>11 DEF RemoveTorrent, Restart
<1> HIDE DEF Same, Waits, Pending
<1> QED
  BY <1>3, <1>4, <1>5, <1>7, <1>8, <1>9, <1>10, <1>11 DEF Next

-----------------------------------------------------------------------------
(* The theorems.                                                           *)

\* Initially there is no torrent.
LEMMA TorrentInit == Init => OneReload /\ Followed
<1> SUFFICES ASSUME Init PROVE OneReload /\ Followed
  OBVIOUS
<1>1. \A r \in Refreshers : ~Reloading(r)
  BY DEF Init, Reloading, Idle
<1>2. torrent = "none" /\ {current_at, skipped} \subseteq BOOLEAN
  BY DEF Init
<1> QED
  BY <1>1, <1>2 DEF OneReload, Followed

\* The types, and what is fetched and stored.
LEMMA FeedInvariant == Spec => [](Kept /\ OneReload)
<1>1. Init => Kept /\ OneReload
  BY KeptInit, TorrentInit
<1>2. Kept /\ OneReload /\ [Next]_vars => (Kept /\ OneReload)'
  BY KeptStep, ReloadStep DEF Kept
<1> QED
  BY <1>1, <1>2, PTL DEF Spec

\* Type correctness of the feed for any sources and any number of refreshes; one
\* torrent is reloaded by one refresh at a time (reannounce_active).
THEOREM FeedTypeCorrect == Spec => []TypeOK
<1>1. Kept /\ OneReload => TypeOK
  <2> SUFFICES ASSUME Kept, OneReload PROVE TypeOK
    OBVIOUS
  <2> DEFINE F == [trackers : Seq(Known), updated_at : Never..MaxTime]
             Rs == {r \in Refreshers : refresh[r].pc = "reload"}
  <2>1. \A f \in {feed, cache} : f \in F
    <3>1. ASSUME NEW f, Sound(f, lastListed, clock) PROVE f \in F
      <4>1. f \in FeedType /\ f.updated_at \in Never..MaxTime
        BY <3>1, FeedAssumption DEF Sound, Kept, Clocks, Never
      <4> QED
        BY <4>1 DEF FeedType
    <3> HIDE DEF F
    <3> QED
      BY <3>1 DEF Kept, Stores
  <2>2. \A r \in Refreshers :
          /\ refresh[r].pc \in {"idle", "fetching", "reannounce", "reload"}
          /\ refresh[r].start \in Never..clock
          /\ refresh[r].at \in 0..Len(Config.sources) + 1
          /\ Len(refresh[r].got) <= refresh[r].at
    BY DEF Kept, Fetching, Fetched, RefreshType
  <2>3. torrent = "reloading" <=> Cardinality(Rs) = 1
    <3>1. CASE torrent = "reloading"
      <4>1. PICK r \in Refreshers : Reloading(r)
        BY <3>1 DEF OneReload
      <4>2. Rs = {r}
        BY <4>1 DEF OneReload, Reloading
      <4> HIDE DEF Rs
      <4> QED
        BY <3>1, <4>2, FS_Singleton
    <3>2. CASE torrent # "reloading"
      <4>1. Rs = {}
        BY <3>2 DEF OneReload, Reloading
      <4> HIDE DEF Rs
      <4> QED
        BY <3>2, <4>1, FS_EmptySet
    <3> QED
      BY <3>1, <3>2
  <2> HIDE DEF Rs
  <2> QED
    BY <2>1, <2>2, <2>3 DEF TypeOK, Kept, Clocks, OneReload, Known, Static, Rs
<1> QED
  BY <1>1, FeedInvariant, PTL

\* current: a tracker that is not static is served only while a fetch that listed it
\* is at most stale_after old, whatever refreshes fail, overlap or commit out of
\* order, and whatever a restart reads back from the cache file.
THEOREM NothingStaleServed == Spec => []StaleNeverServed
<1>1. Kept => StaleNeverServed
  <2> SUFFICES ASSUME Kept, NEW t \in ToSet(current) \ ToSet(Static)
               PROVE  lastListed[t] # Never /\ clock - lastListed[t] <= StaleAfter
    BY DEF StaleNeverServed, Static
  <2>1. fresh /\ current = feed.trackers
    BY DEF current, Static
  <2>2. /\ feed \in FeedType /\ feed.updated_at \in Never..clock /\ feed.updated_at # Never
        /\ clock - feed.updated_at <= StaleAfter
        /\ lastListed[t] >= feed.updated_at
    BY <2>1 DEF Kept, Stores, Sound, fresh
  <2>3. t \in Trackers
    <3>1. feed.trackers \in Seq(Known)
      BY <2>2 DEF FeedType
    <3>2. ToSet(feed.trackers) \subseteq Known
      BY <3>1 DEF ToSet
    <3> QED
      BY <2>1, <3>2 DEF Known
  <2>4. clock \in Nat /\ lastListed[t] \in Int /\ StaleAfter \in Nat
    BY <2>3, FeedAssumption DEF Kept, Clocks, Never
  <2> QED
    BY <2>2, <2>4 DEF Never
<1> QED
  BY <1>1, FeedInvariant, PTL

\* reannounce_active: when no re-announce is under way, an active torrent that was
\* given its list while the list was fresh, and that no re-announce since passed over
\* or failed to reach, holds the list of the feed.  Every refresh has to re-announce:
\* SIGHUP does, the loop and the API only if reannounce_active is set.
THEOREM TorrentsFollowList ==
  ASSUME \A r \in Refreshers : Reannounces(r) PROVE Spec => []ActiveFollowsList
<1>1. Init => Followed
  BY TorrentInit
<1>2. Kept /\ OneReload /\ Followed /\ [Next]_vars => Followed'
  BY FollowedStep
<1>3. Followed => ActiveFollowsList
  BY DEF Followed, ActiveFollowsList
<1> QED
  BY <1>1, <1>2, <1>3, FeedInvariant, PTL DEF Spec
=============================================================================
