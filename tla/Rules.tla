------------------------------- MODULE Rules -------------------------------
(***************************************************************************)
(* The pure rules of the program: the eviction plan, the merged tracker    *)
(* list, the way of a request through the HTTP layers, the settings, and   *)
(* the signs of the data disk.  A behaviour draws one question and answers *)
(* it; the properties compare the answer with what is promised, stated     *)
(* without reference to how it is computed.                                *)
(***************************************************************************)
EXTENDS ServerConfig, EvictionPlan, DataDisk

CONSTANTS
    PlanQuestions, MergeQuestions, RequestQuestions, ConfigQuestions, DiskQuestions,
    Ips,       \* addresses
    Default    \* the settings when there is no file

Address == [net : STRING, mapped : BOOLEAN]
Hops == [form : {"plain", "junk"}, ip : Address]
Hop(i) == [form |-> "plain", ip |-> i]
HeaderLine == [ascii : BOOLEAN, hops : Seq(Hops)]

-----------------------------------------------------------------------------
(* What the questions are made of.                                         *)

ASSUME PlanAssumption ==
    \A q \in PlanQuestions :
        q.ask = "plan" /\ PlanInput(q.cands, q.incoming, q.limit, q.disk_free, q.min_free)

ASSUME MergeAssumption ==
    \A q \in MergeQuestions :
        /\ q.ask = "merge" /\ q.cfg.max \in Nat
        /\ q.cfg.add \in Seq(TrackerLine) /\ q.cfg.block \in Seq(TrackerLine)
        /\ q.lists \in Seq([schemes : SUBSET STRING, list : Seq(TrackerLine)])

\* "none" stands for no token.
ASSUME RequestAssumption ==
    /\ Ips \subseteq Address
    /\ \A q \in RequestQuestions :
        /\ q.ask = "request" /\ q.cfg.token # None
        /\ DOMAIN q.req = {"path", "method", "body", "patch", "fault", "peer", "xff", "bearer",
                            "api_token", "asked"}
        /\ q.req.peer \in Seq(Address) /\ Len(q.req.peer) <= 1
        /\ q.req.xff \in Seq(HeaderLine)

\* A setting in the environment file has a value, and the built-in settings are valid.
EnvLine ==
    [form : {"set"}, key : STRING, value : Seq(STRING) \ {<<>>}] \cup [form : {"blank", "broken"}]
IsFileConfig(fc) ==
    /\ DOMAIN fc.trackers =
         {"enabled", "schemes", "max", "fetch_timeout", "sources", "add", "block"}
    /\ fc.trackers.enabled \in BOOLEAN
    /\ fc.trackers.add \in Seq(TrackerLine)
ASSUME ConfigAssumption ==
    /\ IsFileConfig(Default) /\ validate_file_config(Default).errors = {}
    /\ \A q \in ConfigQuestions :
        /\ q.ask = "config" /\ q.runs \in BOOLEAN
        /\ \A p \in DOMAIN q.files : IsFileConfig(q.files[p].fc) /\ q.files[p].parses \in BOOLEAN
        /\ q.given \in Seq(STRING)
        /\ q.env \in Seq(EnvLine)

DiskEvents == {"pull", "plug", "mount", "release", "restart"}
ASSUME DiskAssumption ==
    \A q \in DiskQuestions :
        /\ q.ask = "disk" /\ q.major \in Nat /\ {q.managed, q.cached} \subseteq BOOLEAN
        /\ q.path \in Seq(STRING) /\ IsPrefix(Point, q.path)
        /\ q.events \in Seq(DiskEvents)

-----------------------------------------------------------------------------
VARIABLES question, answer

vars == <<question, answer>>

Unanswered == [done |-> FALSE]

Init ==
    /\ \/ question \in PlanQuestions
       \/ question \in MergeQuestions
       \/ question \in RequestQuestions
       \/ question \in ConfigQuestions
       \/ question \in DiskQuestions
    /\ answer = Unanswered

Answer(a) == answer = Unanswered /\ answer' = [done |-> TRUE, is |-> a] /\ UNCHANGED question

\* What each rule answers.
Planned(q) ==
    CatalogPlan(q.cands, TotalSize(q.cands), q.disk_free, q.incoming, q.limit, q.min_free)
Merged(q) == merge(q.cfg, q.lists)
Served(q) == shared(q.cfg, q.req)
Started(q) == start(q.files, Default, q.env)
\* A disk that is gone may still list its directory from the cache.
Watched(q) ==
    LET w == World(q.major, q.managed, q.events)
        reads(table) == (w.there /\ Stat(table, q.path) = w.dev) \/ q.cached
        ok(table) == data_disk_ok(TRUE, table, Sys(w), q.path, reads(table))
    IN  [world |-> w, ok |-> ok(w.ns),
         host  |-> host_has_disk(w.host, Sys(w), q.path),
         again |-> check_mount(TRUE, w.host, q.path) /\ ok(w.host)]

Plan  == question.ask = "plan" /\ Answer(Planned(question))
Merge == question.ask = "merge" /\ Answer(Merged(question))
Serve == question.ask = "request" /\ Answer(Served(question))
Start == question.ask = "config" /\ Answer(Started(question))
Watch == question.ask = "disk" /\ Answer(Watched(question))

Next == Plan \/ Merge \/ Serve \/ Start \/ Watch

Spec == Init /\ [][Next]_vars

Answered(ask) == answer.done /\ question.ask = ask

Granted == Answered("plan") /\ answer.is.ok
Evicted == ToSet(answer.is.evict)

\* A granted plan makes room: afterwards the catalog and the incoming movie are
\* within the budget, and the disk keeps its floor once the movie is written.
PlanMakesRoom ==
    Granted =>
        /\ TotalSize(question.cands \ Evicted) + question.incoming <= question.limit
        /\ question.disk_free + TotalSize(Evicted) >= question.incoming + question.min_free
        /\ answer.is.used_after = TotalSize(question.cands \ Evicted)

\* It takes the least recently used movies, in order, spares every protected one,
\* and stops as soon as enough is freed: without the last one there is no room.
PlanIsLeastRecentlyUsed ==
    Granted =>
        /\ \A c \in Evicted : ~c.protected
        /\ \A c \in Evicted, d \in Unprotected(question.cands) \ Evicted : Before(c, d)
        /\ \A i, j \in DOMAIN answer.is.evict : i < j => Before(answer.is.evict[i], answer.is.evict[j])
        /\ answer.is.evict # <<>> =>
              LET rest == Evicted \ {Last(answer.is.evict)} IN
              \/ TotalSize(question.cands \ rest) + question.incoming > question.limit
              \/ question.disk_free + TotalSize(rest) < question.incoming + question.min_free

\* It refuses only what cannot be done: a movie larger than the whole budget
\* (whatever its size wraps to), or one for which all unprotected movies together
\* are not enough.
PlanRefusesOnlyTheImpossible ==
    Answered("plan") /\ ~answer.is.ok =>
        LET all == Unprotected(question.cands) IN
        \/ question.incoming > question.limit
        \/ TotalSize(question.cands \ all) + question.incoming > question.limit
        \/ question.disk_free + TotalSize(all) < question.incoming + question.min_free

-----------------------------------------------------------------------------
\* Two lines name the same tracker when they differ only in what a client ignores:
\* a port or a path that is the default.
PortOf(t) == IF t.port = 0 THEN DefaultPort(t.scheme) ELSE t.port
PathOf(t) == NormalizePath(t.scheme, t.path)
SameTracker(a, b) ==
    /\ a.scheme = b.scheme /\ a.host = b.host /\ a.ip = b.ip
    /\ PortOf(a) = PortOf(b) /\ PathOf(a) = PathOf(b)
\* A line that no entry of the block list names: a suffix written in lower case, a
\* tracker or a host.
Unblocked(t) ==
    \A b \in ToSet(question.cfg.block) :
        CASE b.kind = "glob" -> b.upper \/ ~IsSuffix(b.host, t.host)
          [] b.kind = "url"  -> ~SameTracker(b, t)
          [] OTHER           -> b.host # t.host
\* The lines that may be used: a list's own schemes replace the global ones.
Usable ==
    {t \in (UNION {ToSet(l.list) : l \in ToSet(question.lists)}) \cup ToSet(question.cfg.add) :
        /\ t.kind = "url"
        /\ ~(question.cfg.reject_ip_hosts /\ t.ip)
        /\ \/ t \in ToSet(question.cfg.add) /\ t.scheme \in question.cfg.schemes
           \/ \E l \in ToSet(question.lists) :
                 /\ t \in ToSet(l.list)
                 /\ t.scheme \in (IF l.schemes = {} THEN question.cfg.schemes ELSE l.schemes)
        /\ Unblocked(t)}

\* The merged tracker list (trackers::merge) names no tracker twice however it is
\* written, holds only usable ones and at most `max`, and leaves one out only when
\* the cap is reached by that many different trackers.
MergedOnce ==
    Answered("merge") =>
        LET out == answer.is IN
        /\ Len(out) <= question.cfg.max
        /\ \A i, j \in DOMAIN out : SameTracker(out[i], out[j]) => i = j
        /\ \A i \in DOMAIN out : \E t \in Usable : SameTracker(out[i], t)
        /\ Len(out) < question.cfg.max =>
              \A t \in Usable : \E i \in DOMAIN out : SameTracker(out[i], t)

\* The HTTP layers (http::shared): a request over a socket that is from no allowed
\* address, nor names one in its first X-Forwarded-For line, gets a bare 403; the
\* header changes nothing for a peer that is no proxy, and behind a proxy only its
\* first line counts, in which hops written before an untrusted one change nothing;
\* and no write of the API runs without the token when one is set.
Addresses(req) ==
    {i.net : i \in ToSet(req.peer)} \cup
    (IF req.xff = <<>> THEN {} ELSE {h.ip.net : h \in ToSet(req.xff[1].hops)})
OutsiderGetsNothing ==
    \/ allows_everything(question.cfg.acl) \/ question.req.peer = <<>>
    \/ Addresses(question.req) \cap question.cfg.acl.allow # {}
    \/ answer.is = Refused(403)
AnsweredAlike(xff) == shared(question.cfg, [question.req EXCEPT !.xff = xff]) = answer.is
ForgedHopsIgnored ==
    LET acl == question.cfg.acl
        xff == question.req.xff
    IN  /\ (\A p \in ToSet(question.req.peer) : ~is_proxy(acl, p)) => AnsweredAlike(<<>>)
        /\ xff # <<>> => AnsweredAlike(<<xff[1]>>)
        /\ xff # <<>> =>
              ((\E h \in ToSet(xff[1].hops) : h.form # "junk" /\ ~is_proxy(acl, h.ip)) =>
               \A i \in Ips : AnsweredAlike(<<[xff[1] EXCEPT !.hops = <<Hop(i)>> \o @]>>))
WritesNeedToken ==
    answer.is.ran \in Writes =>
        \/ question.cfg.token \in {"", question.req.bearer}
        \/ question.req.bearer = None /\ question.req.api_token = question.cfg.token
AccessHolds ==
    Answered("request") => OutsiderGetsNothing /\ ForgedHopsIgnored /\ WritesNeedToken

\* A configuration that `tornas config check` passes is one the server starts with, as
\* long as the server reads the file that was checked (TORNAS_CONFIG may name another),
\* the check could run its value checks, and the environment sets the budget and no
\* tracker setting, which the check does not read.
Budgeted == "TORNAS_DISK_BUDGET" \in DOMAIN last(question.env)
TrackerSettings ==
    {"TORNAS_TRACKER_SOURCES", "TORNAS_TRACKER_SCHEMES", "TORNAS_TRACKERS"}
CheckedStarts ==
    /\ Answered("config") /\ Budgeted
    /\ DOMAIN last(question.env) \cap TrackerSettings = {}
    /\ ConfigFile(question.given, question.files)
          = ConfigFile(Named(last(question.env)), question.files)
    /\ question.runs
    /\ check(question.given, question.files, question.env, question.runs)
    => answer.is.ok

\* The same with tracker settings in the environment, a file of its own or no value
\* checks: the check validates "the same way the server reads them".
CheckPredictsStart ==
    Answered("config") /\ Budgeted
    /\ check(question.given, question.files, question.env, question.runs) => answer.is.ok

\* A server that starts answers someone: an allow list that lets nobody in is refused
\* ("so nothing could reach the server").
StartedIsReachable ==
    Answered("config") /\ answer.is.ok =>
        Acl(answer.is.fc.network.allow_from, answer.is.fc.network.trusted_proxies).allow # {}

-----------------------------------------------------------------------------
\* The data disk of a filesystem on a block device, mounted at the data directory:
\* the process takes it for present (data_disk_ok) only when its files land on the
\* disk that is plugged in; it restarts for the host's disk (host_has_disk) only when
\* the next process starts and finds it; and a disk that the host has mounted again
\* is noticed in one of the two ways.
OnDisk(w, table) == w.there /\ Stat(table, question.path) = w.dev
DiskVerdicts ==
    Answered("disk") =>
        LET w == answer.is.world IN
        /\ answer.is.ok /\ question.major # 0 => OnDisk(w, w.ns)
        /\ answer.is.host /\ question.major # 0 => answer.is.again
        /\ question.path = Point /\ OnDisk(w, w.host) => answer.is.ok \/ answer.is.host

\* The same for a data directory below the mount point: "When it is mounted again
\* the pause lifts by itself; under systemd ... the server restarts".
ReturnIsNoticed ==
    Answered("disk") /\ OnDisk(answer.is.world, answer.is.world.host) =>
        answer.is.ok \/ answer.is.host
=============================================================================
