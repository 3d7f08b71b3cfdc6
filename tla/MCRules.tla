------------------------------ MODULE MCRules ------------------------------
(***************************************************************************)
(* Rules on all small inputs.                                              *)
(***************************************************************************)
EXTENDS Rules

-----------------------------------------------------------------------------
(* Eviction plans: up to three movies of sizes 1 and 2.                    *)

Keys == 1..3
Candidate(k) == [key : {k}, size : {1, 2}, last_used_at : {1, 2}, protected : BOOLEAN]
Libraries ==
    UNION {{ {f[k] : k \in K} : f \in {g \in [K -> UNION {Candidate(k) : k \in K}] :
                \A k \in K : g[k].key = k} } : K \in SUBSET Keys}
MCPlanQuestions ==
    [ask : {"plan"}, cands : Libraries, incoming : {0, 1, 2, 15}, limit : {3, 4},
     disk_free : {0, 2, 3}, min_free : {0, 1}]

-----------------------------------------------------------------------------
(* Tracker lists: lines that differ in one respect each.                   *)

T1 == Line("udp", <<"a", "org">>, FALSE, FALSE, 6969, "")
TrackerLines ==
    {T1, [T1 EXCEPT !.upper = TRUE], [T1 EXCEPT !.scheme = "http"],
     [T1 EXCEPT !.host = <<"b", "org">>], [T1 EXCEPT !.ip = TRUE], [T1 EXCEPT !.kind = "other"],
     Line("https", <<"a", "org">>, FALSE, FALSE, 443, "/"),
     Line("https", <<"a", "org">>, FALSE, FALSE, 0, "/announce")}
GlobB == [Line("", <<"org">>, FALSE, FALSE, 0, "") EXCEPT !.kind = "glob"]
Host == [Line("", <<"b", "org">>, FALSE, FALSE, 0, "") EXCEPT !.kind = "host"]
MCMergeQuestions ==
    [ask : {"merge"},
     cfg : [schemes : {{"udp", "https"}}, block : {<<>>, <<Host>>, <<GlobB>>, <<T1>>},
            reject_ip_hosts : BOOLEAN, max : {1, 2, 9}, add : {<<>>, <<T1>>}],
     lists : {<<[schemes |-> s, list |-> l]>> :
                 s \in {{}, {"http"}}, l \in SeqOf(TrackerLines, 3)}]

-----------------------------------------------------------------------------
(* Requests: every path and method against a few callers.                  *)

Ip(net, mapped) == [net |-> net, mapped |-> mapped]
MCIps == {Ip("lan", FALSE), Ip("lan", TRUE), Ip("proxy", FALSE), Ip("out", FALSE), Ip("v6", FALSE)}
Junk == [form |-> "junk", ip |-> Ip("out", FALSE)]
HopLists == {<<Junk>>} \cup {<<Hop(i)>> : i \in MCIps} \cup {<<Hop(i), Hop(j)>> : i, j \in MCIps}
Text(hops) == [ascii |-> TRUE, hops |-> hops]
Headers == {<<>>} \cup {<<Text(h)>> : h \in HopLists}
           \cup {<<[ascii |-> a, hops |-> <<Hop(i)>>], Text(<<Hop(j)>>)>> :
                    a \in BOOLEAN, i, j \in MCIps}
Acls == {Acl(<<"lan">>, <<"proxy">>), Acl(<<"lan", "blank", "proxy">>, <<>>),
         Acl(<<"any6">>, <<>>), Acl(<<"blank">>, <<"proxy">>)}
Number(n) == [tag |-> "number", n |-> n]
Patches ==
    {<<>>, [last_used_at |-> Number(-5)], [peer_limit |-> Number(MaxPeers + 1)],
     [download_limit |-> [tag |-> "null"], last_used_at |-> [tag |-> "now"]],
     [upload_limit |-> [tag |-> "size", n |-> 1], typo |-> Number(1)],
     [download_limit |-> [tag |-> "bool"]], [upload_limit |-> Number(MaxRate + 1)]}
Request(path, method, body, patch, fault) ==
    [path |-> path, method |-> method, body |-> body, patch |-> patch, fault |-> fault,
     peer |-> <<Ip("lan", FALSE)>>, xff |-> <<>>, bearer |-> None, api_token |-> None,
     asked |-> FALSE]
Paths == {r.path : r \in AllRoutes} \cup {"/nowhere"}
Methods == {"GET", "HEAD", "OPTIONS", "POST", "PUT", "PATCH", "DELETE"}
Faults == FaultKind \cup {None, "other"}
\* Every route from one caller, a few routes from every caller, every body of a write.
Requests ==
    {Request(p, m, "json", <<>>, f) : p \in Paths, m \in Methods, f \in {None, "other"}}
    \cup {[Request("/api/movies", m, "json", <<>>, None) EXCEPT
             !.peer = i, !.xff = x, !.bearer = b, !.asked = (b = None)] :
             m \in {"GET", "POST"}, i \in {<<>>} \cup {<<p>> : p \in MCIps}, x \in Headers, b \in {None, "secret"}}
    \cup {[Request(p, m, b, q, f) EXCEPT !.bearer = "secret"] :
             p \in {"/api/movies", MoviePath, "/api/pause"},
             m \in {"POST", "PATCH", "PUT"}, q \in Patches, f \in Faults,
             b \in {"json", "none", "untyped", "syntax", "data", "huge", "bad_duration"}}
    \cup {[Request("/api/pause", "DELETE", "none", <<>>, None) EXCEPT
             !.bearer = b, !.api_token = t] : b, t \in {None, "secret", "wrong"}}
MCRequestQuestions ==
    [ask : {"request"}, cfg : [acl : Acls, token : {"", "secret"}], req : Requests]

-----------------------------------------------------------------------------
(* Settings: a file at the standard place, at another or at both, the one  *)
(* or the other given to the check, and an environment of up to two lines. *)

MCDefault ==
    [trackers |-> [enabled |-> TRUE, schemes |-> <<"https", "udp">>, max |-> 20,
                   fetch_timeout |-> 20, sources |-> <<SourceOf("newtrackon")>>,
                   add |-> <<>>, block |-> <<>>],
     network |-> [allow_from |-> <<"lan">>, trusted_proxies |-> <<>>]]
Files ==
    LET file(fc) == [parses |-> TRUE, unknown |-> FALSE, fc |-> fc]
        t(fc) == file([MCDefault EXCEPT !.trackers = fc])
        d == MCDefault.trackers
    IN  {file(MCDefault),
         [file(MCDefault) EXCEPT !.parses = FALSE], [file(MCDefault) EXCEPT !.unknown = TRUE],
         file([MCDefault EXCEPT !.network.allow_from = <<>>]),
         file([MCDefault EXCEPT !.network.allow_from = <<"lan", "junk">>]),
         file([MCDefault EXCEPT !.network.allow_from = <<"blank">>]),
         t([d EXCEPT !.schemes = <<>>]), t([d EXCEPT !.schemes = <<>>, !.enabled = FALSE]),
         t([d EXCEPT !.schemes = <<"wss">>]), t([d EXCEPT !.max = 0]),
         t([d EXCEPT !.add = <<[T1 EXCEPT !.kind = "other"]>>]), t([d EXCEPT !.add = <<T1>>]),
         t([d EXCEPT !.sources = <<>>]), t([d EXCEPT !.block = <<"blank">>]),
         t([d EXCEPT !.sources = @ \o @]), t([d EXCEPT !.sources[1].take = 0]),
         t([d EXCEPT !.sources[1].schemes = <<<<>>>>]), t([d EXCEPT !.sources[1].url.scheme = "ftp"])}
Sets == [form : {"set"}, key : {"TORNAS_ALLOW_FROM", "TORNAS_TRUSTED_PROXIES"},
         value : {<<"lan">>, <<"junk">>, <<"blank">>}]
        \cup [form : {"set"}, key : {"TORNAS_DISK_BUDGET"}, value : {<<"1G">>, <<"0">>, <<"1X">>}]
        \cup [form : {"set"}, key : {"TORNAS_CONFIG"}, value : {<<"here">>, <<"gone">>, <<"blank">>}]
        \cup [form : {"set"}, key : {"TORNAS_TRACKERS_DISABLE"}, value : {<<"true">>, <<"yes">>}]
        \cup [form : {"set"}, key : {"TORNAS_TYPO", "PATH"}, value : {<<"1">>}]
        \cup [form : {"set"}, key : {"TORNAS_TRACKER_SOURCES"},
              value : {<<"newtrackon">>, <<"https://list", "ngosang">>, <<"ftp://list">>}]
        \cup [form : {"set"}, key : {"TORNAS_TRACKER_SCHEMES"}, value : {<<"udp">>, <<"gopher">>}]
        \cup [form : {"set"}, key : {"TORNAS_TRACKERS"}, value : {<<"url">>, <<"other">>}]
Budget == [form |-> "set", key |-> "TORNAS_DISK_BUDGET", value |-> <<"1G">>]
EnvLines == Sets \cup {[form |-> "blank"], [form |-> "broken"]}
Fine == [parses |-> TRUE, unknown |-> FALSE, fc |-> MCDefault]
Layouts == {<<>>} \cup {Standard :> f : f \in Files} \cup {"here" :> f : f \in Files}
           \cup {(Standard :> f) @@ ("here" :> Fine) : f \in Files}
           \cup {(Standard :> Fine) @@ ("here" :> f) : f \in Files}
MCConfigQuestions ==
    [ask : {"config"}, files : Layouts, given : {<<>>, <<"here">>}, runs : {TRUE},
     env : {<<Budget, a, b>> : a, b \in EnvLines} \cup {<<>>}]
    \cup [ask : {"config"}, files : {Standard :> Fine}, given : {<<>>}, runs : {FALSE},
          env : {<<Budget, a>> : a \in EnvLines} \cup {<<>>}]

-----------------------------------------------------------------------------
(* Disks: what up to five things that happen to one leave behind, with the *)
(* data directory at the mount point or below it.  A disk that is gone may *)
(* still list its directory from the cache.                                *)

MCDiskQuestions ==
    [ask : {"disk"}, major : {0, 8, 259}, managed : BOOLEAN,
     path : {Point, Append(Point, "data")}, cached : BOOLEAN, events : SeqOf(DiskEvents, 5)]
=============================================================================
