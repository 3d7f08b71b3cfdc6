---------------------------- MODULE TrackerRules ----------------------------
(***************************************************************************)
(* The pure part of the public tracker feed: how a line of a source        *)
(* becomes a tracker, which trackers the configuration lets through, and   *)
(* how several lists become one.                                           *)
(*                                                                         *)
(* A line is a record: its kind ("url", or "other" for a blank line, a     *)
(* comment or what does not parse to a URL with a host), its scheme, its   *)
(* host as a sequence of labels, whether letters of it are upper case,     *)
(* whether it is an IP address, its port (0 for none) and its path.        *)
(***************************************************************************)
EXTENDS Integers, Sequences, SequencesExt

TrackerLine ==
    [kind : STRING, scheme : STRING, host : Seq(STRING), upper : BOOLEAN, ip : BOOLEAN,
     port : Nat, path : STRING]
Line(scheme, host, upper, ip, port, path) ==
    [kind |-> "url", scheme |-> scheme, host |-> host, upper |-> upper, ip |-> ip,
     port |-> port, path |-> path]

DefaultPort(scheme) ==
    CASE scheme \in {"http", "ws"} -> 80
      [] scheme \in {"https", "wss"} -> 443
      [] OTHER -> 0

\* Trailing slashes go; a tracker spoken to over HTTP or WebSocket has a path.
NormalizePath(scheme, path) ==
    IF path \notin {"", "/"} THEN path ELSE IF scheme = "udp" THEN "" ELSE "/announce"

\* The canonical form of a line, or nothing.
normalize(raw) ==
    IF raw.kind # "url" THEN <<>>
    ELSE <<[raw EXCEPT
              !.upper = FALSE,
              !.port = IF @ = DefaultPort(raw.scheme) THEN 0 ELSE @,
              !.path = NormalizePath(raw.scheme, @)]>>

\* An entry of the block list is a glob (`*.` and a suffix, which is compared as it
\* is written), a URL or a host.
Matches(t, b) ==
    CASE b.kind = "glob" -> ~b.upper /\ IsSuffix(b.host, t.host)
      [] b.kind = "url"  -> normalize(b) = <<t>>
      [] OTHER           -> b.host = t.host
blocked(t, block) == \E i \in DOMAIN block : Matches(t, block[i])

\* The schemes a list may use: its source's own, or the global ones.
Allowed(cfg, l) == IF l.schemes = {} THEN cfg.schemes ELSE l.schemes

Admits(cfg, l, t) ==
    /\ t.scheme \in Allowed(cfg, l)
    /\ ~blocked(t, cfg.block)
    /\ ~(cfg.reject_ip_hosts /\ t.ip)

\* One line of a list: it joins the trackers found so far, `out`, unless it is no
\* tracker, not admitted, or among them already.
KeepTwice(cfg, l, out, raw) ==  \* mistake: what was seen is not remembered
    LET t == normalize(raw)
    IN  IF t = <<>> \/ ~Admits(cfg, l, t[1]) THEN out ELSE Append(out, t[1])
Keep(cfg, l, out, raw) ==
    LET t == normalize(raw)
    IN  IF t = <<>> \/ ~Admits(cfg, l, t[1]) \/ Contains(out, t[1]) THEN out
        ELSE Append(out, t[1])

\* One list, and all of them.
KeepList(cfg, out, l) == FoldLeft(LAMBDA o, raw : Keep(cfg, l, o, raw), out, l.list)

\* The static trackers come after every source.
Statics(cfg) == [schemes |-> {}, list |-> cfg.add]
AllKept(cfg, lists) ==
    FoldLeft(LAMBDA out, l : KeepList(cfg, out, l), <<>>, Append(lists, Statics(cfg)))

FirstN(s, n) == SubSeq(s, 1, IF Len(s) < n THEN Len(s) ELSE n)

merge(cfg, lists) == FirstN(AllKept(cfg, lists), cfg.max)

\* The lines of a source that answered: the first `take` of them, All if not set.
All == -1
Taken(src, lines) == IF src.take = All THEN lines ELSE FirstN(lines, src.take)
=============================================================================
