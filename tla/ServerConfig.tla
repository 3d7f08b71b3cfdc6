---------------------------- MODULE ServerConfig ----------------------------
(***************************************************************************)
(* Where the server's settings come from: the TOML file, the environment   *)
(* file that systemd reads, how the two are combined at startup, and       *)
(* `tornas config check`, which is to tell beforehand whether the server   *)
(* would start (config/, config/check/).                                   *)
(*                                                                         *)
(* A TOML file is its parsed value and how it fails to parse, if it does;  *)
(* `files` are the ones there are, by path.  An optional path is a         *)
(* sequence of length 0 or 1.                                              *)
(* An environment file is a sequence of lines; a setting's value is a      *)
(* sequence of tokens, the ones that the commas of a list separate.        *)
(***************************************************************************)
EXTENDS HttpGate, TrackerRules

When(c, what) == IF c THEN {what} ELSE {}
Report(errors, warnings) == [errors |-> errors, warnings |-> warnings]

-----------------------------------------------------------------------------
(* The rules that the server and the check share.  An optional list is a   *)
(* sequence of length 0 or 1.                                              *)

Engine_schemes == {"https", "udp", "http"}
WebTorrent == {"ws", "wss"}

source_errors(s) ==
    When(s.name = "", "source_name_empty")
    \cup When(s.url.scheme \notin {"http", "https"}, "source_url_not_http")
    \cup When(s.schemes = <<<<>>>>, "source_schemes_empty")
DuplicateNames(sources) ==
    \E i, j \in DOMAIN sources : i < j /\ sources[i].name = sources[j].name

tracker_errors(t) ==
    When(t.enabled /\ t.schemes = <<>>, "schemes_empty")
    \cup When(t.enabled /\ ToSet(t.schemes) \ (Engine_schemes \cup WebTorrent) # {}, "unknown_scheme")
    \cup When(t.max = 0, "max_zero")
    \cup When(t.fetch_timeout = 0, "fetch_timeout_zero")
    \cup UNION {source_errors(s) : s \in ToSet(t.sources)}
    \cup When(DuplicateNames(t.sources), "source_name_twice")
    \cup When(\E a \in ToSet(t.add) : normalize(a) = <<>>, "add_not_tracker_url")
    \cup When(Contains(t.block, "blank"), "block_entry_empty")

network_errors(n) ==
    When(n.allow_from = <<>>, "allow_from_empty")
    \cup When(~Acl(n.allow_from, n.trusted_proxies).ok, "not_an_address")

tracker_warnings(t) ==
    When(t.enabled /\ ToSet(t.schemes) \cap WebTorrent # {}, "webtorrent_only")
    \cup When(t.enabled /\ (\A s \in ToSet(t.sources) : ~s.enabled) /\ t.add = <<>>, "no_source")
    \cup When(\E s \in ToSet(t.sources) : s.take = 0, "take_zero")

validate_file_config(fc) ==
    Report(tracker_errors(fc.trackers) \cup network_errors(fc.network),
           tracker_warnings(fc.trackers))

-----------------------------------------------------------------------------
(* The TOML file.                                                          *)

\* The one place that stands for the standard ones, and the file that is found there
\* when none is named.
Standard == "config.toml"
discover(files) == IF Standard \in DOMAIN files THEN <<Standard>> ELSE <<>>
ConfigFile(named, files) == IF named = <<>> THEN discover(files) ELSE named

\* What the server reads; unknown keys are ignored.  With no file there are the
\* defaults, but a file that is named must be there.
load(named, files, default) ==
    LET path == ConfigFile(named, files) IN
    IF path = <<>> THEN [ok |-> TRUE, fc |-> default]
    ELSE IF path[1] \in DOMAIN files THEN [ok |-> files[path[1]].parses, fc |-> files[path[1]].fc]
    ELSE [ok |-> FALSE, fc |-> default]

check_toml_text(file) ==
    IF ~file.parses THEN Report({"not_toml"}, {})
    ELSE LET r == validate_file_config(file.fc)
         IN  Report(r.errors \cup When(file.unknown, "unknown_setting"), r.warnings)

-----------------------------------------------------------------------------
(* The environment file.                                                   *)

Lists == {"TORNAS_ALLOW_FROM", "TORNAS_TRUSTED_PROXIES", "TORNAS_TRACKER_SOURCES",
          "TORNAS_TRACKER_SCHEMES", "TORNAS_TRACKERS"}
known_env == Lists \cup {"TORNAS_DISK_BUDGET", "TORNAS_CONFIG", "TORNAS_TRACKERS_DISABLE"}

\* Lines are blank, `KEY=VALUE`, or broken: `export`, no `=`, not a name.  The
\* settings, by line.
parse_env_file(lines) == {i \in DOMAIN lines : lines[i].form = "set"}
env_line_errors(lines) ==
    When(\E i \in DOMAIN lines : lines[i].form = "broken", "not_key_value")

\* The settings that count: the known ones, a later line over an earlier one.
last(lines) ==
    LET set  == parse_env_file(lines)
        keys == {lines[i].key : i \in set} \cap known_env
        at(k) == {i \in set : lines[i].key = k}
    IN  [k \in keys |-> lines[CHOOSE i \in at(k) : \A j \in at(k) : j <= i].value]
Named(vars) == IF "TORNAS_CONFIG" \in DOMAIN vars THEN vars["TORNAS_CONFIG"] ELSE <<>>
Get(vars, key) == IF key \in DOMAIN vars /\ vars[key] # <<"blank">> THEN vars[key] ELSE <<>>

\* clap's own parsing: the budget is a size, a switch is true or false, a path is not
\* empty, and the lists are not looked into.
ClapErrors(vars) ==
    When("TORNAS_DISK_BUDGET" \in DOMAIN vars
         /\ vars["TORNAS_DISK_BUDGET"] \notin {<<"1G">>, <<"0">>}, "not_a_size")
    \cup When("TORNAS_TRACKERS_DISABLE" \in DOMAIN vars
              /\ vars["TORNAS_TRACKERS_DISABLE"] \notin {<<"true">>, <<"false">>}, "not_a_switch")
    \cup When(Named(vars) = <<"blank">>, "no_path")

\* Mistake: the address lists are left to clap.
EnvCheckByClap(lines, paths, runs) ==
    Report(env_line_errors(lines) \cup ClapErrors(last(lines)), {})
\* The values are tried out in a child process (`runs`: it could be started); without
\* one they are not checked, and that is only a warning.
check_env_text(lines, paths, runs) ==
    LET vars == last(lines)
        set  == parse_env_file(lines)
    IN  Report(
          env_line_errors(lines)
          \cup When(\E i \in set : lines[i].key = "TORNAS_TYPO", "unknown_setting")
          \cup (IF runs THEN ClapErrors(vars) ELSE {})
          \cup When(~parse(Get(vars, "TORNAS_ALLOW_FROM")).ok, "allow_from")
          \cup When(~parse(Get(vars, "TORNAS_TRUSTED_PROXIES")).ok, "trusted_proxies")
          \cup When(Get(vars, "TORNAS_CONFIG") # <<>>
                    /\ Head(Get(vars, "TORNAS_CONFIG")) \notin paths, "no_such_file"),
          When(~runs, "value_checks_skipped")
          \cup When(Get(vars, "TORNAS_DISK_BUDGET") = <<>>, "no_budget")
          \cup When(Get(vars, "TORNAS_DISK_BUDGET") = <<"0">>, "budget_zero")
          \cup When(\E i, j \in set : i < j /\ lines[i].key = lines[j].key
                       /\ lines[i].key \in known_env, "set_again"))

\* The command, on the file it is given or finds and on the environment file: it fails
\* if one has an error or cannot be read; when none is found there is none to check.
check(given, files, lines, runs) ==
    /\ \A p \in ToSet(ConfigFile(given, files)) :
          p \in DOMAIN files /\ check_toml_text(files[p]).errors = {}
    /\ check_env_text(lines, DOMAIN files, runs).errors = {}

-----------------------------------------------------------------------------
(* Startup: the file, and the environment over it.                         *)

\* A known source name stands for its URL, anything else is taken for a URL.
known_sources == {"ngosang", "newtrackon"}
SourceOf(src) ==
    [name |-> src,
     url  |-> [scheme |-> IF src \in known_sources \cup {"https://list"} THEN "https" ELSE "bad",
               at |-> src],
     enabled |-> TRUE, schemes |-> <<>>, take |-> All]
WithSources(sources, named) ==
    FoldLeft(LAMBDA out, src :
               IF \E s \in ToSet(out) : s.url = SourceOf(src).url THEN out
               ELSE Append(out, SourceOf(src)),
             sources, named)

Override(vars, key, current) == IF key \in DOMAIN vars THEN vars[key] ELSE current

resolve_file_config(fc, vars) ==
    [network |->
       [allow_from      |-> Override(vars, "TORNAS_ALLOW_FROM", fc.network.allow_from),
        trusted_proxies |-> Override(vars, "TORNAS_TRUSTED_PROXIES", fc.network.trusted_proxies)],
     trackers |-> [fc.trackers EXCEPT
        !.enabled = @ /\ Override(vars, "TORNAS_TRACKERS_DISABLE", <<"false">>) # <<"true">>,
        !.schemes = Override(vars, "TORNAS_TRACKER_SCHEMES", @),
        !.sources = WithSources(@, Override(vars, "TORNAS_TRACKER_SOURCES", <<>>)),
        !.add     = @ \o [i \in DOMAIN Override(vars, "TORNAS_TRACKERS", <<>>) |->
                            [kind |-> vars["TORNAS_TRACKERS"][i], scheme |-> "udp",
                             host |-> <<>>, upper |-> FALSE, ip |-> FALSE, port |-> 0,
                             path |-> ""]]]]

\* Whether the server starts, as far as its settings go.
start(files, default, lines) ==
    LET vars == last(lines)
        read == load(Named(vars), files, default)
        fc   == resolve_file_config(read.fc, vars)
    IN  [ok |-> /\ ClapErrors(vars) = {}
                /\ "TORNAS_DISK_BUDGET" \in DOMAIN vars
                /\ read.ok
                /\ validate_file_config(fc).errors = {},
         fc |-> fc]
=============================================================================
