--------------------------- MODULE ServiceRuntime ---------------------------
(***************************************************************************)
(* The life of one tornas process under systemd: the generic runtime       *)
(* (crates/service: tasks, readiness, signals, shutdown), the systemd      *)
(* component (notifications, watchdog) and the wiring of run_server.       *)
(*                                                                         *)
(* Time is counted in whole ticks by countdown timers; a timer that is due *)
(* fires before the next tick.  What has no timer (a reload hook, a        *)
(* shutdown hook, a task that is aborted, the bind of the listener) takes  *)
(* any time, possibly for ever.  A daemon that hangs (`wedged`: a call     *)
(* into the disk that does not come back) may recover at any time.         *)
(***************************************************************************)
EXTENDS Integers, Sequences, FiniteSets

CONSTANTS
    Deadline,     \* SHUTDOWN_DEADLINE, 25 s
    HttpGrace,    \* HTTP_GRACE, 3 s
    ReadyDelay,   \* the moment given to the listener to bind, 200 ms
    Watchdog,     \* WatchdogSec=, 90 s
    StopTimeout   \* TimeoutStopSec=, 30 s

ASSUME TimesAssumption ==
    /\ {Deadline, HttpGrace, ReadyDelay, Watchdog, StopTimeout} \subseteq Nat \ {0}
    /\ Deadline < StopTimeout
    /\ 2 <= Watchdog

\* The background tasks of run_server besides HTTP: the engine's loops, the
\* watchdog, and an advertisement (SSDP and mDNS behave alike).
Tasks == {"workers", "watchdog", "advert"}

\* Shutdown hooks in the order they are registered: Systemd's, then the engine's.
OnShutdown == <<"stopping", "engine">>

TimerNames == {"ready", "hard", "hooks", "http", "tick", "probe"}
Off == -1

VARIABLES
    timer,       \* ticks left on each timer, or Off
    pending,     \* signals delivered and not yet received
    handler,     \* the signal task: "wait", "reload", "sleep"
    cancelled,   \* the CancellationToken
    main,        \* Service::run: "serving", "hooks", "shutdown"; then "dropping"
    ran,         \* shutdown hooks that have finished, in order
    http,        \* the HTTP task: "binding", "serving", "failed", "draining", "stopped"
    ready,       \* the readiness task: "sleeping", "fired", "off"
    alive,       \* background tasks still running
    wd,          \* the watchdog task: "idle", "probing"
    wedged,      \* the daemon hangs: a probe that runs now does not come back
    thread,      \* a probe is on its thread of the blocking pool
    sd,          \* what systemd was last told: "starting", "active", "stopping"
    exit,        \* "no", or how the process ended
    sincePing,   \* systemd's clock since the last ping, from READY on
    sinceTerm,   \* systemd's clock since it sent SIGTERM, or Off
    sinceCancel, \* history: ticks since the token fired, or Off
    sick,        \* history: the daemon hung at some time since the last ping
    reloaded     \* history: a reload ran while a SIGTERM was waiting

proc    == <<handler, cancelled, main, ran, http, ready, alive>>
clocks  == <<sincePing, sinceTerm, sinceCancel>>
history == <<sick, reloaded>>
watch   == <<wd, wedged, thread>>
vars    == <<timer, pending, proc, watch, sd, exit, clocks, history>>

Running == exit = "no"
Up == Running /\ main # "dropping"   \* the async runtime still runs tasks
Due(t) == timer[t] = 0

\* The period of the watchdog task.
WholeInterval == Watchdog  \* mistake: pings as rarely as systemd allows
Period == Watchdog \div 2

-----------------------------------------------------------------------------
(* Start.                                                                  *)

StartTimers ==
    [t \in TimerNames |-> CASE t = "ready" -> ReadyDelay [] t = "tick" -> 0 [] OTHER -> Off]

\* DLNA and mDNS are left out when disabled or bound to loopback.
StartTasks == {S \in SUBSET Tasks : {"workers", "watchdog"} \subseteq S}

Init ==
    /\ timer = StartTimers /\ alive \in StartTasks
    /\ pending = {} /\ handler = "wait" /\ cancelled = FALSE
    /\ main = "serving" /\ ran = <<>> /\ http = "binding" /\ ready = "sleeping"
    /\ wd = "idle" /\ wedged = FALSE /\ thread = FALSE
    /\ sd = "starting" /\ exit = "no"
    /\ sincePing = 0 /\ sinceTerm = Off /\ sinceCancel = Off
    /\ sick = FALSE /\ reloaded = FALSE

\* Restart=always, or an operator's start: a new process.
Start ==
    /\ ~Running
    /\ timer' = StartTimers /\ alive' \in StartTasks
    /\ pending' = {} /\ handler' = "wait" /\ cancelled' = FALSE
    /\ main' = "serving" /\ ran' = <<>> /\ http' = "binding" /\ ready' = "sleeping"
    /\ wd' = "idle" /\ wedged' = FALSE /\ thread' = FALSE
    /\ sd' = "starting" /\ exit' = "no"
    /\ sincePing' = 0 /\ sinceTerm' = Off /\ sinceCancel' = Off
    /\ sick' = FALSE /\ reloaded' = FALSE

Ends(how) ==
    /\ exit' = how
    /\ timer' = [t \in TimerNames |-> Off]
    /\ UNCHANGED <<pending, proc, watch, sd, clocks, history>>

-----------------------------------------------------------------------------
(* Signals: spawn_signal_handler.                                          *)

\* systemctl stop, and systemctl reload.  A signal already pending is merged.
SendTerm ==
    /\ Running /\ sinceTerm = Off
    /\ pending' = pending \cup {"TERM"}
    /\ sinceTerm' = 0
    /\ reloaded' = (reloaded \/ handler = "reload")
    /\ UNCHANGED <<timer, proc, watch, sd, exit, sincePing, sinceCancel, sick>>

SendHup ==
    /\ Running /\ pending' = pending \cup {"HUP"}
    /\ UNCHANGED <<timer, proc, watch, sd, exit, clocks, history>>

\* SIGTERM or SIGINT: fire the token, then sleep to the hard exit.
TermWithoutDeadline ==  \* mistake: no hard exit
    /\ Up /\ handler = "wait" /\ "TERM" \in pending
    /\ pending' = pending \ {"TERM"}
    /\ handler' = "sleep" /\ cancelled' = TRUE /\ sinceCancel' = 0
    /\ UNCHANGED <<timer, main, ran, http, ready, alive, watch, sd, exit, sincePing,
                   sinceTerm, history>>
ReceiveTerm ==
    /\ Up /\ handler = "wait" /\ "TERM" \in pending
    /\ pending' = pending \ {"TERM"}
    /\ handler' = "sleep" /\ cancelled' = TRUE /\ sinceCancel' = 0
    /\ timer' = [timer EXCEPT !["hard"] = Deadline]
    /\ UNCHANGED <<main, ran, http, ready, alive, watch, sd, exit, sincePing,
                   sinceTerm, history>>

\* SIGHUP: the reload hooks are awaited inside the loop that receives signals.
ReceiveHup ==
    /\ Up /\ handler = "wait" /\ "HUP" \in pending
    /\ pending' = pending \ {"HUP"}
    /\ handler' = "reload"
    /\ reloaded' = (reloaded \/ "TERM" \in pending)
    /\ UNCHANGED <<timer, cancelled, main, ran, http, ready, alive, watch, sd,
                   exit, clocks, sick>>

\* reload_trackers comes back, whatever it met.
ReloadDone ==
    /\ Up /\ handler = "reload"
    /\ handler' = "wait"
    /\ UNCHANGED <<timer, pending, cancelled, main, ran, http, ready, alive, watch,
                   sd, exit, clocks, history>>

HardExit == Up /\ Due("hard") /\ Ends("failure")

-----------------------------------------------------------------------------
(* Service::run.                                                           *)

\* After the moment given to the listener, bound or not.
ReadyFires ==
    /\ Up /\ ready = "sleeping" /\ Due("ready")
    /\ ready' = "fired" /\ sd' = "active" /\ sincePing' = 0
    /\ timer' = [timer EXCEPT !["ready"] = Off]
    /\ UNCHANGED <<pending, handler, cancelled, main, ran, http, alive, watch,
                   exit, sinceTerm, sinceCancel, history>>

ReadyCancelled ==
    /\ Up /\ ready = "sleeping" /\ cancelled
    /\ ready' = "off"
    /\ timer' = [timer EXCEPT !["ready"] = Off]
    /\ UNCHANGED <<pending, handler, cancelled, main, ran, http, alive, watch, sd,
                   exit, clocks, history>>

\* The token fires: the readiness task is aborted and the hooks get their time.
ShutdownKeepsReady ==  \* mistake: readiness is not aborted
    /\ Up /\ main = "serving" /\ cancelled
    /\ main' = "hooks"
    /\ timer' = [timer EXCEPT !["hooks"] = Deadline]
    /\ UNCHANGED <<pending, handler, cancelled, ran, http, ready, alive, watch, sd,
                   exit, clocks, history>>
ShutdownBegins ==
    /\ Up /\ main = "serving" /\ cancelled
    /\ main' = "hooks"
    /\ ready' = IF ready = "sleeping" THEN "off" ELSE ready
    /\ timer' = [timer EXCEPT !["hooks"] = Deadline, !["ready"] = Off]
    /\ UNCHANGED <<pending, handler, cancelled, ran, http, alive, watch, sd,
                   exit, clocks, history>>

\* The hook that runs next: the last registered of those left.
FirstRegistered == OnShutdown[Len(ran) + 1]  \* mistake: registration order
NextHook == OnShutdown[Len(OnShutdown) - Len(ran)]

\* A hook finishes: `stopping` tells systemd; `engine` stops the session and
\* writes the piece maps.
HookDone ==
    /\ Up /\ main = "hooks" /\ Len(ran) < Len(OnShutdown)
    /\ ran' = Append(ran, NextHook)
    /\ sd' = IF NextHook = "stopping" THEN "stopping" ELSE sd
    /\ UNCHANGED <<timer, pending, handler, cancelled, main, http, ready, alive,
                   watch, exit, clocks, history>>

\* All hooks are done, or their time is up: abort the tasks.
HooksEnd ==
    /\ Up /\ main = "hooks"
    /\ Len(ran) = Len(OnShutdown) \/ Due("hooks")
    /\ main' = "shutdown"
    /\ timer' = [timer EXCEPT !["hooks"] = Off]
    /\ UNCHANGED <<pending, handler, cancelled, ran, http, ready, alive, watch,
                   sd, exit, clocks, history>>

\* An aborted task ends at its next await, if it gets there.
TaskAborted(t) ==
    /\ Up /\ main = "shutdown" /\ t \in alive
    /\ alive' = alive \ {t}
    /\ IF t = "watchdog"
       THEN wd' = "idle" /\ timer' = [timer EXCEPT !["tick"] = Off, !["probe"] = Off]
       ELSE UNCHANGED <<wd, timer>>
    /\ UNCHANGED <<pending, handler, cancelled, main, ran, http, ready, wedged, thread,
                   sd, exit, clocks, history>>

\* An advertisement may fail at any time; mDNS withdraws when the token fires.
TaskEnds(t) ==
    /\ Up /\ t \in alive \cap {"advert"}
    /\ alive' = alive \ {t}
    /\ UNCHANGED <<timer, pending, handler, cancelled, main, ran, http, ready, watch,
                   sd, exit, clocks, history>>

\* set.shutdown() has joined every task: run returns Ok, the telemetry is flushed
\* and main drops the runtime, with it the task that sleeps to the hard exit.
ReturnEarly ==  \* mistake: the hooks are not awaited
    /\ Up /\ main = "hooks" /\ main' = "dropping"
    /\ timer' = [t \in TimerNames |-> Off]
    /\ UNCHANGED <<pending, handler, cancelled, ran, http, ready, alive, watch, sd,
                   exit, clocks, history>>
Returns ==
    /\ Up /\ main = "shutdown" /\ alive = {}
    /\ main' = "dropping"
    /\ timer' = [t \in TimerNames |-> Off]
    /\ UNCHANGED <<pending, handler, cancelled, ran, http, ready, alive, watch, sd,
                   exit, clocks, history>>

\* Dropping the runtime waits for the blocking pool.
Exits == Running /\ main = "dropping" /\ ~thread /\ Ends("success")

-----------------------------------------------------------------------------
(* serve_http.                                                             *)

\* A failure to bind or to load the certificate is logged, nothing more.
Bind ==
    /\ Up /\ http = "binding"
    /\ http' \in {"failed", IF cancelled THEN "stopped" ELSE "serving"}
    /\ UNCHANGED <<timer, pending, handler, cancelled, main, ran, ready, alive,
                   watch, sd, exit, clocks, history>>

HttpDrains ==
    /\ Up /\ http = "serving" /\ cancelled
    /\ http' = "draining"
    /\ timer' = [timer EXCEPT !["http"] = HttpGrace]
    /\ UNCHANGED <<pending, handler, cancelled, main, ran, ready, alive, watch, sd,
                   exit, clocks, history>>

\* No request left, or the grace is over, or the task is aborted.
HttpStops ==
    /\ Up /\ http = "draining"
    /\ http' = "stopped"
    /\ timer' = [timer EXCEPT !["http"] = Off]
    /\ UNCHANGED <<pending, handler, cancelled, main, ran, ready, alive, watch, sd,
                   exit, clocks, history>>

-----------------------------------------------------------------------------
(* The watchdog: systemd::watch, and systemd's side of it.                 *)

\* A tick of the interval starts a probe on the blocking pool.
ProbeStarts ==
    /\ Up /\ "watchdog" \in alive /\ wd = "idle" /\ Due("tick")
    /\ wd' = "probing" /\ thread' = TRUE
    /\ timer' = [timer EXCEPT !["tick"] = Period, !["probe"] = Period]
    /\ UNCHANGED <<pending, proc, wedged, sd, exit, clocks, history>>

ProbeEnds ==
    /\ wd' = "idle"
    /\ timer' = [timer EXCEPT !["probe"] = Off]
    /\ UNCHANGED <<pending, proc, wedged, sd, exit, sinceTerm, sinceCancel, reloaded>>

ProbePasses ==
    /\ Up /\ wd = "probing" /\ ~wedged /\ ~Due("probe")
    /\ ProbeEnds
    /\ thread' = FALSE /\ sincePing' = 0 /\ sick' = FALSE

\* The probe returns an error or panics, or runs out of time; its thread stays.
PingAnyway ==  \* mistake: ping whatever the probe says
    /\ Up /\ wd = "probing" /\ (wedged \/ Due("probe"))
    /\ ProbeEnds
    /\ thread' \in {thread, FALSE}
    /\ sincePing' = 0 /\ sick' = FALSE
ProbeFails ==
    /\ Up /\ wd = "probing" /\ (wedged \/ Due("probe"))
    /\ ProbeEnds
    /\ thread' \in IF Due("probe") THEN {thread} ELSE {FALSE}
    /\ UNCHANGED <<sincePing, sick>>

\* A thread whose probe was given up comes back after all.
ThreadReturns ==
    /\ Running /\ thread /\ wd = "idle" /\ ~wedged
    /\ thread' = FALSE
    /\ UNCHANGED <<timer, pending, proc, wd, wedged, sd, exit, clocks, history>>

Wedge ==
    /\ Running /\ wedged' = ~wedged
    /\ sick' = (sick \/ wedged')
    /\ UNCHANGED <<timer, pending, proc, wd, thread, sd, exit, clocks, reloaded>>

WatchdogKills ==
    /\ Running /\ sd = "active" /\ sinceTerm = Off /\ sincePing >= Watchdog
    /\ Ends("watchdog")

StopKills == Running /\ sinceTerm >= StopTimeout /\ Ends("killed")

\* systemd::restart_me, from the pause-watch loop: no hook runs.
RestartMe ==
    /\ Up /\ "workers" \in alive
    /\ exit' = "restart" /\ sd' = "stopping"
    /\ timer' = [t \in TimerNames |-> Off]
    /\ UNCHANGED <<pending, proc, watch, clocks, history>>

-----------------------------------------------------------------------------
(* Time.                                                                   *)

\* systemd acts when its time is up; the signal task, when it waits for signals,
\* is woken at once; a daemon that is well answers its probe in less than a period;
\* dropping a runtime with nothing on its blocking pool is immediate.
Urgent ==
    \/ \E t \in TimerNames : Due(t)
    \/ sd = "active" /\ sinceTerm = Off /\ sincePing >= Watchdog
    \/ sinceTerm >= StopTimeout
    \/ Up /\ handler = "wait" /\ "TERM" \in pending
    \/ main = "dropping" /\ ~thread
    \/ wd = "probing" /\ ~wedged /\ timer["probe"] = 1

Plus(c) == IF c = Off THEN Off ELSE c + 1

Tick ==
    /\ Running /\ ~Urgent
    /\ timer' = [t \in TimerNames |-> IF timer[t] = Off THEN Off ELSE timer[t] - 1]
    /\ sincePing' = IF sd = "active" THEN sincePing + 1 ELSE sincePing
    /\ sinceTerm' = Plus(sinceTerm)
    /\ sinceCancel' = Plus(sinceCancel)
    /\ UNCHANGED <<pending, proc, watch, sd, exit, history>>

-----------------------------------------------------------------------------
Signals == ReceiveTerm \/ ReceiveHup \/ ReloadDone \/ HardExit
RunLoop ==
    \/ ReadyFires \/ ReadyCancelled \/ ShutdownBegins \/ HookDone \/ HooksEnd
    \/ Returns \/ Exits
Serve == Bind \/ HttpDrains \/ HttpStops
Watch == ProbeStarts \/ ProbePasses \/ ProbeFails \/ ThreadReturns
Systemd == WatchdogKills \/ StopKills \/ Start

Next ==
    \/ Signals \/ RunLoop \/ Serve \/ Watch \/ Systemd \/ RestartMe
    \/ \E t \in Tasks : TaskAborted(t) \/ TaskEnds(t)
    \/ SendTerm \/ SendHup \/ Wedge \/ Tick

Spec == Init /\ [][Next]_vars

\* Time passes, due timers fire, every ready task is polled; `select!` picks among
\* ready branches at random, so a waiting SIGTERM is not passed over for ever; the
\* reload hook ends (its fetches and waits have timeouts).  Nothing is assumed of
\* the shutdown hooks or the aborted tasks.
Fairness ==
    /\ WF_vars(Tick) /\ WF_vars(HardExit) /\ WF_vars(WatchdogKills) /\ WF_vars(StopKills)
    /\ WF_vars(ReadyFires) /\ WF_vars(HooksEnd) /\ WF_vars(Exits) /\ WF_vars(HttpStops) /\ WF_vars(ProbeStarts)
    /\ WF_vars(ProbePasses) /\ WF_vars(ProbeFails)
    /\ SF_vars(ReceiveTerm) /\ WF_vars(ReloadDone)

FairSpec == Spec /\ Fairness

-----------------------------------------------------------------------------
(* Properties.                                                             *)

\* The types of the timers and clocks, of the states and of the flags.
TimesOK ==
    /\ timer \in [TimerNames -> Nat \cup {Off}]
    /\ sincePing \in Nat
    /\ sinceTerm \in Nat \cup {Off} /\ sinceCancel \in Nat \cup {Off}
StatesOK ==
    /\ pending \subseteq {"TERM", "HUP"}
    /\ handler \in {"wait", "reload", "sleep"}
    /\ main \in {"serving", "hooks", "shutdown", "dropping"}
    /\ ran \in {<<>>, <<"engine">>, <<"engine", "stopping">>}
    /\ http \in {"binding", "serving", "failed", "draining", "stopped"}
    /\ ready \in {"sleeping", "fired", "off"}
    /\ alive \subseteq Tasks
    /\ wd \in {"idle", "probing"}
    /\ sd \in {"starting", "active", "stopping"}
    /\ exit \in {"no", "success", "failure", "restart", "watchdog", "killed"}
FlagsOK ==
    /\ cancelled \in BOOLEAN /\ wedged \in BOOLEAN /\ thread \in BOOLEAN
    /\ sick \in BOOLEAN /\ reloaded \in BOOLEAN

\* Every variable has its type; the hooks that have run are the last registered ones.
TypeOK == TimesOK /\ StatesOK /\ FlagsOK

\* "A hard deadline guarantees the process exits even if shutdown hangs": as long
\* as the runtime is up, no shutdown outlasts SHUTDOWN_DEADLINE, whatever the hooks,
\* the tasks and the HTTP drain do.
StopsByDeadline == Up /\ cancelled => sinceCancel <= Deadline

\* A process that reports success before the deadline has flushed the engine first
\* and told systemd it is stopping last: hooks run in reverse registration order.
CleanExitRanHooks ==
    exit = "success" /\ sinceCancel < Deadline => ran = <<"engine", "stopping">>

\* The watchdog restarts only a daemon that hung at some time since the last ping:
\* probing at half the interval leaves a healthy daemon no gap to be killed in.
HealthyNeverKilled == exit = "watchdog" => sick

\* TimeoutStopSec is only ever hit for one of two reasons: a reload held SIGTERM up,
\* or the runtime's drop waits for a probe that hangs on the blocking pool.
KilledOnlyBehindReloadOrProbe ==
    exit = "killed" => reloaded \/ main = "dropping"

\* systemd is never told READY after STOPPING: the readiness task is aborted before
\* the hooks run.
NoReadyAfterStopping == [][sd = "stopping" => sd' # "active"]_vars

\* A daemon that hangs while systemd counts on it recovers or is restarted.
WedgedIsRestarted == (wedged /\ sd = "active") ~> (~wedged \/ ~Running)

\* "Run `hook` once the service is up (the HTTP listener is bound)": systemd is told
\* READY only of a process that serves.
ReadyMeansBound == Running /\ sd = "active" /\ ~cancelled => http = "serving"

\* "... so a supervisor's stop timeout is never hit."
StopTimeoutNeverHit == exit # "killed"
=============================================================================
