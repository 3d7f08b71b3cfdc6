-------------------------- MODULE MCServiceRuntime --------------------------
(***************************************************************************)
(* ServiceRuntime with a few ticks for its times.  What matters is their   *)
(* order: the listener's moment is shorter than the HTTP grace, that is    *)
(* shorter than the deadline, the deadline is shorter than systemd's stop  *)
(* timeout, and the watchdog's half interval leaves room inside it.        *)
(***************************************************************************)
EXTENDS ServiceRuntime
=============================================================================
