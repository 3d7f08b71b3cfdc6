----------------------------- MODULE KillSwitch -----------------------------
(***************************************************************************)
(* What the kill switch promises, without the tasks that race for it: one  *)
(* pause or none, granted by a caller or caused by the disk, changed in    *)
(* one step each time, and a saved copy from which a restart takes it up   *)
(* again.  PauseSwitch, where the same is done by concurrent handlers      *)
(* around a lock, implements it.                                           *)
(***************************************************************************)
EXTENDS Integers

CONSTANTS
    NoPause,   \* nothing is paused
    Forever,   \* the end of a pause without one
    MaxPause   \* the longest legal pause

VARIABLES
    clock,   \* seconds
    live,    \* the server is running
    pause,   \* the pause in force, or NoPause
    saved    \* the pause a restart would take up again, or NoPause

vars == <<clock, live, pause, saved>>

Init == clock = 0 /\ ~live /\ pause = NoPause /\ saved = NoPause

\* A caller pauses, or changes the pause in force: it ends within the legal
\* maximum or never, keeps its start, and is the caller's from now on.  It is
\* saved unless the disk is missing.
Grant ==
    /\ live
    /\ \E until \in (clock + 1)..(clock + MaxPause) \cup {Forever} :
          pause' = [since  |-> IF pause = NoPause THEN clock ELSE pause.since,
                    until  |-> until,
                    reason |-> "manual"]
    /\ saved' \in {pause', saved}
    /\ UNCHANGED <<clock, live>>

\* The disk goes missing: only when nothing is paused, without an end, not saved.
DiskPause ==
    /\ live /\ pause = NoPause
    /\ pause' = [since |-> clock, until |-> Forever, reason |-> "disk"]
    /\ UNCHANGED <<clock, live, saved>>

\* A caller resumes, the disk is back or the time is over.
Lift ==
    /\ live /\ pause # NoPause
    /\ pause' = NoPause
    /\ saved' \in {NoPause, saved}
    /\ UNCHANGED <<clock, live>>

\* The end of a process, and the start of the next: the saved pause is in force
\* again unless its time was over in the meantime.
Stop ==
    /\ live /\ ~live'
    /\ pause' = NoPause
    /\ UNCHANGED <<clock, saved>>

Start ==
    /\ ~live /\ live'
    /\ pause' = IF /\ saved # NoPause
                   /\ saved.until = Forever \/ saved.until > clock
                THEN saved ELSE NoPause
    /\ UNCHANGED <<clock, saved>>

Tick == clock' = clock + 1 /\ UNCHANGED <<live, pause, saved>>

Next == Grant \/ DiskPause \/ Lift \/ Stop \/ Start \/ Tick

Spec == Init /\ [][Next]_vars
=============================================================================
