------------------------- MODULE PauseSwitchProofs -------------------------
(***************************************************************************)
(* Proofs about the kill switch, for any number of torrents, requests and  *)
(* announcers, any durations and any queue limit.                          *)
(***************************************************************************)
EXTENDS PauseSwitch, TLAPS

-----------------------------------------------------------------------------
(* Types.  TypeOK is not inductive: a loop may only visit torrents that    *)
(* have a row, or re-adding one would load a torrent without a row; and    *)
(* nothing runs, in memory or in librqbit, while the process is down.      *)

WorkInRows == \A p \in Procs : work[p] \subseteq rows

Stopped == [p \in Procs |-> IF p \in Torrents THEN "done" ELSE "idle"]

DownIsQuiet ==
    ~up => /\ pause = NoPause /\ lock = NoOne
           /\ running = {} /\ errored = {}
           /\ pc = Stopped

TypeInv == TypeOK /\ WorkInRows /\ DownIsQuiet

LEMMA TypeInit == Init => TypeInv
<1> SUFFICES ASSUME Init PROVE TypeInv
  OBVIOUS
<1>1. /\ now \in Times /\ disk \in {"here", "gone", "host"} /\ up \in BOOLEAN
      /\ {pause, file, wanted} \subseteq PauseState \cup {NoPause}
      /\ diskMissing \in BOOLEAN
      /\ lock \in Procs \cup {NoOne}
  BY DEF Init, Times
<1>2. /\ rows \subseteq Torrents /\ finished \subseteq rows /\ loaded \subseteq rows
      /\ running \subseteq loaded /\ checking \subseteq loaded /\ errored \subseteq running
      /\ cut \subseteq Torrents
  BY DEF Init
<1>3. pc \in [Procs -> PCs]
  BY DEF Init, PCs
<1>4. work \in [Procs -> SUBSET Torrents] /\ slot \in [Procs -> Nat]
  BY DEF Init
<1>5. flag \in [Procs -> BOOLEAN]
  BY DEF Init
<1>6. WorkInRows /\ DownIsQuiet
  BY DEF Init, WorkInRows, DownIsQuiet, Stopped
<1> QED
  BY <1>1, <1>2, <1>3, <1>4, <1>5, <1>6 DEF TypeInv, TypeOK

\* Steps of a handler happen only in a running process.
LEMMA UpWhenBusy ==
  ASSUME TypeInv, NEW p \in Procs, pc[p] \notin {"idle", "done"}
  PROVE  up
  BY DEF TypeInv, DownIsQuiet, Stopped

\* The end of a handler keeps the types of the control state.
LEMMA ReturnType ==
  ASSUME TypeOK, NEW p \in Procs, Return(p)
  PROVE  /\ lock' \in Procs \cup {NoOne}
         /\ pc' \in [Procs -> PCs]
         /\ work' \in [Procs -> SUBSET Torrents]
         /\ \A q \in Procs : work'[q] \subseteq work[q]
         /\ slot' \in [Procs -> Nat]
         /\ flag' \in [Procs -> BOOLEAN]
  BY DEF TypeOK, Return, Goto, PCs

LEMMA TorrentProcs == Torrents \subseteq Procs
  BY DEF Procs

LEMMA WatchProc == Watch \in Procs
  BY DEF Procs

\* pause_all builds a well-formed pause from every legal duration.
LEMMA NewPauseType ==
  ASSUME TypeOK, NEW d, ValidDuration(d)
  PROVE  NewPause(d) \in PauseState
  BY TimeAssumption
     DEF TypeOK, NewPause, ValidDuration, Until, is_paused, PauseState, Times

LEMMA TypeStep == TypeInv /\ [Next]_vars => TypeInv'
<1> SUFFICES ASSUME TypeInv, [Next]_vars PROVE TypeInv'
  OBVIOUS
<1> USE DEF env, switch, torrents, locals
<1>1. ASSUME NEW p \in Procs, pause_all(p) PROVE TypeInv'
  BY <1>1, UpWhenBusy, NewPauseType
     DEF pause_all, Acquire, StartApply, Goto,
         TypeInv, TypeOK, WorkInRows, DownIsQuiet, PCs
<1>2. ASSUME NEW p \in Procs, pause_all_fails(p) PROVE TypeInv'
  BY <1>2, UpWhenBusy, ReturnType
     DEF pause_all_fails,
         TypeInv, TypeOK, WorkInRows, DownIsQuiet, PCs
<1>3. ASSUME NEW p \in Procs, resume_all(p) PROVE TypeInv'
  BY <1>3, UpWhenBusy, ReturnType
     DEF resume_all, Goto,
         TypeInv, TypeOK, WorkInRows, DownIsQuiet, PCs
<1>4. ASSUME NEW p \in Procs, add_movie(p) PROVE TypeInv'
  BY <1>4, UpWhenBusy, ReturnType
     DEF add_movie, Goto,
         TypeInv, TypeOK, WorkInRows, DownIsQuiet, PCs
<1>5. ASSUME NEW p \in Procs, set_movie_limits(p) PROVE TypeInv'
  BY <1>5, UpWhenBusy, ReturnType
     DEF set_movie_limits, Goto,
         TypeInv, TypeOK, WorkInRows, DownIsQuiet, PCs
<1>6. ASSUME pause_for_disk PROVE TypeInv'
  BY <1>6, UpWhenBusy, WatchProc, ReturnType
     DEF pause_for_disk, StartApply, Goto, PauseState, Times,
         TypeInv, TypeOK, WorkInRows, DownIsQuiet, PCs
<1>7. ASSUME NEW p \in Procs, ApplyPause(p) PROVE TypeInv'
  BY <1>7, UpWhenBusy, ReturnType
     DEF ApplyPause, Controllable,
         TypeInv, TypeOK, WorkInRows, DownIsQuiet, PCs
<1>8. ASSUME NEW p \in Procs, BalanceStart(p) PROVE TypeInv'
  BY <1>8, UpWhenBusy, ReturnType
     DEF BalanceStart, Goto,
         TypeInv, TypeOK, WorkInRows, DownIsQuiet, PCs
<1>9. ASSUME NEW p \in Procs, BalanceRow(p) PROVE TypeInv'
  BY <1>9, UpWhenBusy, ReturnType
     DEF BalanceRow, Balanced, Controllable,
         TypeInv, TypeOK, WorkInRows, DownIsQuiet, PCs
<1>10. ASSUME NEW p \in Procs, add_resolved(p) PROVE TypeInv'
  BY <1>10, UpWhenBusy, ReturnType
     DEF add_resolved, Goto,
         TypeInv, TypeOK, WorkInRows, DownIsQuiet, PCs
<1>11. ASSUME NEW p \in Procs, add_session(p) PROVE TypeInv'
  BY <1>11, UpWhenBusy, TorrentProcs
     DEF add_session,
         TypeInv, TypeOK, WorkInRows, DownIsQuiet, PCs
<1>12. ASSUME NEW p \in Procs, add_session_fails(p) PROVE TypeInv'
  BY <1>12, UpWhenBusy, ReturnType
     DEF add_session_fails,
         TypeInv, TypeOK, WorkInRows, DownIsQuiet, PCs
<1>13. ASSUME NEW p \in Procs, reload_out(p) PROVE TypeInv'
  BY <1>13, UpWhenBusy
     DEF reload_out, WithoutHandle,
         TypeInv, TypeOK, WorkInRows, DownIsQuiet, PCs
<1>14. ASSUME NEW p \in Procs, reload_skip(p) PROVE TypeInv'
  BY <1>14, UpWhenBusy, ReturnType
     DEF reload_skip,
         TypeInv, TypeOK, WorkInRows, DownIsQuiet, PCs
<1>15. ASSUME NEW p \in Procs, reload_aborts(p) PROVE TypeInv'
  BY <1>15, UpWhenBusy, ReturnType
     DEF reload_aborts,
         TypeInv, TypeOK, WorkInRows, DownIsQuiet, PCs
<1>16. ASSUME NEW p \in Procs, reload_in(p) PROVE TypeInv'
  BY <1>16, UpWhenBusy
     DEF reload_in, Goto, IsOldest,
         TypeInv, TypeOK, WorkInRows, DownIsQuiet, PCs
<1>17. ASSUME NEW p \in Procs, reload_in_fails(p) PROVE TypeInv'
  BY <1>17, UpWhenBusy, ReturnType
     DEF reload_in_fails,
         TypeInv, TypeOK, WorkInRows, DownIsQuiet, PCs
<1>18. ASSUME NEW p \in Procs, reload_wait(p) PROVE TypeInv'
  BY <1>18, UpWhenBusy, TorrentProcs
     DEF reload_wait, IsOldest,
         TypeInv, TypeOK, WorkInRows, DownIsQuiet, PCs
<1>19. ASSUME NEW p \in Api, Request(p) PROVE TypeInv'
  BY <1>19
     DEF Request, Goto, Procs,
         TypeInv, TypeOK, WorkInRows, DownIsQuiet, PCs
<1>20. ASSUME NEW p \in Api, Disconnect(p) PROVE TypeInv'
  BY <1>20, ProcsAssumption, ReturnType
     DEF Disconnect, Procs, Stopped,
         TypeInv, TypeOK, WorkInRows, DownIsQuiet, PCs
<1>21. ASSUME NEW t \in Torrents, watch_completion(t) PROVE TypeInv'
  BY <1>21
     DEF watch_completion, Controllable, Goto, Procs, Stopped,
         TypeInv, TypeOK, WorkInRows, DownIsQuiet, PCs
<1>22. ASSUME NEW p \in Announcers, reannounce_active(p) PROVE TypeInv'
  BY <1>22
     DEF reannounce_active, Goto, Procs,
         TypeInv, TypeOK, WorkInRows, DownIsQuiet, PCs
<1>23. ASSUME check_pause PROVE TypeInv'
  BY <1>23, WatchProc
     DEF check_pause, Goto,
         TypeInv, TypeOK, WorkInRows, DownIsQuiet, PCs
<1>24. ASSUME enforce PROVE TypeInv'
  BY <1>24, UpWhenBusy, WatchProc
     DEF enforce, Goto, NextCheck,
         TypeInv, TypeOK, WorkInRows, DownIsQuiet, PCs
<1>25. ASSUME World PROVE TypeInv'
  BY <1>25
     DEF World, Tick, DiskLost, DiskBack, Checked, Finished, Errored, Controllable, Times,
         TypeInv, TypeOK, WorkInRows, DownIsQuiet, PCs
<1>26. ASSUME ProcessEnds PROVE TypeInv'
  <2>1. lock' \in Procs \cup {NoOne} /\ pc' \in [Procs -> PCs] /\ pc' = Stopped
    BY <1>26 DEF ProcessEnds, Stopped, PCs
  <2>2. work' \in [Procs -> SUBSET Torrents] /\ slot' \in [Procs -> Nat]
    BY <1>26 DEF ProcessEnds
  <2>3. flag' \in [Procs -> BOOLEAN]
    BY <1>26 DEF ProcessEnds
  <2>4. WorkInRows'
    BY <1>26 DEF ProcessEnds, WorkInRows
  <2> QED
    BY <1>26, <2>1, <2>2, <2>3, <2>4
       DEF ProcessEnds, TypeInv, TypeOK, DownIsQuiet
<1>27. ASSUME start PROVE TypeInv'
  BY <1>27
     DEF start, load_pause, Stopped,
         TypeInv, TypeOK, WorkInRows, DownIsQuiet, PCs
<1>28. ASSUME UNCHANGED vars PROVE TypeInv'
  BY <1>28
     DEF vars, TypeInv, TypeOK, WorkInRows, DownIsQuiet, PCs
<1>29. ASSUME NEW p \in Procs, reload_pause(p) PROVE TypeInv'
  BY <1>29, UpWhenBusy
     DEF reload_pause, Controllable, Goto,
         TypeInv, TypeOK, WorkInRows, DownIsQuiet, PCs
<1> QED
  BY <1>1, <1>2, <1>3, <1>4, <1>5, <1>6, <1>7, <1>8, <1>9, <1>10, <1>11, <1>12, <1>13, <1>14, <1>15, <1>16, <1>17, <1>18, <1>19, <1>20, <1>21, <1>22, <1>23, <1>24, <1>25, <1>26, <1>27, <1>28, <1>29
     DEF Next, LockStep, RunStep, WatchStep, Crash, restart_me

\* Spec keeps every variable in its type and the sets of torrents nested: what
\* runs is loaded and has a row, whatever reloads, restarts and disconnects.
THEOREM TypeCorrect == Spec => []TypeOK
<1>1. TypeInv => TypeOK
  BY DEF TypeInv
<1> QED
  BY <1>1, TypeInit, TypeStep, PTL DEF Spec

-----------------------------------------------------------------------------
(* The switch.  Few steps write it, and all but a restart hold add_lock.   *)

\* The steps that change the pause, its file, the clock or the process.
LEMMA SwitchWriters ==
  ASSUME [Next]_vars
  PROVE  \/ UNCHANGED <<now, up, switch>>
         \/ \E p \in Procs : pause_all(p) \/ resume_all(p)
         \/ pause_for_disk \/ Tick \/ ProcessEnds \/ start
<1> USE DEF env, switch, vars
<1>1. ASSUME NEW p \in Procs, LockStep(p)
      PROVE  \/ UNCHANGED <<now, up, switch>>
             \/ pause_all(p) \/ resume_all(p) \/ pause_for_disk
  BY <1>1 DEF LockStep, pause_all_fails, add_movie, set_movie_limits
<1>2. ASSUME NEW p \in Procs, RunStep(p) PROVE UNCHANGED <<now, up, switch>>
  BY <1>2
     DEF RunStep, ApplyPause, BalanceStart, BalanceRow, add_resolved, add_session,
         add_session_fails, reload_pause, reload_out, reload_skip, reload_aborts, reload_in,
         reload_in_fails, reload_wait
<1>3. ASSUME WatchStep PROVE UNCHANGED <<now, up, switch>> \/ ProcessEnds
  BY <1>3 DEF WatchStep, check_pause, enforce, restart_me
<1>4. ASSUME World PROVE UNCHANGED <<now, up, switch>> \/ Tick
  BY <1>4 DEF World, DiskLost, DiskBack, Checked, Finished, Errored
<1> QED
  BY <1>1, <1>2, <1>3, <1>4
     DEF Next, Request, Disconnect, watch_completion, reannounce_active, Crash

\* A pause that began in the past and, if it ends, ends after it began and at
\* most MaxPause from now.
Legal(q) ==
    q # NoPause =>
        /\ q.since <= now
        /\ q.until # Forever => q.since < q.until /\ q.until <= now + MaxPause

SwitchInv == DiskPauseInMemoryOnly /\ Legal(pause) /\ Legal(file)

\* The pause that pause_all builds from a legal one.
LEMMA NewPauseLegal ==
  ASSUME TypeOK, Legal(pause), NEW d, ValidDuration(d)
  PROVE  Legal(NewPause(d)) /\ NewPause(d).reason = "manual"
  BY TimeAssumption
     DEF TypeOK, Legal, NewPause, ValidDuration, Until, is_paused, PauseState, Times

LEMMA SwitchStep == TypeInv /\ SwitchInv /\ [Next]_vars => SwitchInv'
<1> SUFFICES ASSUME TypeInv, SwitchInv, [Next]_vars PROVE SwitchInv'
  OBVIOUS
<1> USE DEF env, switch, SwitchInv, DiskPauseInMemoryOnly
<1>1. CASE UNCHANGED <<now, up, switch>>
  BY <1>1 DEF Legal
<1>2. ASSUME NEW p \in Procs, pause_all(p) PROVE SwitchInv'
  <2>1. PICK d : ValidDuration(d) /\ pause' = NewPause(d)
    BY <1>2 DEF pause_all
  <2>2. Legal(NewPause(d)) /\ NewPause(d).reason = "manual"
    BY <2>1, NewPauseLegal DEF TypeInv
  <2>3. now' = now /\ (file' = pause' \/ file' = file)
    BY <1>2 DEF pause_all
  <2> QED
    BY <2>1, <2>2, <2>3 DEF Legal
<1>3. ASSUME NEW p \in Procs, resume_all(p) PROVE SwitchInv'
  BY <1>3 DEF resume_all, Legal
<1>4. CASE pause_for_disk
  BY <1>4, TimeAssumption DEF pause_for_disk, Legal, TypeInv, TypeOK, Times
<1>5. CASE Tick
  BY <1>5, TimeAssumption DEF Tick, Legal, TypeInv, TypeOK, Times, PauseState
<1>6. CASE ProcessEnds
  BY <1>6 DEF ProcessEnds, Legal
<1>7. CASE start
  BY <1>7 DEF start, load_pause, Legal
<1> QED
  BY <1>1, <1>2, <1>3, <1>4, <1>5, <1>6, <1>7, SwitchWriters

SwitchProof == TypeInv /\ SwitchInv

LEMMA SwitchInvariant == Spec => []SwitchProof
<1>1. Init => SwitchInv
  BY DEF Init, SwitchInv, DiskPauseInMemoryOnly, Legal
<1> QED
  BY <1>1, TypeInit, TypeStep, SwitchStep, PTL DEF Spec, SwitchProof

\* A pause the disk caused never reaches pause.json, through any number of
\* changes, restarts and disks lost in between.
THEOREM DiskPauseStaysInMemory == Spec => []DiskPauseInMemoryOnly
<1>1. SwitchProof => DiskPauseInMemoryOnly
  BY DEF SwitchProof, SwitchInv
<1> QED
  BY <1>1, SwitchInvariant, PTL

\* However a pause was reached (extended, shortened, inherited from the disk's,
\* loaded after a restart), it ends after it began and within MaxPause of now.
THEOREM PauseWindowHolds == Spec => []PauseWindow
<1>1. SwitchProof => PauseWindow
  BY DEF SwitchProof, SwitchInv, Legal, PauseWindow, is_paused
<1> QED
  BY <1>1, SwitchInvariant, PTL

\* A pause in force keeps its start under every step: pause_all copies it,
\* pause_for_disk yields to it, and a start only loads one when none is in force.
THEOREM PauseStartKept == Spec => PauseKeepsStart
<1>1. ASSUME TypeInv, [Next]_vars, is_paused, pause' # NoPause
      PROVE  pause'.since = pause.since
  <2> USE DEF env, switch, is_paused
  <2>1. CASE UNCHANGED <<now, up, switch>>
    BY <2>1
  <2>2. ASSUME NEW p \in Procs, pause_all(p) PROVE pause'.since = pause.since
    BY <2>2, <1>1 DEF pause_all, NewPause
  <2>3. ASSUME NEW p \in Procs, resume_all(p) PROVE FALSE
    BY <2>3, <1>1 DEF resume_all
  <2>4. CASE pause_for_disk
    BY <2>4, <1>1 DEF pause_for_disk
  <2>5. CASE Tick
    BY <2>5 DEF Tick
  <2>6. ASSUME ProcessEnds PROVE FALSE
    BY <2>6, <1>1 DEF ProcessEnds
  <2>7. ASSUME start PROVE FALSE
    BY <2>7, <1>1 DEF start, TypeInv, DownIsQuiet
  <2> QED
    BY <1>1, <2>1, <2>2, <2>3, <2>4, <2>5, <2>6, <2>7, SwitchWriters
<1>2. TypeInv /\ [Next]_vars => [is_paused /\ pause' # NoPause => pause'.since = pause.since]_vars
  BY <1>1
<1> QED
  BY <1>2, TypeInit, TypeStep, PTL DEF Spec, PauseKeepsStart

-----------------------------------------------------------------------------
(* The lock: nothing is paused under the feet of an add.                   *)

\* A handler that returns gives up the lock only if it holds it.
LEMMA ReturnKeepsAdds ==
  ASSUME TypeOK, NoAddWhilePaused, NEW p \in Procs, Return(p), pause' = pause
  PROVE  NoAddWhilePaused'
  BY DEF TypeOK, NoAddWhilePaused, Return, Goto, is_paused

\* Steps that touch neither the lock nor the pause, and start no add.
LEMMA OtherKeepsAdds ==
  ASSUME NoAddWhilePaused, UNCHANGED <<lock, pause>>,
         \A q \in Procs : pc'[q] = pc[q] \/ pc'[q] \notin {"adding", "add_session"}
  PROVE  NoAddWhilePaused'
  BY DEF NoAddWhilePaused, is_paused

LEMMA AddStep == TypeInv /\ NoAddWhilePaused /\ [Next]_vars => NoAddWhilePaused'
<1> SUFFICES ASSUME TypeInv, NoAddWhilePaused, [Next]_vars PROVE NoAddWhilePaused'
  OBVIOUS
<1> USE DEF switch, locals
<1>0. TypeOK /\ pc \in [Procs -> PCs] /\ NoOne \notin Procs
  BY ProcsAssumption DEF TypeInv, TypeOK, Procs
<1>1. ASSUME NEW p \in Procs, pause_all(p) PROVE NoAddWhilePaused'
  BY <1>0, <1>1 DEF pause_all, Acquire, Goto, NoAddWhilePaused
<1>2. ASSUME NEW p \in Procs, pause_all_fails(p) PROVE NoAddWhilePaused'
  BY <1>0, <1>2, ReturnKeepsAdds DEF pause_all_fails
<1>3. ASSUME NEW p \in Procs, resume_all(p) PROVE NoAddWhilePaused'
  BY <1>0, <1>3, ReturnKeepsAdds DEF resume_all, Goto, NoAddWhilePaused
<1>4. ASSUME NEW p \in Procs, add_movie(p) PROVE NoAddWhilePaused'
  BY <1>0, <1>4, ReturnKeepsAdds DEF add_movie, Goto, NoAddWhilePaused, is_paused
<1>5. ASSUME NEW p \in Procs, set_movie_limits(p) PROVE NoAddWhilePaused'
  BY <1>0, <1>5, ReturnKeepsAdds DEF set_movie_limits, Goto, NoAddWhilePaused
<1>6. ASSUME pause_for_disk PROVE NoAddWhilePaused'
  BY <1>0, <1>6, WatchProc, ReturnKeepsAdds DEF pause_for_disk, Goto, NoAddWhilePaused
<1>7. ASSUME NEW p \in Procs, ApplyPause(p) PROVE NoAddWhilePaused'
  BY <1>0, <1>7, ReturnKeepsAdds, OtherKeepsAdds DEF ApplyPause
<1>8. ASSUME NEW p \in Procs, BalanceStart(p) \/ BalanceRow(p) PROVE NoAddWhilePaused'
  BY <1>0, <1>8, ReturnKeepsAdds, OtherKeepsAdds DEF BalanceStart, BalanceRow, Goto
<1>9. ASSUME NEW p \in Procs, add_resolved(p) PROVE NoAddWhilePaused'
  BY <1>0, <1>9, ReturnKeepsAdds DEF add_resolved, Goto, NoAddWhilePaused, is_paused
<1>10. ASSUME NEW p \in Procs, add_session(p) PROVE NoAddWhilePaused'
  BY <1>0, <1>10 DEF add_session, NoAddWhilePaused
<1>11. ASSUME NEW p \in Procs, add_session_fails(p) PROVE NoAddWhilePaused'
  BY <1>0, <1>11, ReturnKeepsAdds DEF add_session_fails
<1>12. ASSUME NEW p \in Procs, reload_out(p) PROVE NoAddWhilePaused'
  BY <1>0, <1>12, OtherKeepsAdds DEF reload_out, WithoutHandle
<1>13. ASSUME NEW p \in Procs, reload_skip(p) \/ reload_aborts(p) \/ reload_in_fails(p)
       PROVE  NoAddWhilePaused'
  BY <1>0, <1>13, ReturnKeepsAdds, OtherKeepsAdds
     DEF reload_skip, reload_aborts, reload_in_fails
<1>14. ASSUME NEW p \in Procs, reload_in(p) PROVE NoAddWhilePaused'
  BY <1>0, <1>14, OtherKeepsAdds DEF reload_in, Goto
<1>15. ASSUME NEW p \in Procs, reload_wait(p) PROVE NoAddWhilePaused'
  BY <1>0, <1>15, OtherKeepsAdds DEF reload_wait
<1>16. ASSUME NEW p \in Procs, Request(p) PROVE NoAddWhilePaused'
  BY <1>0, <1>16, OtherKeepsAdds DEF Request, Goto
<1>17. ASSUME NEW p \in Procs, Disconnect(p) PROVE NoAddWhilePaused'
  BY <1>0, <1>17, ReturnKeepsAdds DEF Disconnect
<1>18. ASSUME NEW t \in Torrents, watch_completion(t) PROVE NoAddWhilePaused'
  BY <1>0, <1>18, OtherKeepsAdds DEF watch_completion, Goto
<1>19. ASSUME NEW p \in Announcers, reannounce_active(p) PROVE NoAddWhilePaused'
  BY <1>0, <1>19, OtherKeepsAdds DEF reannounce_active, Goto
<1>20. ASSUME check_pause \/ enforce PROVE NoAddWhilePaused'
  BY <1>0, <1>20, OtherKeepsAdds DEF check_pause, enforce, NextCheck, Goto
<1>21. ASSUME ProcessEnds \/ start PROVE NoAddWhilePaused'
  BY <1>21 DEF ProcessEnds, start, NoAddWhilePaused
<1>22. ASSUME World \/ UNCHANGED vars PROVE NoAddWhilePaused'
  BY <1>22, OtherKeepsAdds
     DEF World, Tick, DiskLost, DiskBack, Checked, Finished, Errored, vars
<1>23. Api \subseteq Procs
  BY DEF Procs
<1>24. ASSUME NEW p \in Procs, reload_pause(p) PROVE NoAddWhilePaused'
  BY <1>0, <1>24, OtherKeepsAdds DEF reload_pause, Goto
<1> QED
  BY <1>1, <1>2, <1>3, <1>4, <1>5, <1>6, <1>7, <1>8, <1>9, <1>10, <1>11, <1>12,
     <1>13, <1>14, <1>15, <1>16, <1>17, <1>18, <1>19, <1>20, <1>21, <1>22, <1>23, <1>24
     DEF Next, LockStep, RunStep, WatchStep, Crash, restart_me

\* However many requests race the switch, no pause begins between an add's check
\* of the pause and its torrent entering the session, and the add holds add_lock.
THEOREM AddsExcludePauses == Spec => []NoAddWhilePaused
<1>1. Init => NoAddWhilePaused
  BY DEF Init, NoAddWhilePaused
<1> QED
  BY <1>1, TypeInit, TypeStep, AddStep, PTL DEF Spec

-----------------------------------------------------------------------------
(* Finished torrents.  A reload adds its torrent back as it was, so it must *)
(* be the only one reloading that torrent: while it is out, nobody else    *)
(* takes it out or puts it in.                                             *)

\* Process p has taken torrent t out of the session and will add it back.
Holds(p, t) == pc[p] = "reload_in" /\ IsOldest(t, work[p])

ReloadInv ==
    /\ \A p \in Procs, t \in Torrents : Holds(p, t) => t \notin loaded
    /\ \A p, q \in Procs, t \in Torrents : Holds(p, t) /\ Holds(q, t) => p = q

\* Steps that load nothing and take no torrent out.
LEMMA OtherKeepsReloads ==
  ASSUME ReloadInv, loaded' \subseteq loaded,
         \A q \in Procs : pc'[q] = "reload_in" => pc[q] = "reload_in" /\ work'[q] = work[q]
  PROVE  ReloadInv'
<1>1. \A q \in Procs, t \in Torrents : Holds(q, t)' => Holds(q, t)
  BY DEF Holds, IsOldest
<1> QED
  BY <1>1 DEF ReloadInv

LEMMA ReturnKeepsReloads ==
  ASSUME TypeOK, ReloadInv, NEW p \in Procs, Return(p), loaded' = loaded
  PROVE  ReloadInv'
<1>1. \A q \in Procs : pc'[q] = "reload_in" => pc[q] = "reload_in" /\ work'[q] = work[q]
  BY DEF TypeOK, Return, Goto
<1> QED
  BY <1>1, OtherKeepsReloads

\* Two torrents cannot both be the oldest.
LEMMA OldestUnique ==
  ASSUME NEW S \in SUBSET Torrents, NEW t, NEW u, IsOldest(t, S), IsOldest(u, S)
  PROVE  t = u
  BY TorrentsAssumption DEF IsOldest

LEMMA ReloadStep == TypeInv /\ ReloadInv /\ [Next]_vars => ReloadInv'
<1> SUFFICES ASSUME TypeInv, ReloadInv, [Next]_vars PROVE ReloadInv'
  OBVIOUS
<1> USE DEF torrents, locals
<1>0. /\ TypeOK /\ pc \in [Procs -> PCs] /\ work \in [Procs -> SUBSET Torrents]
      /\ \A p \in Procs : work[p] \subseteq rows
  BY DEF TypeInv, TypeOK, WorkInRows
<1>1. ASSUME NEW p \in Procs, LockStep(p) PROVE ReloadInv'
  BY <1>0, <1>1, OtherKeepsReloads, ReturnKeepsReloads
     DEF LockStep, pause_all, pause_all_fails, resume_all, add_movie,
         set_movie_limits, pause_for_disk, StartApply, Goto
<1>2. ASSUME NEW p \in Procs, ApplyPause(p) \/ BalanceStart(p) \/ BalanceRow(p)
      PROVE  ReloadInv'
  BY <1>0, <1>2, OtherKeepsReloads, ReturnKeepsReloads
     DEF ApplyPause, BalanceStart, BalanceRow, Goto
<1>3. ASSUME NEW p \in Procs, add_resolved(p) \/ add_session_fails(p) PROVE ReloadInv'
  BY <1>0, <1>3, OtherKeepsReloads, ReturnKeepsReloads
     DEF add_resolved, add_session_fails, Goto
<1>4. ASSUME NEW p \in Procs, add_session(p) PROVE ReloadInv'
  <2>1. PICK t \in Torrents : t \notin rows /\ loaded' = loaded \cup {t}
                            /\ pc' = [pc EXCEPT ![p] = "idle", ![t] = "idle"]
    BY <1>4 DEF add_session
  <2>2. work' = work
    BY <1>4 DEF add_session
  <2>3. \A q \in Procs, u \in Torrents : Holds(q, u)' => Holds(q, u) /\ u # t
    BY <1>0, <2>1, <2>2 DEF Holds, IsOldest
  <2> QED
    BY <2>1, <2>3 DEF ReloadInv
<1>5. ASSUME NEW p \in Procs, reload_out(p) PROVE ReloadInv'
  <2>1. PICK t \in work[p] : /\ IsOldest(t, work[p]) /\ t \in loaded
                            /\ loaded' = loaded \ {t} /\ WithoutHandle(p, t)
    BY <1>5 DEF reload_out
  <2>2. pc[p] = "reload_out"
    BY <1>5 DEF reload_out
  <2>3. work'[p] = work[p]
    BY <2>1, <2>2 DEF WithoutHandle, AboutToWatch
  <2>4. \A u \in Torrents : Holds(p, u)' => u = t
    BY <1>0, <2>1, <2>3, OldestUnique DEF Holds, IsOldest
  <2>5. \A q \in Procs \ {p}, u \in Torrents : Holds(q, u)' => Holds(q, u)
    BY <2>1 DEF WithoutHandle, AboutToWatch, Holds, IsOldest
  <2> QED
    BY <2>1, <2>4, <2>5 DEF ReloadInv
<1>6. ASSUME NEW p \in Procs, reload_skip(p) \/ reload_aborts(p) \/ reload_in_fails(p)
      PROVE  ReloadInv'
  BY <1>0, <1>6, OtherKeepsReloads, ReturnKeepsReloads
     DEF reload_skip, reload_aborts, reload_in_fails
<1>7. ASSUME NEW p \in Procs, reload_in(p) PROVE ReloadInv'
  <2>1. PICK t \in work[p] : IsOldest(t, work[p]) /\ loaded' = loaded \cup {t}
    BY <1>7 DEF reload_in
  <2>2. t \in Torrents /\ Holds(p, t)
    BY <1>0, <1>7, <2>1 DEF reload_in, Holds
  <2>3. \A q \in Procs, u \in Torrents : Holds(q, u)' => Holds(q, u) /\ q # p
    BY <1>0, <1>7 DEF reload_in, Holds, IsOldest, Goto
  <2> QED
    BY <2>1, <2>2, <2>3 DEF ReloadInv
<1>8. ASSUME NEW p \in Procs, reload_wait(p) PROVE ReloadInv'
  BY <1>0, <1>8, OtherKeepsReloads DEF reload_wait
<1>9. ASSUME NEW p \in Procs, Request(p) \/ Disconnect(p) PROVE ReloadInv'
  BY <1>0, <1>9, OtherKeepsReloads, ReturnKeepsReloads DEF Request, Disconnect, Goto
<1>10. ASSUME NEW t \in Torrents, watch_completion(t) PROVE ReloadInv'
  BY <1>0, <1>10, OtherKeepsReloads DEF watch_completion, Goto
<1>11. ASSUME NEW p \in Announcers, reannounce_active(p) PROVE ReloadInv'
  BY <1>0, <1>11, OtherKeepsReloads DEF reannounce_active, Goto
<1>12. ASSUME check_pause \/ enforce PROVE ReloadInv'
  BY <1>0, <1>12, WatchProc, OtherKeepsReloads DEF check_pause, enforce, NextCheck, Goto
<1>13. ASSUME ProcessEnds \/ start PROVE ReloadInv'
  BY <1>13 DEF ProcessEnds, start, ReloadInv, Holds
<1>14. ASSUME World \/ UNCHANGED vars PROVE ReloadInv'
  BY <1>14, OtherKeepsReloads
     DEF World, Tick, DiskLost, DiskBack, Checked, Finished, Errored, vars
<1>15. Api \subseteq Procs
  BY DEF Procs
<1>16. ASSUME NEW p \in Procs, reload_pause(p) PROVE ReloadInv'
  BY <1>0, <1>16, OtherKeepsReloads DEF reload_pause, Goto
<1> QED
  BY <1>1, <1>2, <1>3, <1>4, <1>5, <1>6, <1>7, <1>8, <1>9, <1>10, <1>11, <1>12,
     <1>13, <1>14, <1>15, <1>16
     DEF Next, RunStep, WatchStep, Crash, restart_me

\* No step of a running process starts a finished torrent that is loaded and
\* paused: the queue skips it, and every other start is of a torrent that was
\* not loaded before.
LEMMA FinishedStep ==
  ASSUME TypeInv, ReloadInv, [Next]_vars, up, ~KeepSeeding,
         NEW t \in finished, t \in loaded, t \notin running
  PROVE  t \notin running'
<1> USE DEF torrents
<1>0. finished \subseteq rows /\ rows \subseteq Torrents
  BY DEF TypeInv, TypeOK
<1>1. ASSUME NEW p \in Procs, LockStep(p) PROVE t \notin running'
  BY <1>1 DEF LockStep, pause_all, pause_all_fails, resume_all, add_movie,
              set_movie_limits, pause_for_disk
<1>2. ASSUME NEW p \in Procs, BalanceRow(p) PROVE t \notin running'
  BY <1>2 DEF BalanceRow, Balanced, WantRunning
<1>3. ASSUME NEW p \in Procs, add_session(p) PROVE t \notin running'
  BY <1>0, <1>3 DEF add_session
<1>4. ASSUME NEW p \in Procs, reload_in(p) PROVE t \notin running'
  <2>1. PICK u \in work[p] : IsOldest(u, work[p]) /\ running' \subseteq running \cup {u}
    BY <1>4 DEF reload_in
  <2>2. u \in Torrents /\ Holds(p, u)
    BY <1>4, <2>1 DEF reload_in, Holds, TypeInv, TypeOK
  <2> QED
    BY <2>1, <2>2 DEF ReloadInv
<1>5. ASSUME NEW p \in Procs, RunStep(p), ~BalanceRow(p), ~add_session(p), ~reload_in(p)
      PROVE  running' \subseteq running
  BY <1>5
     DEF RunStep, ApplyPause, BalanceStart, add_resolved, add_session_fails,
         reload_pause, reload_out, reload_skip, reload_aborts, reload_in_fails,
         reload_wait
<1>6. ASSUME \/ \E p \in Api : Request(p) \/ Disconnect(p)
             \/ \E u \in Torrents : watch_completion(u)
             \/ \E p \in Announcers : reannounce_active(p)
             \/ check_pause \/ enforce \/ ProcessEnds \/ World \/ UNCHANGED vars
      PROVE  running' \subseteq running
  BY <1>6
     DEF Request, Disconnect, watch_completion, reannounce_active, check_pause,
         enforce, ProcessEnds, World, Tick, DiskLost, DiskBack, Checked, Finished,
         Errored, vars
<1>7. ASSUME start PROVE FALSE
  BY <1>7 DEF start
<1> QED
  BY <1>1, <1>2, <1>3, <1>4, <1>5, <1>6, <1>7
     DEF Next, WatchStep, Crash, restart_me

\* Without --keep-seeding, a finished torrent that is paused stays paused for as
\* long as the process runs, through resumes, reloads and balances that overlap.
THEOREM FinishedTorrentsStayPaused == Spec => FinishedStayPaused
<1>1. Init => ReloadInv
  BY DEF Init, ReloadInv, Holds
<1>2. TypeInv /\ ReloadInv /\ [Next]_vars =>
        [\A t \in finished \cap (loaded \ running) :
            up /\ ~KeepSeeding => t \notin running']_vars
  BY FinishedStep
<1> QED
  BY <1>1, <1>2, TypeInit, TypeStep, ReloadStep, PTL DEF Spec, FinishedStayPaused

-----------------------------------------------------------------------------
(* Restarts.  With the disk always there, pause.json is the pause that was  *)
(* granted last, and the pause in memory is that one unless it expired.     *)

RestartInv ==
    /\ disk = "here" /\ ~diskMissing
    /\ \A p \in Procs : pc[p] # "disk_lock"
    /\ file = wanted
    /\ up => pause = wanted \/ (wanted # NoPause /\ Expired(wanted))

LEMMA RestartStep ==
  ASSUME ~DiskMayVanish, TypeInv, RestartInv, [Next]_vars
  PROVE  RestartInv'
<1> USE DEF env, switch
<1>0. TypeOK
  BY DEF TypeInv
<1>1. disk' = "here" /\ ~diskMissing'
  <2>1. CASE World \/ start \/ ProcessEnds \/ enforce \/ UNCHANGED vars
    BY <2>1
       DEF World, Tick, DiskLost, DiskBack, Checked, Finished, Errored, start, vars,
           ProcessEnds, enforce, RestartInv
  <2>2. CASE check_pause
    <3>1. disk' = disk /\ diskMissing' = (disk # "here")
      BY <2>2 DEF check_pause
    <3> QED
      BY <3>1 DEF RestartInv
  <2>3. ASSUME NEW p \in Procs, LockStep(p) \/ RunStep(p) PROVE UNCHANGED <<disk, diskMissing>>
    BY <2>3
       DEF LockStep, pause_all, pause_all_fails, resume_all, add_movie,
           set_movie_limits, pause_for_disk,
           RunStep, ApplyPause, BalanceStart, BalanceRow, add_resolved, add_session,
           add_session_fails, reload_pause, reload_out, reload_skip, reload_aborts, reload_in,
           reload_in_fails, reload_wait
  <2>4. ASSUME \/ \E p \in Api : Request(p) \/ Disconnect(p)
               \/ \E t \in Torrents : watch_completion(t)
               \/ \E p \in Announcers : reannounce_active(p)
        PROVE  UNCHANGED <<disk, diskMissing>>
    BY <2>4 DEF Request, Disconnect, watch_completion, reannounce_active
  <2> QED
    BY <2>1, <2>2, <2>3, <2>4 DEF Next, WatchStep, Crash, restart_me, RestartInv
<1>2. \A p \in Procs : pc'[p] # "disk_lock"
  <2>0. pc \in [Procs -> PCs]
    BY <1>0 DEF TypeOK
  <2>1. ASSUME NEW p \in Procs, Return(p) PROVE \A q \in Procs : pc'[q] # "disk_lock"
    BY <2>0, <2>1 DEF Return, Goto, RestartInv
  <2>2. ASSUME NEW p \in Procs, LockStep(p) PROVE \A q \in Procs : pc'[q] # "disk_lock"
    BY <2>0, <2>1, <2>2
       DEF LockStep, pause_all, pause_all_fails, resume_all, add_movie,
           set_movie_limits, pause_for_disk, Goto, RestartInv
  <2>3. ASSUME NEW p \in Procs, RunStep(p) PROVE \A q \in Procs : pc'[q] # "disk_lock"
    BY <2>0, <2>1, <2>3
       DEF RunStep, ApplyPause, BalanceStart, BalanceRow, add_resolved, add_session,
           add_session_fails, reload_pause, reload_out, reload_skip, reload_aborts, reload_in,
           reload_in_fails, reload_wait, WithoutHandle, Goto, RestartInv
  <2>4. ASSUME check_pause \/ enforce PROVE \A q \in Procs : pc'[q] # "disk_lock"
    BY <2>0, <2>4 DEF check_pause, enforce, disk_action, NextCheck, Goto, RestartInv
  <2>5. ASSUME ProcessEnds \/ start PROVE \A q \in Procs : pc'[q] # "disk_lock"
    BY <2>5 DEF ProcessEnds, start
  <2>6. ASSUME NEW p \in Api, Request(p) \/ Disconnect(p)
        PROVE  \A q \in Procs : pc'[q] # "disk_lock"
    BY <2>0, <2>1, <2>6 DEF Request, Disconnect, Goto, RestartInv, Procs
  <2>7. ASSUME \/ \E t \in Torrents : watch_completion(t)
               \/ \E p \in Announcers : reannounce_active(p)
               \/ World \/ UNCHANGED vars
        PROVE  \A q \in Procs : pc'[q] # "disk_lock"
    BY <2>0, <2>7
       DEF watch_completion, reannounce_active, World, Tick, DiskLost, DiskBack,
           Checked, Finished, Errored, vars, Goto, RestartInv
  <2> QED
    BY <2>2, <2>3, <2>4, <2>5, <2>6, <2>7 DEF Next, WatchStep, Crash, restart_me
<1>3. /\ file' = wanted'
      /\ up' => pause' = wanted' \/ (wanted' # NoPause /\ Expired(wanted)')
  <2>1. CASE UNCHANGED <<now, up, switch>>
    BY <2>1 DEF RestartInv, Expired
  <2>2. CASE \E p \in Procs : pause_all(p) \/ resume_all(p)
    BY <2>2 DEF pause_all, resume_all, is_paused, RestartInv, Expired
  <2>3. ASSUME pause_for_disk PROVE FALSE
    BY <2>3, WatchProc DEF pause_for_disk, RestartInv
  <2>4. CASE Tick
    BY <2>4, <1>0 DEF Tick, RestartInv, Expired, TypeOK, PauseState, Times
  <2>5. CASE ProcessEnds
    BY <2>5 DEF ProcessEnds, RestartInv
  <2>6. CASE start
    BY <2>6 DEF start, load_pause, RestartInv, Expired
  <2> QED
    BY <2>1, <2>2, <2>3, <2>4, <2>5, <2>6, SwitchWriters
<1> QED
  BY <1>1, <1>2, <1>3 DEF RestartInv

\* Where the data disk is never pulled, a granted pause is in force, as granted,
\* in every process that runs before it expires or is lifted.
THEOREM GrantedPauseSurvives ==
  ASSUME ~DiskMayVanish
  PROVE  Spec => []PauseSurvivesRestart
<1>1. Init => RestartInv
  BY DEF Init, RestartInv
<1>2. TypeInv /\ RestartInv /\ [Next]_vars => RestartInv'
  BY RestartStep
<1>3. RestartInv => PauseSurvivesRestart
  BY DEF RestartInv, PauseSurvivesRestart
<1> QED
  BY <1>1, <1>2, <1>3, TypeInit, TypeStep, PTL DEF Spec
-----------------------------------------------------------------------------
(* Refinement.  Each writer of the switch is a step of the abstract one;   *)
(* that the process is up when it writes comes from DownIsQuiet.           *)

\* The legal durations are those the abstract switch grants.
LEMMA LegalEnd ==
  ASSUME TypeOK, NEW d, ValidDuration(d)
  PROVE  Until(d) \in (now + 1)..(now + MaxPause) \cup {Forever}
  BY TimeAssumption DEF TypeOK, ValidDuration, Until, Times

LEMMA GrantStep ==
  ASSUME TypeInv, NEW p \in Procs, pause_all(p)
  PROVE  Switch!Grant
<1>1. up /\ UNCHANGED <<now, up>>
  BY UpWhenBusy DEF pause_all, env
<1>2. PICK d : ValidDuration(d) /\ pause' = NewPause(d)
  BY DEF pause_all
<1>3. Until(d) \in (now + 1)..(now + MaxPause) \cup {Forever}
  BY <1>2, LegalEnd DEF TypeInv
<1>4. pause' = [since  |-> IF pause = NoPause THEN now ELSE pause.since,
                until  |-> Until(d),
                reason |-> "manual"]
  BY <1>2 DEF NewPause, is_paused
<1>5. file' \in {pause', file}
  BY DEF pause_all
<1> QED
  BY <1>1, <1>3, <1>4, <1>5 DEF Switch!Grant

\* Every step of the detailed switch is a step of the abstract one or leaves its
\* variables alone.
LEMMA SwitchRefines == TypeInv /\ [Next]_vars => [Switch!Next]_Switch!vars
<1> SUFFICES ASSUME TypeInv, [Next]_vars PROVE [Switch!Next]_Switch!vars
  OBVIOUS
<1> USE DEF env, switch, Switch!Next, Switch!vars
<1>1. CASE UNCHANGED <<now, up, switch>>
  BY <1>1
<1>2. ASSUME NEW p \in Procs, pause_all(p) PROVE Switch!Next
  BY <1>2, GrantStep
<1>3. ASSUME NEW p \in Procs, resume_all(p) PROVE [Switch!Next]_Switch!vars
  <2>1. up
    BY <1>3, UpWhenBusy DEF resume_all
  <2> QED
    BY <1>3, <2>1 DEF resume_all, is_paused, Switch!Lift
<1>4. CASE pause_for_disk
  <2>1. up
    BY <1>4, UpWhenBusy, WatchProc DEF pause_for_disk
  <2> QED
    BY <1>4, <2>1 DEF pause_for_disk, is_paused, Switch!DiskPause
<1>5. CASE Tick
  BY <1>5 DEF Tick, Switch!Tick
<1>6. CASE ProcessEnds
  <2>1. CASE up
    BY <1>6, <2>1 DEF ProcessEnds, Switch!Stop
  <2>2. CASE ~up
    BY <1>6, <2>2 DEF ProcessEnds, TypeInv, TypeOK, DownIsQuiet
  <2> QED
    BY <2>1, <2>2
<1>7. CASE start
  <2>1. load_pause = IF /\ file # NoPause
                        /\ file.until = Forever \/ file.until > now
                     THEN file ELSE NoPause
    BY TimeAssumption DEF load_pause, Expired, TypeInv, TypeOK, PauseState, Times
  <2> QED
    BY <1>7, <2>1 DEF start, Switch!Start
<1> QED
  BY <1>1, <1>2, <1>3, <1>4, <1>5, <1>6, <1>7, SwitchWriters

\* The engine's switch, with its handlers, lock, watch task, file, disk and crashes,
\* implements the abstract kill switch, for any number of requests and torrents.
THEOREM SwitchImplemented == Spec => ImplementsSwitch
<1>1. Init => Switch!Init
  BY DEF Init, Switch!Init
<1> QED
  BY <1>1, TypeInit, TypeStep, SwitchRefines, PTL
     DEF Spec, ImplementsSwitch, Switch!Spec
=============================================================================
