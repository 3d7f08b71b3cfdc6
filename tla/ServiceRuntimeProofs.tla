------------------------ MODULE ServiceRuntimeProofs ------------------------
(***************************************************************************)
(* Proofs about the life of a process under systemd, for every deadline,   *)
(* grace, watchdog interval and stop timeout.                              *)
(***************************************************************************)
EXTENDS ServiceRuntime, SequenceTheorems, TLAPS

AllHooks == <<"engine", "stopping">>

\* Half of the watchdog's interval, twice, is within it.
LEMMA HalfInterval == Period \in Nat \ {0} /\ 2 * Period <= Watchdog
  BY TimesAssumption DEF Period

\* A tick of a timer makes up for a tick of the clock it bounds.
LEMMA TickBalance ==
  ASSUME NEW clock \in Nat, NEW left \in Nat \ {0}, NEW limit \in Nat,
         clock + left <= limit, NEW next \in {clock, clock + 1}
  PROVE  next + (left - 1) <= limit
  OBVIOUS

-----------------------------------------------------------------------------
(* Types.                                                                  *)

LEMMA TimesStep == TimesOK /\ [Next]_vars => TimesOK'
<1> SUFFICES ASSUME TimesOK, [Next]_vars PROVE TimesOK'
  OBVIOUS
<1> USE TimesAssumption DEF proc, clocks, history, watch, TimesOK, Off
<1>0. Period \in Nat
  BY HalfInterval
<1>1. CASE ReceiveHup \/ ReloadDone \/ SendTerm \/ SendHup
  BY <1>1 DEF ReceiveHup, ReloadDone, SendTerm, SendHup
<1>2. CASE Bind \/ HttpDrains \/ HttpStops
  BY <1>2 DEF Bind, HttpDrains, HttpStops
<1>3. CASE HardExit \/ Exits \/ WatchdogKills \/ StopKills \/ RestartMe
  BY <1>3 DEF HardExit, Ends, Exits, WatchdogKills, StopKills, RestartMe
<1>4. CASE ReadyFires \/ ReadyCancelled
  BY <1>4 DEF ReadyFires, ReadyCancelled
<1>5. CASE ProbeStarts \/ ThreadReturns
  BY <1>0, <1>5 DEF ProbeStarts, ThreadReturns
<1>6. CASE ShutdownBegins \/ HooksEnd
  BY <1>6 DEF ShutdownBegins, HooksEnd
<1>7. CASE ReceiveTerm
  BY <1>7 DEF ReceiveTerm
<1>8. CASE HookDone
  BY <1>8 DEF HookDone
<1>9. CASE Returns
  BY <1>9 DEF Returns
<1>10. CASE ProbePasses
  BY <1>10 DEF ProbePasses, ProbeEnds
<1>11. CASE ProbeFails
  BY <1>11 DEF ProbeFails, ProbeEnds
<1>12. CASE Start
  BY <1>12 DEF Start, StartTimers, StartTasks
<1>13. CASE Wedge
  BY <1>13 DEF Wedge
<1>14. CASE Tick
  BY <1>14 DEF Tick, Plus, Urgent
<1>15. ASSUME NEW t \in Tasks, TaskAborted(t) PROVE TimesOK'
  BY <1>15 DEF TaskAborted
<1>16. ASSUME NEW t \in Tasks, TaskEnds(t) PROVE TimesOK'
  BY <1>16 DEF TaskEnds
<1>17. CASE UNCHANGED vars
  BY <1>17 DEF vars
<1> QED
  BY <1>1, <1>2, <1>3, <1>4, <1>5, <1>6, <1>7, <1>8, <1>9, <1>10, <1>11, <1>12, <1>13,
       <1>14, <1>15, <1>16, <1>17
     DEF Next, Signals, RunLoop, Serve, Watch, Systemd

LEMMA TwoHooks == Append(<<"engine">>, "stopping") = <<"engine", "stopping">>
<1> DEFINE one == <<"engine">>
           two == <<"engine", "stopping">>
<1>1. /\ one \in Seq({"engine", "stopping"}) /\ two \in Seq({"engine", "stopping"})
      /\ Len(one) = 1 /\ Len(two) = 2
      /\ one[1] = "engine" /\ two[1] = "engine" /\ two[2] = "stopping"
  OBVIOUS
<1>2. /\ Append(one, "stopping") \in Seq({"engine", "stopping"})
      /\ Len(Append(one, "stopping")) = 2
      /\ Append(one, "stopping")[1] = "engine" /\ Append(one, "stopping")[2] = "stopping"
  BY <1>1, AppendProperties
<1> HIDE DEF one, two
<1>3. Append(one, "stopping") = two
  BY <1>1, <1>2, SeqEqual
<1> QED
  BY <1>3 DEF one, two

\* The engine's hook runs first, systemd's last.
LEMMA HookOrder ==
  ASSUME StatesOK, HookDone
  PROVE  \/ ran = <<>> /\ ran' = <<"engine">>
         \/ ran = <<"engine">> /\ ran' = <<"engine", "stopping">>
<1>1. Len(OnShutdown) = 2 /\ OnShutdown[1] = "stopping" /\ OnShutdown[2] = "engine"
  BY DEF OnShutdown
<1>2. CASE ran = <<>>
  <2>1. NextHook = "engine"
    BY <1>1, <1>2 DEF NextHook
  <2> QED
    BY <1>2, <2>1 DEF HookDone
<1>3. CASE ran = <<"engine">>
  <2>1. NextHook = "stopping"
    BY <1>1, <1>3 DEF NextHook
  <2>2. ran' = Append(<<"engine">>, "stopping")
    BY <1>3, <2>1 DEF HookDone
  <2>3. Append(<<"engine">>, "stopping") = <<"engine", "stopping">>
    BY TwoHooks
  <2> QED
    BY <1>3, <2>2, <2>3
<1>4. CASE ran = <<"engine", "stopping">>
  BY <1>1, <1>4 DEF HookDone
<1> QED
  BY <1>2, <1>3, <1>4 DEF StatesOK

LEMMA StatesStep == StatesOK /\ [Next]_vars => StatesOK'
<1> SUFFICES ASSUME StatesOK, [Next]_vars PROVE StatesOK'
  OBVIOUS
<1> USE TimesAssumption DEF proc, clocks, history, watch, StatesOK
<1>1. CASE ReceiveHup
  BY <1>1 DEF ReceiveHup
<1>2. CASE Bind
  BY <1>2 DEF Bind
<1>3. CASE HttpDrains \/ HttpStops
  BY <1>3 DEF HttpDrains, HttpStops
<1>4. CASE ReceiveTerm
  BY <1>4 DEF ReceiveTerm
<1>5. CASE ReloadDone
  BY <1>5 DEF ReloadDone
<1>6. CASE HardExit
  BY <1>6 DEF HardExit, Ends
<1>7. CASE ReadyFires
  BY <1>7 DEF ReadyFires
<1>8. CASE ReadyCancelled
  BY <1>8 DEF ReadyCancelled
<1>9. CASE ShutdownBegins
  BY <1>9 DEF ShutdownBegins
<1>10. CASE HookDone
  BY <1>10, HookOrder DEF HookDone
<1>11. CASE HooksEnd
  BY <1>11 DEF HooksEnd
<1>12. CASE Returns
  BY <1>12 DEF Returns
<1>13. CASE Exits
  BY <1>13 DEF Exits, Ends
<1>14. CASE ProbeStarts
  BY <1>14 DEF ProbeStarts
<1>15. CASE ProbePasses
  BY <1>15 DEF ProbePasses, ProbeEnds
<1>16. CASE ProbeFails
  BY <1>16 DEF ProbeFails, ProbeEnds
<1>17. CASE ThreadReturns
  BY <1>17 DEF ThreadReturns
<1>18. CASE WatchdogKills
  BY <1>18 DEF WatchdogKills, Ends
<1>19. CASE StopKills
  BY <1>19 DEF StopKills, Ends
<1>20. CASE Start
  BY <1>20 DEF Start, StartTimers, StartTasks
<1>21. CASE RestartMe
  BY <1>21 DEF RestartMe
<1>22. CASE SendTerm
  BY <1>22 DEF SendTerm
<1>23. CASE SendHup
  BY <1>23 DEF SendHup
<1>24. CASE Wedge
  BY <1>24 DEF Wedge
<1>25. CASE Tick
  BY <1>25 DEF Tick, Plus, Urgent
<1>26. ASSUME NEW t \in Tasks, TaskAborted(t) PROVE StatesOK'
  BY <1>26 DEF TaskAborted
<1>27. ASSUME NEW t \in Tasks, TaskEnds(t) PROVE StatesOK'
  BY <1>27 DEF TaskEnds
<1>28. CASE UNCHANGED vars
  BY <1>28 DEF vars
<1> QED
  BY <1>1, <1>2, <1>3, <1>4, <1>5, <1>6, <1>7, <1>8, <1>9, <1>10, <1>11, <1>12, <1>13,
       <1>14, <1>15, <1>16, <1>17, <1>18, <1>19, <1>20, <1>21, <1>22, <1>23, <1>24,
       <1>25, <1>26, <1>27, <1>28
     DEF Next, Signals, RunLoop, Serve, Watch, Systemd

LEMMA FlagsStep == FlagsOK /\ [Next]_vars => FlagsOK'
<1> SUFFICES ASSUME FlagsOK, [Next]_vars PROVE FlagsOK'
  OBVIOUS
<1> USE TimesAssumption DEF proc, clocks, history, watch, FlagsOK
<1>1. CASE ReloadDone \/ HardExit \/ ReadyFires \/ ReadyCancelled \/ ShutdownBegins
           \/ HookDone \/ HooksEnd \/ Returns \/ Exits \/ Bind \/ HttpDrains
           \/ HttpStops \/ WatchdogKills \/ StopKills \/ RestartMe \/ SendHup \/ Tick
  BY <1>1 DEF ReloadDone, HardExit, Ends, ReadyFires, ReadyCancelled, ShutdownBegins,
       HookDone, HooksEnd, Returns, Exits, Bind, HttpDrains, HttpStops, WatchdogKills,
       StopKills, RestartMe, SendHup, Tick, Plus, Urgent
<1>2. CASE ReceiveTerm
  BY <1>2 DEF ReceiveTerm
<1>3. CASE ReceiveHup
  BY <1>3 DEF ReceiveHup
<1>4. CASE ProbeStarts
  BY <1>4 DEF ProbeStarts
<1>5. CASE ProbePasses
  BY <1>5 DEF ProbePasses, ProbeEnds
<1>6. CASE ProbeFails
  BY <1>6 DEF ProbeFails, ProbeEnds
<1>7. CASE ThreadReturns
  BY <1>7 DEF ThreadReturns
<1>8. CASE Start
  BY <1>8 DEF Start, StartTimers, StartTasks
<1>9. CASE SendTerm
  BY <1>9 DEF SendTerm
<1>10. CASE Wedge
  BY <1>10 DEF Wedge
<1>11. ASSUME NEW t \in Tasks, TaskAborted(t) PROVE FlagsOK'
  BY <1>11 DEF TaskAborted
<1>12. ASSUME NEW t \in Tasks, TaskEnds(t) PROVE FlagsOK'
  BY <1>12 DEF TaskEnds
<1>13. CASE UNCHANGED vars
  BY <1>13 DEF vars
<1> QED
  BY <1>1, <1>2, <1>3, <1>4, <1>5, <1>6, <1>7, <1>8, <1>9, <1>10, <1>11, <1>12, <1>13
     DEF Next, Signals, RunLoop, Serve, Watch, Systemd

LEMMA TypeInit == Init => TypeOK
<1> SUFFICES ASSUME Init PROVE TypeOK
  OBVIOUS
<1>1. TimesOK
  BY TimesAssumption DEF Init, StartTimers, TimesOK, Off
<1>2. StatesOK
  BY DEF Init, StartTasks, StatesOK
<1>3. FlagsOK
  BY DEF Init, FlagsOK
<1> QED
  BY <1>1, <1>2, <1>3 DEF TypeOK

LEMMA TypeStep == TypeOK /\ [Next]_vars => TypeOK'
  BY TimesStep, StatesStep, FlagsStep DEF TypeOK

\* Every variable of the process keeps its type: in particular the hooks that have run
\* are a prefix of the reverse registration order.
THEOREM ServiceTypeCorrect == Spec => []TypeOK
  BY TypeInit, TypeStep, PTL DEF Spec

-----------------------------------------------------------------------------
(* Shutdown.  The token fires once, on the one SIGTERM systemd sends, and   *)
(* the hard exit then counts down in step with the time since.             *)

ShutdownInv ==
    Running =>
        /\ cancelled <=> handler = "sleep"
        /\ cancelled <=> sinceCancel # Off
        /\ cancelled => sinceTerm # Off
        /\ "TERM" \in pending => sinceTerm # Off /\ ~cancelled
        /\ main # "serving" => cancelled
        /\ Up /\ cancelled => sinceCancel <= Deadline /\ timer["hard"] = Deadline - sinceCancel

LEMMA ShutdownStep == TypeOK /\ ShutdownInv /\ [Next]_vars => ShutdownInv'
<1> SUFFICES ASSUME TypeOK, ShutdownInv, [Next]_vars PROVE ShutdownInv'
  OBVIOUS
<1> USE TimesAssumption DEF proc, clocks, history, watch, Running, Up, Off, ShutdownInv,
        TypeOK, TimesOK, StatesOK, FlagsOK, TimerNames, Due
<1>1. CASE Bind \/ HttpDrains \/ HttpStops
  BY <1>1 DEF Bind, HttpDrains, HttpStops
<1>2. CASE HardExit \/ Exits \/ WatchdogKills \/ StopKills \/ RestartMe
  BY <1>2 DEF HardExit, Ends, Exits, WatchdogKills, StopKills, RestartMe
<1>3. CASE ReceiveTerm
  BY <1>3 DEF ReceiveTerm
<1>4. CASE ReceiveHup
  BY <1>4 DEF ReceiveHup
<1>5. CASE ReloadDone
  BY <1>5 DEF ReloadDone
<1>6. CASE ReadyFires
  BY <1>6 DEF ReadyFires
<1>7. CASE ReadyCancelled
  BY <1>7 DEF ReadyCancelled
<1>8. CASE ShutdownBegins
  BY <1>8 DEF ShutdownBegins
<1>9. CASE HookDone
  BY <1>9 DEF HookDone
<1>10. CASE HooksEnd
  BY <1>10 DEF HooksEnd
<1>11. CASE Returns
  BY <1>11 DEF Returns
<1>12. CASE ProbeStarts
  BY <1>12 DEF ProbeStarts
<1>13. CASE ProbePasses
  BY <1>13 DEF ProbePasses, ProbeEnds
<1>14. CASE ProbeFails
  BY <1>14 DEF ProbeFails, ProbeEnds
<1>15. CASE ThreadReturns
  BY <1>15 DEF ThreadReturns
<1>16. CASE Start
  BY <1>16 DEF Start, StartTimers, StartTasks
<1>17. CASE SendTerm
  BY <1>17 DEF SendTerm
<1>18. CASE SendHup
  BY <1>18 DEF SendHup
<1>19. CASE Wedge
  BY <1>19 DEF Wedge
<1>20. CASE Tick
  <2>1. /\ Running /\ UNCHANGED <<pending, handler, cancelled, main, exit>>
        /\ sinceCancel' = Plus(sinceCancel) /\ sinceTerm' = Plus(sinceTerm)
        /\ timer'["hard"] = IF timer["hard"] = Off THEN Off ELSE timer["hard"] - 1
        /\ timer["hard"] # 0
    BY <1>20 DEF Tick, Urgent
  <2>2. (sinceTerm # Off => sinceTerm' # Off) /\ (sinceCancel # Off <=> sinceCancel' # Off)
    BY <2>1 DEF Plus
  <2>3. ASSUME Up, cancelled
        PROVE  sinceCancel' <= Deadline /\ timer'["hard"] = Deadline - sinceCancel'
    BY <2>1, <2>3 DEF Plus
  <2> QED
    BY <2>1, <2>2, <2>3
<1>21. ASSUME NEW t \in Tasks, TaskAborted(t) PROVE ShutdownInv'
  BY <1>21 DEF TaskAborted
<1>22. ASSUME NEW t \in Tasks, TaskEnds(t) PROVE ShutdownInv'
  BY <1>22 DEF TaskEnds
<1>23. CASE UNCHANGED vars
  BY <1>23 DEF vars
<1> QED
  BY <1>1, <1>2, <1>3, <1>4, <1>5, <1>6, <1>7, <1>8, <1>9, <1>10, <1>11, <1>12, <1>13,
       <1>14, <1>15, <1>16, <1>17, <1>18, <1>19, <1>20, <1>21, <1>22, <1>23
     DEF Next, Signals, RunLoop, Serve, Watch, Systemd

\* A SIGTERM that no reload delayed is received in the instant it is sent.
TermInv ==
    Running /\ sinceTerm # Off /\ ~reloaded /\ main # "dropping" =>
        \/ "TERM" \in pending /\ sinceTerm = 0 /\ handler = "wait"
        \/ cancelled /\ sinceCancel = sinceTerm

LEMMA TermStep == TypeOK /\ ShutdownInv /\ TermInv /\ [Next]_vars => TermInv'
<1> SUFFICES ASSUME TypeOK, ShutdownInv, TermInv, [Next]_vars PROVE TermInv'
  OBVIOUS
<1> USE TimesAssumption DEF proc, clocks, history, watch, Running, Up, Off, TermInv,
        ShutdownInv, TypeOK, TimesOK, StatesOK, FlagsOK, TimerNames, Due
<1>1. CASE Bind \/ HttpDrains \/ HttpStops
  BY <1>1 DEF Bind, HttpDrains, HttpStops
<1>2. CASE HardExit \/ Exits \/ WatchdogKills \/ StopKills \/ RestartMe
  BY <1>2 DEF HardExit, Ends, Exits, WatchdogKills, StopKills, RestartMe
<1>3. CASE ReceiveTerm
  BY <1>3 DEF ReceiveTerm
<1>4. CASE ReceiveHup
  BY <1>4 DEF ReceiveHup
<1>5. CASE ReloadDone
  BY <1>5 DEF ReloadDone
<1>6. CASE ReadyFires
  BY <1>6 DEF ReadyFires
<1>7. CASE ReadyCancelled
  BY <1>7 DEF ReadyCancelled
<1>8. CASE ShutdownBegins
  BY <1>8 DEF ShutdownBegins
<1>9. CASE HookDone
  BY <1>9 DEF HookDone
<1>10. CASE HooksEnd
  BY <1>10 DEF HooksEnd
<1>11. CASE Returns
  BY <1>11 DEF Returns
<1>12. CASE ProbeStarts
  BY <1>12 DEF ProbeStarts
<1>13. CASE ProbePasses
  BY <1>13 DEF ProbePasses, ProbeEnds
<1>14. CASE ProbeFails
  BY <1>14 DEF ProbeFails, ProbeEnds
<1>15. CASE ThreadReturns
  BY <1>15 DEF ThreadReturns
<1>16. CASE Start
  BY <1>16 DEF Start, StartTimers, StartTasks
<1>17. CASE SendTerm
  BY <1>17 DEF SendTerm
<1>18. CASE SendHup
  BY <1>18 DEF SendHup
<1>19. CASE Wedge
  BY <1>19 DEF Wedge
<1>20. CASE Tick
  BY <1>20 DEF Tick, Plus, Urgent
<1>21. ASSUME NEW t \in Tasks, TaskAborted(t) PROVE TermInv'
  BY <1>21 DEF TaskAborted
<1>22. ASSUME NEW t \in Tasks, TaskEnds(t) PROVE TermInv'
  BY <1>22 DEF TaskEnds
<1>23. CASE UNCHANGED vars
  BY <1>23 DEF vars
<1> QED
  BY <1>1, <1>2, <1>3, <1>4, <1>5, <1>6, <1>7, <1>8, <1>9, <1>10, <1>11, <1>12, <1>13,
       <1>14, <1>15, <1>16, <1>17, <1>18, <1>19, <1>20, <1>21, <1>22, <1>23
     DEF Next, Signals, RunLoop, Serve, Watch, Systemd

\* When as many hooks have run as are registered, all have.
LEMMA AllRun ==
  ASSUME StatesOK, Len(ran) = Len(OnShutdown)
  PROVE  ran = AllHooks
<1>1. Len(OnShutdown) = 2
  BY DEF OnShutdown
<1>2. ran # <<>>
  BY <1>1
<1>3. ran # <<"engine">>
  BY <1>1
<1> QED
  BY <1>2, <1>3 DEF StatesOK, AllHooks

\* The hooks have run before the tasks are aborted, unless their time was up.
HooksInv ==
    Running =>
        /\ main = "hooks" => timer["hooks"] # Off /\ timer["hooks"] + sinceCancel >= Deadline
        /\ main \in {"shutdown", "dropping"} => sinceCancel >= Deadline \/ ran = AllHooks

LEMMA HooksStep == TypeOK /\ ShutdownInv /\ HooksInv /\ [Next]_vars => HooksInv'
<1> SUFFICES ASSUME TypeOK, ShutdownInv, HooksInv, [Next]_vars PROVE HooksInv'
  OBVIOUS
<1> USE TimesAssumption DEF proc, clocks, history, watch, Running, Up, Off, HooksInv,
        ShutdownInv, TypeOK, TimesOK, StatesOK, FlagsOK, TimerNames, Due
<1>1. CASE Bind \/ HttpDrains \/ HttpStops
  BY <1>1 DEF Bind, HttpDrains, HttpStops
<1>2. CASE HardExit \/ Exits \/ WatchdogKills \/ StopKills \/ RestartMe
  BY <1>2 DEF HardExit, Ends, Exits, WatchdogKills, StopKills, RestartMe
<1>3. CASE ReceiveTerm
  BY <1>3 DEF ReceiveTerm
<1>4. CASE ReceiveHup
  BY <1>4 DEF ReceiveHup
<1>5. CASE ReloadDone
  BY <1>5 DEF ReloadDone
<1>6. CASE ReadyFires
  BY <1>6 DEF ReadyFires
<1>7. CASE ReadyCancelled
  BY <1>7 DEF ReadyCancelled
<1>8. CASE ShutdownBegins
  BY <1>8 DEF ShutdownBegins
<1>9. CASE HookDone
  BY <1>9 DEF HookDone
<1>10. CASE HooksEnd
  <2>1. Len(ran) = Len(OnShutdown) => ran = AllHooks
    BY AllRun
  <2>2. main = "hooks" /\ main' = "shutdown" /\ Running /\ UNCHANGED <<sinceCancel, ran,
        exit>>
    BY <1>10 DEF HooksEnd
  <2>3. timer["hooks"] = 0 => sinceCancel >= Deadline
    BY <2>2
  <2> QED
    BY <1>10, <2>1, <2>2, <2>3 DEF HooksEnd
<1>11. CASE Returns
  BY <1>11 DEF Returns
<1>12. CASE ProbeStarts
  BY <1>12 DEF ProbeStarts
<1>13. CASE ProbePasses
  BY <1>13 DEF ProbePasses, ProbeEnds
<1>14. CASE ProbeFails
  BY <1>14 DEF ProbeFails, ProbeEnds
<1>15. CASE ThreadReturns
  BY <1>15 DEF ThreadReturns
<1>16. CASE Start
  BY <1>16 DEF Start, StartTimers, StartTasks
<1>17. CASE SendTerm
  BY <1>17 DEF SendTerm
<1>18. CASE SendHup
  BY <1>18 DEF SendHup
<1>19. CASE Wedge
  BY <1>19 DEF Wedge
<1>20. CASE Tick
  BY <1>20 DEF Tick, Plus, Urgent
<1>21. ASSUME NEW t \in Tasks, TaskAborted(t) PROVE HooksInv'
  BY <1>21 DEF TaskAborted
<1>22. ASSUME NEW t \in Tasks, TaskEnds(t) PROVE HooksInv'
  BY <1>22 DEF TaskEnds
<1>23. CASE UNCHANGED vars
  BY <1>23 DEF vars
<1> QED
  BY <1>1, <1>2, <1>3, <1>4, <1>5, <1>6, <1>7, <1>8, <1>9, <1>10, <1>11, <1>12, <1>13,
       <1>14, <1>15, <1>16, <1>17, <1>18, <1>19, <1>20, <1>21, <1>22, <1>23
     DEF Next, Signals, RunLoop, Serve, Watch, Systemd

\* The readiness task is gone by the time a hook runs.
ReadyInv ==
    Running =>
        /\ main # "serving" => ready # "sleeping"
        /\ sd = "stopping" => main # "serving"

LEMMA ReadyStep == TypeOK /\ ShutdownInv /\ ReadyInv /\ [Next]_vars => ReadyInv'
<1> SUFFICES ASSUME TypeOK, ShutdownInv, ReadyInv, [Next]_vars PROVE ReadyInv'
  OBVIOUS
<1> USE TimesAssumption DEF proc, clocks, history, watch, Running, Up, Off, ReadyInv,
        ShutdownInv
<1>1. CASE Bind \/ HttpDrains \/ HttpStops
  BY <1>1 DEF Bind, HttpDrains, HttpStops
<1>2. CASE HardExit \/ Exits \/ WatchdogKills \/ StopKills \/ RestartMe
  BY <1>2 DEF HardExit, Ends, Exits, WatchdogKills, StopKills, RestartMe
<1>3. CASE ReceiveTerm
  BY <1>3 DEF ReceiveTerm
<1>4. CASE ReceiveHup
  BY <1>4 DEF ReceiveHup
<1>5. CASE ReloadDone
  BY <1>5 DEF ReloadDone
<1>6. CASE ReadyFires
  BY <1>6 DEF ReadyFires
<1>7. CASE ReadyCancelled
  BY <1>7 DEF ReadyCancelled
<1>8. CASE ShutdownBegins
  BY <1>8 DEF ShutdownBegins
<1>9. CASE HookDone
  BY <1>9 DEF HookDone
<1>10. CASE HooksEnd
  BY <1>10 DEF HooksEnd
<1>11. CASE Returns
  BY <1>11 DEF Returns
<1>12. CASE ProbeStarts
  BY <1>12 DEF ProbeStarts
<1>13. CASE ProbePasses
  BY <1>13 DEF ProbePasses, ProbeEnds
<1>14. CASE ProbeFails
  BY <1>14 DEF ProbeFails, ProbeEnds
<1>15. CASE ThreadReturns
  BY <1>15 DEF ThreadReturns
<1>16. CASE Start
  BY <1>16 DEF Start, StartTimers, StartTasks
<1>17. CASE SendTerm
  BY <1>17 DEF SendTerm
<1>18. CASE SendHup
  BY <1>18 DEF SendHup
<1>19. CASE Wedge
  BY <1>19 DEF Wedge
<1>20. CASE Tick
  BY <1>20 DEF Tick, Plus, Urgent
<1>21. ASSUME NEW t \in Tasks, TaskAborted(t) PROVE ReadyInv'
  BY <1>21 DEF TaskAborted
<1>22. ASSUME NEW t \in Tasks, TaskEnds(t) PROVE ReadyInv'
  BY <1>22 DEF TaskEnds
<1>23. CASE UNCHANGED vars
  BY <1>23 DEF vars
<1> QED
  BY <1>1, <1>2, <1>3, <1>4, <1>5, <1>6, <1>7, <1>8, <1>9, <1>10, <1>11, <1>12, <1>13,
       <1>14, <1>15, <1>16, <1>17, <1>18, <1>19, <1>20, <1>21, <1>22, <1>23
     DEF Next, Signals, RunLoop, Serve, Watch, Systemd

\* While systemd counts, a daemon that has been well since its last ping has a probe
\* under way or to come before its time is over.
HealthInv ==
    Running /\ ~cancelled =>
        /\ "watchdog" \in alive
        /\ timer["tick"] \in 0..Period
        /\ wd = "probing" => timer["probe"] = timer["tick"]
        /\ wedged => sick
        /\ ~sick /\ wd = "idle" => sincePing + timer["tick"] <= Period
        /\ ~sick /\ wd = "probing" => /\ timer["probe"] > 0
                                      /\ sincePing + timer["probe"] <= 2 * Period

LEMMA HealthStep == TypeOK /\ ShutdownInv /\ HealthInv /\ [Next]_vars => HealthInv'
<1> SUFFICES ASSUME TypeOK, ShutdownInv, HealthInv, [Next]_vars PROVE HealthInv'
  OBVIOUS
<1> USE TimesAssumption DEF proc, clocks, history, watch, Running, Up, Off, HealthInv,
        ShutdownInv, TypeOK, TimesOK, StatesOK, FlagsOK, TimerNames, Due
<1>0. Period \in Nat \ {0}
  BY HalfInterval
<1>1. CASE Bind \/ HttpDrains \/ HttpStops
  BY <1>1 DEF Bind, HttpDrains, HttpStops
<1>2. CASE HardExit \/ Exits \/ WatchdogKills \/ StopKills \/ RestartMe
  BY <1>2 DEF HardExit, Ends, Exits, WatchdogKills, StopKills, RestartMe
<1>3. CASE ReceiveTerm
  BY <1>3 DEF ReceiveTerm
<1>4. CASE ReceiveHup
  BY <1>4 DEF ReceiveHup
<1>5. CASE ReloadDone
  BY <1>5 DEF ReloadDone
<1>6. CASE ReadyFires
  BY <1>0, <1>6 DEF ReadyFires
<1>7. CASE ReadyCancelled
  BY <1>7 DEF ReadyCancelled
<1>8. CASE ShutdownBegins
  BY <1>8 DEF ShutdownBegins
<1>9. CASE HookDone
  BY <1>9 DEF HookDone
<1>10. CASE HooksEnd
  BY <1>10 DEF HooksEnd
<1>11. CASE Returns
  BY <1>11 DEF Returns
<1>12. CASE ProbeStarts
  BY <1>0, <1>12 DEF ProbeStarts
<1>13. CASE ProbePasses
  BY <1>13 DEF ProbePasses, ProbeEnds
<1>14. CASE ProbeFails
  BY <1>14 DEF ProbeFails, ProbeEnds
<1>15. CASE ThreadReturns
  BY <1>15 DEF ThreadReturns
<1>16. CASE Start
  <2>1. /\ timer'["tick"] = 0 /\ wd' = "idle" /\ ~wedged' /\ sincePing' = 0
    BY <1>16 DEF Start, StartTimers
  <2>2. "watchdog" \in alive'
    BY <1>16 DEF Start, StartTasks
  <2> QED
    BY <1>0, <2>1, <2>2
<1>17. CASE SendTerm
  BY <1>17 DEF SendTerm
<1>18. CASE SendHup
  BY <1>18 DEF SendHup
<1>19. CASE Wedge
  BY <1>19 DEF Wedge
<1>20. CASE Tick
  <2> SUFFICES ASSUME Running, ~cancelled PROVE HealthInv'
    BY <1>20 DEF Tick
  <2>1. /\ UNCHANGED <<cancelled, alive, wd, wedged, sick, exit>>
        /\ sincePing' \in {sincePing, sincePing + 1}
        /\ timer["tick"] # 0 /\ timer["probe"] # 0
        /\ timer'["tick"] = IF timer["tick"] = Off THEN Off ELSE timer["tick"] - 1
        /\ timer'["probe"] = IF timer["probe"] = Off THEN Off ELSE timer["probe"] - 1
        /\ wd = "probing" /\ ~wedged => timer["probe"] # 1
    BY <1>20 DEF Tick, Urgent
  <2>2. timer["tick"] \in 1..Period /\ timer'["tick"] = timer["tick"] - 1
    BY <1>0, <2>1
  <2>3. sincePing \in Nat /\ timer["tick"] \in Nat \ {0} /\ Period \in Nat
    BY <1>0, <2>2
  <2>4. wd = "probing" => timer'["probe"] = timer'["tick"]
    BY <2>1, <2>2
  <2>5. ASSUME ~sick, wd = "idle" PROVE sincePing' + timer'["tick"] <= Period
    <3>1. sincePing + timer["tick"] <= Period
      BY <2>5
    <3> HIDE DEF TypeOK, HealthInv, ShutdownInv
    <3>2. sincePing' + (timer["tick"] - 1) <= Period
      BY <2>1, <2>3, <3>1, TickBalance
    <3> QED
      BY <2>2, <3>2
  <2>6. ASSUME ~sick, wd = "probing"
        PROVE  timer'["probe"] > 0 /\ sincePing' + timer'["probe"] <= 2 * Period
    <3>1. /\ sincePing + timer["probe"] <= 2 * Period
          /\ timer["probe"] = timer["tick"] /\ timer["probe"] # 1
      BY <2>1, <2>6
    <3> HIDE DEF TypeOK, HealthInv, ShutdownInv
    <3>2. sincePing' + (timer["probe"] - 1) <= 2 * Period
      BY <2>1, <2>3, <3>1, TickBalance
    <3>3. timer'["probe"] = timer["probe"] - 1 /\ timer["probe"] - 1 > 0
      BY <2>2, <2>3, <2>4, <2>6, <3>1
    <3> QED
      BY <3>2, <3>3
  <2>7. "watchdog" \in alive /\ (wedged => sick) /\ timer'["tick"] \in 0..Period
    BY <1>0, <2>2
  <2> HIDE DEF TypeOK, ShutdownInv
  <2> QED
    BY <2>1, <2>4, <2>5, <2>6, <2>7
<1>21. ASSUME NEW t \in Tasks, TaskAborted(t) PROVE HealthInv'
  BY <1>21 DEF TaskAborted
<1>22. ASSUME NEW t \in Tasks, TaskEnds(t) PROVE HealthInv'
  BY <1>22 DEF TaskEnds
<1>23. CASE UNCHANGED vars
  BY <1>23 DEF vars
<1> QED
  BY <1>1, <1>2, <1>3, <1>4, <1>5, <1>6, <1>7, <1>8, <1>9, <1>10, <1>11, <1>12, <1>13,
       <1>14, <1>15, <1>16, <1>17, <1>18, <1>19, <1>20, <1>21, <1>22, <1>23
     DEF Next, Signals, RunLoop, Serve, Watch, Systemd

-----------------------------------------------------------------------------
(* The results.                                                            *)

SafetyInv == TypeOK /\ ShutdownInv /\ TermInv /\ HooksInv /\ ReadyInv /\ HealthInv

LEMMA SafetyInit == Init => SafetyInv
<1> SUFFICES ASSUME Init PROVE SafetyInv
  OBVIOUS
<1>1. TypeOK
  BY TypeInit
<1>2. timer["tick"] = 0 /\ "watchdog" \in alive
  BY DEF Init, StartTimers, StartTasks, TimerNames
<1>3. HealthInv
  BY <1>2, HalfInterval DEF Init, HealthInv
<1>4. ShutdownInv /\ TermInv /\ HooksInv /\ ReadyInv
  BY DEF Init, ShutdownInv, TermInv, HooksInv, ReadyInv, Up, Running, Off
<1> QED
  BY <1>1, <1>3, <1>4 DEF SafetyInv

LEMMA SafetyInvariant == Spec => []SafetyInv
<1>1. SafetyInv /\ [Next]_vars => SafetyInv'
  BY TypeStep, ShutdownStep, TermStep, HooksStep, ReadyStep, HealthStep DEF SafetyInv
<1> QED
  BY <1>1, SafetyInit, PTL DEF Spec

\* A process runs on, has ended already, or ends in one of five ways.
LEMMA HowItEnds ==
  ASSUME [Next]_vars
  PROVE  \/ exit' = "no" \/ UNCHANGED vars
         \/ HardExit \/ Exits \/ WatchdogKills \/ StopKills \/ RestartMe
<1> USE DEF Running, Up
<1>1. CASE Signals \/ RunLoop
  BY <1>1 DEF Signals, ReceiveTerm, ReceiveHup, ReloadDone, RunLoop, ReadyFires,
              ReadyCancelled, ShutdownBegins, HookDone, HooksEnd, Returns
<1>2. CASE Serve \/ Watch \/ Systemd
  BY <1>2 DEF Serve, Bind, HttpDrains, HttpStops, Watch, ProbeStarts, ProbePasses,
              ProbeFails, ProbeEnds, ThreadReturns, Systemd, Start
<1>3. ASSUME NEW t \in Tasks, TaskAborted(t) \/ TaskEnds(t) PROVE exit' = "no"
  BY <1>3 DEF TaskAborted, TaskEnds
<1>4. CASE SendTerm \/ SendHup \/ Wedge \/ Tick
  BY <1>4 DEF SendTerm, SendHup, Wedge, Tick
<1> QED
  BY <1>1, <1>2, <1>3, <1>4 DEF Next

\* No shutdown outlasts SHUTDOWN_DEADLINE while the runtime is up: the sleep to the
\* hard exit and the time since the token fired count in step.
THEOREM ShutdownIsBounded == Spec => []StopsByDeadline
<1>1. SafetyInv => StopsByDeadline
  BY DEF SafetyInv, ShutdownInv, StopsByDeadline, Up
<1> QED
  BY <1>1, SafetyInvariant, PTL

\* A successful exit before the deadline has run every hook, the engine's first:
\* run() reaches the end of the tasks only through the hooks or their timeout.
THEOREM CleanExitsRanHooks == Spec => []CleanExitRanHooks
<1>1. Init => CleanExitRanHooks
  BY DEF Init, CleanExitRanHooks
<1>2. SafetyInv /\ CleanExitRanHooks /\ [Next]_vars => CleanExitRanHooks'
  <2> SUFFICES ASSUME SafetyInv, CleanExitRanHooks, [Next]_vars PROVE CleanExitRanHooks'
    OBVIOUS
  <2> USE DEF CleanExitRanHooks, proc, clocks
  <2>1. CASE Exits
    <3>1. Running /\ main = "dropping" /\ cancelled
      BY <2>1 DEF Exits, SafetyInv, ShutdownInv
    <3>2. sinceCancel \in Nat
      BY <3>1 DEF SafetyInv, ShutdownInv, TypeOK, TimesOK
    <3>3. sinceCancel >= Deadline \/ ran = AllHooks
      BY <3>1 DEF SafetyInv, HooksInv
    <3> QED
      BY <2>1, <3>2, <3>3, TimesAssumption DEF Exits, Ends, AllHooks
  <2>2. CASE HardExit \/ WatchdogKills \/ StopKills \/ RestartMe
    BY <2>2 DEF HardExit, WatchdogKills, StopKills, RestartMe, Ends
  <2>3. CASE exit' = "no" \/ UNCHANGED vars
    BY <2>3 DEF vars
  <2> QED
    BY <2>1, <2>2, <2>3, HowItEnds
<1> QED
  BY <1>1, <1>2, SafetyInvariant, PTL DEF Spec

\* systemd's stop timeout kills a process only behind a reload, or one whose runtime
\* waits for a hung probe: any other SIGTERM is received at once, and the deadline
\* is the shorter time.
THEOREM OthersStopInTime == Spec => []KilledOnlyBehindReloadOrProbe
<1>1. Init => KilledOnlyBehindReloadOrProbe
  BY DEF Init, KilledOnlyBehindReloadOrProbe
<1>2. SafetyInv /\ KilledOnlyBehindReloadOrProbe /\ [Next]_vars
        => KilledOnlyBehindReloadOrProbe'
  <2> SUFFICES ASSUME SafetyInv, KilledOnlyBehindReloadOrProbe, [Next]_vars
               PROVE  KilledOnlyBehindReloadOrProbe'
    OBVIOUS
  <2> USE DEF KilledOnlyBehindReloadOrProbe, proc, history
  <2>1. CASE StopKills
    <3>1. /\ Running /\ sinceTerm >= StopTimeout
          /\ UNCHANGED <<reloaded, main>>
      BY <2>1 DEF StopKills, Ends
    <3>2. sinceTerm \in Nat \cup {Off} /\ StopTimeout \in Nat \ {0} /\ Deadline < StopTimeout
      BY TimesAssumption DEF SafetyInv, TypeOK, TimesOK
    <3>3. sinceTerm # Off /\ sinceTerm # 0 /\ Deadline \in Nat /\ ~(sinceTerm <= Deadline)
      BY <3>1, <3>2, TimesAssumption DEF Off
    <3>4. ASSUME ~reloaded, main # "dropping" PROVE FALSE
      <4>1. cancelled /\ sinceCancel = sinceTerm
        BY <3>1, <3>3, <3>4 DEF SafetyInv, TermInv
      <4>2. sinceCancel <= Deadline
        BY <3>1, <3>4, <4>1 DEF SafetyInv, ShutdownInv, Up
      <4> QED
        BY <3>3, <4>1, <4>2
    <3> QED
      BY <3>1, <3>4
  <2>2. CASE HardExit \/ WatchdogKills \/ Exits \/ RestartMe
    BY <2>2 DEF HardExit, WatchdogKills, Exits, RestartMe, Ends
  <2>3. CASE exit' = "no" \/ UNCHANGED vars
    BY <2>3 DEF vars
  <2> QED
    BY <2>1, <2>2, <2>3, HowItEnds
<1> QED
  BY <1>1, <1>2, SafetyInvariant, PTL DEF Spec

\* The watchdog kills only a daemon that hung since its last ping, for every interval:
\* the probe that starts half an interval after a ping ends before the interval does.
THEOREM WatchdogSparesTheHealthy == Spec => []HealthyNeverKilled
<1>1. Init => HealthyNeverKilled
  BY DEF Init, HealthyNeverKilled
<1>2. SafetyInv /\ HealthyNeverKilled /\ [Next]_vars => HealthyNeverKilled'
  <2> SUFFICES ASSUME SafetyInv, HealthyNeverKilled, [Next]_vars PROVE HealthyNeverKilled'
    OBVIOUS
  <2> USE DEF HealthyNeverKilled, history
  <2>1. CASE WatchdogKills
    <3>1. Running /\ sinceTerm = Off /\ sincePing >= Watchdog /\ sick' = sick
      BY <2>1 DEF WatchdogKills, Ends
    <3>2. ~cancelled
      BY <3>1 DEF SafetyInv, ShutdownInv
    <3>3. sincePing \in Nat /\ Watchdog \in Nat /\ wd \in {"idle", "probing"}
      BY TimesAssumption DEF SafetyInv, TypeOK, TimesOK, StatesOK
    <3>4. /\ timer["tick"] \in 0..Period
          /\ wd = "probing" => timer["probe"] = timer["tick"]
          /\ ~sick /\ wd = "idle" => sincePing + timer["tick"] <= Period
          /\ ~sick /\ wd = "probing" => /\ timer["probe"] > 0
                                        /\ sincePing + timer["probe"] <= 2 * Period
      BY <3>1, <3>2 DEF SafetyInv, HealthInv
    <3>5. ASSUME ~sick PROVE FALSE
      <4>1. CASE wd = "idle"
        BY <3>1, <3>3, <3>4, <3>5, <4>1, HalfInterval
      <4>2. CASE wd = "probing"
        BY <3>1, <3>3, <3>4, <3>5, <4>2, HalfInterval
      <4> QED
        BY <3>3, <4>1, <4>2
    <3> QED
      BY <3>1, <3>5
  <2>2. CASE HardExit \/ StopKills \/ Exits \/ RestartMe
    BY <2>2 DEF HardExit, StopKills, Exits, RestartMe, Ends
  <2>3. CASE exit' = "no" \/ UNCHANGED vars
    BY <2>3 DEF vars
  <2> QED
    BY <2>1, <2>2, <2>3, HowItEnds
<1> QED
  BY <1>1, <1>2, SafetyInvariant, PTL DEF Spec

\* systemd never hears READY after STOPPING: only the readiness task says READY, and it
\* has been aborted when the first hook runs.
THEOREM ReadyComesFirst == Spec => NoReadyAfterStopping
<1>1. SafetyInv /\ [Next]_vars => [sd = "stopping" => sd' # "active"]_vars
  <2> SUFFICES ASSUME SafetyInv, Next, sd = "stopping" PROVE sd' # "active"
    OBVIOUS
  <2>1. ASSUME ReadyFires PROVE FALSE
    BY <2>1 DEF ReadyFires, Up, SafetyInv, ReadyInv
  <2>2. CASE ~ReadyFires
    BY <2>2 DEF Next, Signals, ReceiveTerm, ReceiveHup, ReloadDone, HardExit, RunLoop,
                ReadyCancelled, ShutdownBegins, HookDone, HooksEnd, Returns, Exits, Ends,
                Serve, Bind, HttpDrains, HttpStops, Watch, ProbeStarts, ProbePasses,
                ProbeFails, ProbeEnds, ThreadReturns, Systemd, WatchdogKills, StopKills,
                Start, RestartMe, TaskAborted, TaskEnds, SendTerm, SendHup, Wedge, Tick
  <2> QED
    BY <2>1, <2>2
<1> QED
  BY <1>1, SafetyInvariant, PTL DEF Spec, NoReadyAfterStopping
=============================================================================
