-------------------------- MODULE StallWatchProofs --------------------------
(***************************************************************************)
(* Proofs about stall detection, for any downloads, timeout and grace.     *)
(***************************************************************************)
EXTENDS StallWatch, TLAPS

Entries == [p : 0..(Size - 1), age : 0..Timeout]

LEMMA EntryType == NoEntry \notin Entries
  BY StallAssumption DEF NoEntry, Entries

\* An age goes up by one and stops at its limit.
LEMMA UpToType ==
  ASSUME NEW limit \in Nat, NEW n \in 0..limit
  PROVE  UpTo(limit, n) \in 0..limit
  BY DEF UpTo

LEMMA UpToGrows ==
  ASSUME NEW limit \in Nat, NEW m \in 0..limit, NEW n \in 0..limit, m <= n
  PROVE  UpTo(limit, m) <= UpTo(limit, n)
  BY DEF UpTo

-----------------------------------------------------------------------------
(* Types.                                                                  *)

\* What a sweep notes is an entry of the present progress, the entry that was on
\* record, or none.
LEMMA NotedType ==
  ASSUME TypeOK, NEW h \in Hashes
  PROVE  Noted(h) \in Entries \cup {NoEntry}
<1>1. seen[h] \in Entries \cup {NoEntry}
  BY DEF TypeOK, Entries
<1>2. CASE status[h] = "live"
  <2>1. prog[h] \in 0..(Size - 1) /\ 0 \in 0..Timeout
    BY <1>2, StallAssumption DEF TypeOK
  <2>2. Entry(h) \in Entries
    BY <1>1, <2>1 DEF Entry, Entries
  <2> QED
    BY <1>2, <2>1, <2>2 DEF Noted, Recorded, Entries
<1> QED
  BY <1>1, <1>2 DEF Noted

\* What is gone is not loaded, whatever data it left.
LEMMA GoneType ==
  ASSUME TypeOK, NEW h \in Hashes, Gone(h)
  PROVE  /\ status' \in [Hashes -> {"absent", "unloaded", "live", "paused", "done"}]
         /\ prog' \in [Hashes -> 0..Size]
         /\ \A g \in Hashes : /\ status'[g] \in {"live", "paused"} => prog'[g] < Size
                              /\ status'[g] = "done" => prog'[g] = Size
         /\ used' \in [Hashes -> 0..Grace] /\ idle' \in [Hashes -> 0..Timeout]
  BY StallAssumption DEF TypeOK, Gone

LEMMA TypeStep == TypeOK /\ [Next]_vars => TypeOK'
<1> SUFFICES ASSUME TypeOK, [Next]_vars PROVE TypeOK'
  OBVIOUS
<1>1. CASE Collect
  <2>1. /\ swept' = TRUE /\ UNCHANGED <<status, prog, used, missing, idle>>
        /\ queue' \subseteq Hashes
    BY <1>1 DEF Collect, TypeOK
  <2>2. seen' \in [Hashes -> Entries \cup {NoEntry}]
    BY <1>1, NotedType DEF Collect, TypeOK, Entries
  <2>3. rewound' \in [Hashes -> BOOLEAN]
    BY <1>1 DEF Collect, TypeOK
  <2> QED
    BY <2>1, <2>2, <2>3 DEF TypeOK, Entries
<1>2. CASE SweepSkipped
  BY <1>2 DEF SweepSkipped, TypeOK
<1>3. ASSUME NEW h \in Hashes, Evict(h) PROVE TypeOK'
  BY <1>3, GoneType DEF Evict, TypeOK
<1>4. CASE EvictFails
  BY <1>4 DEF EvictFails, TypeOK
<1>5. ASSUME NEW h \in Hashes, Add(h) PROVE TypeOK'
  BY <1>5, StallAssumption DEF Add, Checked, TypeOK
<1>6. ASSUME NEW h \in Hashes, Drop(h) PROVE TypeOK'
  BY <1>6, GoneType DEF Drop, TypeOK
<1>7. ASSUME NEW h \in Hashes, Download(h) PROVE TypeOK'
  BY <1>7, StallAssumption DEF Download, TypeOK
<1>8. ASSUME NEW h \in Hashes, Recheck(h) PROVE TypeOK'
  BY <1>8, StallAssumption DEF Recheck, TypeOK
<1>9. ASSUME NEW h \in Hashes, PauseOrUnpause(h) PROVE TypeOK'
  BY <1>9 DEF PauseOrUnpause, TypeOK
<1>10. ASSUME NEW h \in Hashes, Stream(h) PROVE TypeOK'
  BY <1>10, StallAssumption DEF Stream, TypeOK
<1>11. CASE DiskChanges
  <2>1. missing' \in BOOLEAN
    BY <1>11 DEF DiskChanges
  <2> QED
    BY <1>11, <2>1 DEF DiskChanges, TypeOK
<1>12. CASE Restart
  <2>1. rewound' \in [Hashes -> BOOLEAN] /\ swept' \in BOOLEAN
    BY <1>12 DEF Restart
  <2> QED
    BY <1>12, <2>1 DEF Restart, TypeOK
<1>13. CASE Tick
  <2>1. used' \in [Hashes -> 0..Grace] /\ idle' \in [Hashes -> 0..Timeout]
    BY <1>13, UpToType, StallAssumption DEF Tick, TypeOK
  <2>2. ASSUME NEW h \in Hashes PROVE seen'[h] \in Entries \cup {NoEntry}
    <3>1. CASE seen[h] = NoEntry
      BY <1>13, <3>1 DEF Tick
    <3>2. CASE seen[h] # NoEntry
      <4>1. seen[h] \in Entries
        BY <3>2 DEF TypeOK, Entries
      <4>2. seen'[h] = [seen[h] EXCEPT !.age = UpTo(Timeout, seen[h].age)]
        BY <1>13, <3>2 DEF Tick
      <4>3. UpTo(Timeout, seen[h].age) \in 0..Timeout
        BY <4>1, UpToType, StallAssumption DEF Entries
      <4> QED
        BY <4>1, <4>2, <4>3 DEF Entries
    <3> QED
      BY <3>1, <3>2
  <2>3. seen' \in [Hashes -> Entries \cup {NoEntry}]
    BY <1>13, <2>2 DEF Tick
  <2> QED
    BY <1>13, <2>1, <2>3 DEF Tick, TypeOK, Entries
<1>14. ASSUME NEW h \in Hashes, Unload(h) \/ Load(h) PROVE TypeOK'
  <2>1. /\ status' \in [Hashes -> {"absent", "unloaded", "live", "paused", "done"}]
        /\ UNCHANGED <<prog, used, seen, queue, swept, missing, idle, rewound>>
    BY <1>14 DEF Unload, Load, Checked, TypeOK
  <2>2. ASSUME NEW g \in Hashes
        PROVE  /\ status'[g] \in {"live", "paused"} => prog'[g] < Size
               /\ status'[g] = "done" => prog'[g] = Size
    <3>1. prog[g] \in 0..Size
      BY DEF TypeOK
    <3> QED
      BY <1>14, <3>1, StallAssumption DEF Unload, Load, Checked, TypeOK
  <2> QED
    BY <2>1, <2>2 DEF TypeOK
<1>15. CASE UNCHANGED vars
  BY <1>15 DEF vars, TypeOK
<1> QED
  BY <1>1, <1>2, <1>3, <1>4, <1>5, <1>6, <1>7, <1>8, <1>9, <1>10, <1>11, <1>12,
     <1>13, <1>14, <1>15 DEF Next

LEMMA TypeInit == Init => TypeOK
<1> SUFFICES ASSUME Init PROVE TypeOK
  OBVIOUS
<1>1. swept \in BOOLEAN /\ missing \in BOOLEAN /\ rewound \in [Hashes -> BOOLEAN]
  BY DEF Init
<1> QED
  BY <1>1, StallAssumption DEF Init, TypeOK

\* The progress, the ages and what the sweep has on record keep their types, and a
\* loaded torrent is finished exactly when all of its data is there.
THEOREM StallTypeCorrect == Spec => []TypeOK
  BY TypeInit, TypeStep, PTL DEF Spec

-----------------------------------------------------------------------------
(* The record.  An entry is a lower bound of the progress, and while the   *)
(* progress is what it says, the download has been idle for as long as the *)
(* entry is old: that is what makes the age of an entry evidence.          *)

EntryHolds(h) ==
    status[h] # "absent" /\ seen[h] # NoEntry /\ ~rewound[h] =>
        /\ prog[h] >= seen[h].p
        /\ prog[h] = seen[h].p => idle[h] >= seen[h].age
EntriesHold == \A h \in Hashes : EntryHolds(h)

\* What a sweep notes anew holds, whatever was on record.
LEMMA CollectHolds ==
  ASSUME TypeOK, EntriesHold, Collect, Timeout # 0, NEW h \in Hashes
  PROVE  EntryHolds(h)'
<1>1. seen'[h] = Noted(h) /\ (rewound'[h] <=> rewound[h] /\ Noted(h) = seen[h])
  BY DEF Collect
<1>2. UNCHANGED <<status, prog, idle>>
  BY DEF Collect
<1>3. EntryHolds(h) /\ prog[h] \in Int /\ idle[h] \in Nat
  BY StallAssumption DEF EntriesHold, TypeOK
<1>4. CASE Noted(h) = seen[h]
  BY <1>1, <1>2, <1>3, <1>4 DEF EntryHolds
<1>5. CASE Noted(h) = NoEntry
  BY <1>1, <1>5 DEF EntryHolds
<1>6. CASE Noted(h) = [p |-> prog[h], age |-> 0]
  BY <1>1, <1>2, <1>3, <1>6 DEF EntryHolds
<1> QED
  BY <1>4, <1>5, <1>6 DEF Noted, Recorded, Entry

LEMMA TickHolds ==
  ASSUME TypeOK, EntriesHold, Tick, NEW h \in Hashes
  PROVE  EntryHolds(h)'
<1> SUFFICES ASSUME status'[h] # "absent", seen'[h] # NoEntry, ~rewound'[h]
             PROVE  /\ prog'[h] >= seen'[h].p
                    /\ prog'[h] = seen'[h].p => idle'[h] >= seen'[h].age
  BY DEF EntryHolds
<1>1. UNCHANGED <<status, prog, rewound>>
  BY DEF Tick
<1>2. seen[h] # NoEntry
  BY DEF Tick
<1>3. seen[h] \in Entries /\ idle[h] \in 0..Timeout
  BY <1>2 DEF TypeOK, Entries
<1>4. seen'[h] = [seen[h] EXCEPT !.age = UpTo(Timeout, seen[h].age)]
  BY <1>2 DEF Tick
<1>5. seen'[h].p = seen[h].p /\ seen'[h].age = UpTo(Timeout, seen[h].age)
  BY <1>3, <1>4 DEF Entries
<1>6. prog[h] # Size => idle'[h] = UpTo(Timeout, idle[h])
  BY <1>1 DEF Tick
<1>10. prog[h] = seen[h].p => prog[h] # Size
  BY <1>3, StallAssumption DEF Entries
<1>7. prog[h] >= seen[h].p /\ (prog[h] = seen[h].p => idle[h] >= seen[h].age)
  BY <1>1, <1>2 DEF EntriesHold, EntryHolds
<1>8. prog[h] = seen[h].p => UpTo(Timeout, seen[h].age) <= UpTo(Timeout, idle[h])
  BY <1>3, <1>7, UpToGrows, StallAssumption DEF Entries
<1>9. UpTo(Timeout, idle[h]) \in Int /\ UpTo(Timeout, seen[h].age) \in Int
  <2>1. Timeout \in Nat /\ idle[h] \in 0..Timeout /\ seen[h].age \in 0..Timeout
    BY <1>3, StallAssumption DEF Entries
  <2>2. UpTo(Timeout, idle[h]) \in 0..Timeout /\ UpTo(Timeout, seen[h].age) \in 0..Timeout
    BY <2>1, UpToType
  <2> QED
    BY <2>1, <2>2
<1> QED
  BY <1>1, <1>5, <1>6, <1>7, <1>8, <1>9, <1>10

LEMMA EntriesStep == TypeOK /\ EntriesHold /\ [Next]_vars => EntriesHold'
<1> SUFFICES ASSUME TypeOK, EntriesHold, [Next]_vars, NEW g \in Hashes
             PROVE  EntryHolds(g)'
  BY DEF EntriesHold
<1>0. EntryHolds(g) /\ prog[g] \in 0..Size /\ idle[g] \in 0..Timeout
      /\ (seen[g] # NoEntry => seen[g].p \in 0..Size /\ seen[g].age \in 0..Timeout)
  <2>1. seen[g] # NoEntry => seen[g] \in Entries
    BY DEF TypeOK, Entries
  <2> QED
    BY <2>1, StallAssumption DEF EntriesHold, TypeOK, Entries
<1>1. CASE Collect
  <2>1. CASE Timeout = 0
    BY <1>0, <1>1, <2>1 DEF Collect, EntryHolds
  <2> QED
    BY <1>1, <2>1, CollectHolds
<1>2. CASE SweepSkipped \/ EvictFails \/ UNCHANGED vars
  BY <1>0, <1>2 DEF SweepSkipped, EvictFails, vars, EntryHolds
<1>3. ASSUME NEW h \in Hashes, Evict(h) \/ Drop(h) PROVE EntryHolds(g)'
  BY <1>0, <1>3 DEF Evict, Drop, Gone, EntryHolds, TypeOK
<1>4. ASSUME NEW h \in Hashes, Add(h) PROVE EntryHolds(g)'
  BY <1>0, <1>4 DEF Add, EntryHolds, TypeOK
<1>5. ASSUME NEW h \in Hashes, Download(h) PROVE EntryHolds(g)'
  <2>1. CASE g = h
    <3>1. prog'[g] = prog[g] + 1 /\ status[g] # "absent"
          /\ UNCHANGED <<seen, rewound>>
      BY <1>5, <2>1 DEF Download, TypeOK
    <3> QED
      BY <1>0, <3>1 DEF EntryHolds
  <2>2. CASE g # h
    <3>1. prog'[g] = prog[g] /\ status'[g] = status[g] /\ idle'[g] = idle[g]
          /\ UNCHANGED <<seen, rewound>>
      BY <1>5, <2>2 DEF Download, TypeOK
    <3> QED
      BY <1>0, <3>1 DEF EntryHolds
  <2> QED
    BY <2>1, <2>2
<1>6. ASSUME NEW h \in Hashes, Recheck(h) PROVE EntryHolds(g)'
  BY <1>0, <1>6 DEF Recheck, EntryHolds, TypeOK
<1>7. ASSUME NEW h \in Hashes, PauseOrUnpause(h) \/ Stream(h) \/ Unload(h) \/ Load(h)
      PROVE  EntryHolds(g)'
  BY <1>0, <1>7 DEF PauseOrUnpause, Stream, Unload, Load, EntryHolds, TypeOK
<1>8. CASE DiskChanges
  BY <1>0, <1>8 DEF DiskChanges, EntryHolds, TypeOK
<1>9. CASE Restart
  BY <1>9 DEF Restart, EntryHolds
<1>10. CASE Tick
  BY <1>10, TickHolds
<1> QED
  BY <1>1, <1>2, <1>3, <1>4, <1>5, <1>6, <1>7, <1>8, <1>9, <1>10 DEF Next

\* What a sweep finds stalled has been idle for the whole timeout.
LEMMA StalledIsIdle ==
  ASSUME TypeOK, EntriesHold, Timeout # 0, NEW h \in Hashes, Stalled(h)
  PROVE  idle[h] >= Timeout \/ rewound[h]
<1>1. status[h] = "live" /\ prog[h] <= Entry(h).p /\ Entry(h).age >= Timeout
  BY DEF Stalled
<1>2. seen[h] # NoEntry /\ Entry(h) = seen[h]
  BY <1>1, StallAssumption DEF Entry
<1>3. EntryHolds(h)
  BY DEF EntriesHold
<1>4. prog[h] \in Int /\ idle[h] \in Int /\ seen[h].p \in Int /\ seen[h].age \in Int
  BY <1>2, StallAssumption DEF TypeOK
<1> QED
  BY <1>1, <1>2, <1>3, <1>4, StallAssumption DEF EntryHolds

\* A sweep evicts only downloads that made no progress for the whole of
\* stall_timeout, or whose progress went back under the entry on record: for any
\* number of downloads and whatever pauses, removals, reloads and missing disks
\* happen between the sweeps.
THEOREM StalledAreIdle == Spec => StalledMadeNoProgress
<1>1. Init => EntriesHold
  BY DEF Init, EntriesHold, EntryHolds
<1>2. TypeOK /\ EntriesHold /\ [Next]_vars
        => [queue = {} => \A h \in queue' : idle[h] >= Timeout \/ rewound[h]]_vars
  <2> SUFFICES ASSUME TypeOK, EntriesHold, Next, queue = {}, NEW h \in queue'
               PROVE  idle[h] >= Timeout \/ rewound[h]
    OBVIOUS
  <2>1. CASE Collect
    <3>1. Timeout # 0 /\ h \in Hashes /\ Stalled(h)
      BY <2>1 DEF Collect
    <3> QED
      BY <3>1, StalledIsIdle
  <2>2. ASSUME ~Collect PROVE FALSE
    BY <2>2 DEF Next, SweepSkipped, Evict, First, EvictFails, Add, Drop, Download,
                Recheck, Unload, Load, PauseOrUnpause, Stream, DiskChanges, Restart, Tick
  <2> QED
    BY <2>1, <2>2
<1> QED
  BY <1>1, <1>2, TypeInit, TypeStep, EntriesStep, PTL DEF Spec, StalledMadeNoProgress
=============================================================================
