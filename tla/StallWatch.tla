----------------------------- MODULE StallWatch -----------------------------
(***************************************************************************)
(* Stall detection: the sweep that drops downloads which have stopped      *)
(* making progress.  One tick is one sweep interval.  Times are kept as    *)
(* ages that stop counting at the limit they are compared with, so that    *)
(* time itself is not bounded.                                             *)
(***************************************************************************)
EXTENDS Integers, Sequences

CONSTANTS
    Rows,         \* info hashes, in the order list_torrents returns them
    Timeout,      \* stall_timeout in ticks; 0 disables the check
    Grace,        \* stream_grace in ticks
    Size          \* progress at which a download is finished

Hashes == {Rows[i] : i \in DOMAIN Rows}

ASSUME StallAssumption ==
    /\ Rows \in Seq(Hashes) /\ Timeout \in Nat /\ Grace \in Nat /\ Size \in Nat \ {0}

VARIABLES
    status,    \* "absent", "unloaded" (a row without a handle), "live", "paused" or "done"
    prog,      \* stats.progress_bytes
    used,      \* ticks since the movie was last used, up to Grace
    seen,      \* progress_seen: the progress of an earlier sweep and its age
    queue,     \* downloads the running sweep has found stalled, still to evict
    swept,     \* the sweep of this tick has run
    missing,   \* disk_missing
    idle,      \* history: ticks since the last progress or the add, up to Timeout
    rewound    \* history: the progress went back under an entry still in `seen`

vars == <<status, prog, used, seen, queue, swept, missing, idle, rewound>>

NoEntry == [p |-> -1, age |-> 0]
UpTo(limit, n) == IF n < limit THEN n + 1 ELSE limit

Init ==
    /\ status = [h \in Hashes |-> "absent"] /\ prog = [h \in Hashes |-> 0]
    /\ used = [h \in Hashes |-> Grace] /\ seen = [h \in Hashes |-> NoEntry]
    /\ queue = {} /\ swept = FALSE /\ missing = FALSE
    /\ idle = [h \in Hashes |-> 0] /\ rewound = [h \in Hashes |-> FALSE]

-----------------------------------------------------------------------------
(* evict_stalled.                                                          *)

Protected(h) == used[h] < Grace

\* The entry the sweep looks at: the one on record, or one made now.
Entry(h) == IF seen[h] = NoEntry THEN [p |-> prog[h], age |-> 0] ELSE seen[h]

\* What the sweep leaves on record: the old entry for a row that has no handle now,
\* none for what is gone, finished or paused, a new one for what has progressed.
Recorded(h) ==
    IF prog[h] > Entry(h).p THEN [p |-> prog[h], age |-> 0] ELSE Entry(h)
OldAge(h) == [p |-> prog[h], age |-> Entry(h).age]
\* Mistakes: progress is not recorded; it does not restart the clock.
KeepFirst(h) ==
    CASE status[h] = "unloaded" -> seen[h] [] status[h] = "live" -> Entry(h) [] OTHER -> NoEntry
KeepAge(h) ==
    CASE status[h] = "unloaded" -> seen[h] [] status[h] = "live" -> OldAge(h) [] OTHER -> NoEntry
Noted(h) ==
    CASE status[h] = "unloaded" -> seen[h] [] status[h] = "live" -> Recorded(h) [] OTHER -> NoEntry

Stalled(h) ==
    /\ status[h] = "live" /\ prog[h] <= Entry(h).p
    /\ Entry(h).age >= Timeout /\ ~Protected(h)

Collect ==
    /\ ~swept /\ ~missing /\ queue = {}
    /\ swept' = TRUE
    /\ IF Timeout = 0 THEN UNCHANGED <<seen, queue, rewound>>
       ELSE /\ seen' = [h \in Hashes |-> Noted(h)]
            /\ queue' = {h \in Hashes : Stalled(h)}
            /\ rewound' = [h \in Hashes |-> rewound[h] /\ Noted(h) = seen[h]]
    /\ UNCHANGED <<status, prog, used, missing, idle>>

\* The disk is missing: the sweep is skipped, and every entry ages on.
SweepSkipped ==
    /\ ~swept /\ missing /\ swept' = TRUE
    /\ UNCHANGED <<status, prog, used, seen, queue, missing, idle, rewound>>

\* A torrent is deleted, with its files if it is loaded.
GoneKeepingRow(h) ==  \* mistake: the files go, the torrent stays
    /\ prog' = [prog EXCEPT ![h] = IF status[h] \in {"absent", "unloaded"} THEN @ ELSE 0]
    /\ UNCHANGED <<status, idle, used>>
Gone(h) ==
    /\ status' = [status EXCEPT ![h] = "absent"]
    /\ prog' = [prog EXCEPT ![h] = IF status[h] \in {"absent", "unloaded"} THEN @ ELSE 0]
    /\ idle' = [idle EXCEPT ![h] = 0] /\ used' = [used EXCEPT ![h] = Grace]

\* Evictions follow one by one in the order of the rows, each awaited; a failure
\* ends the sweep.
First(h) == \E i \in DOMAIN Rows : /\ Rows[i] = h /\ h \in queue
                                   /\ \A j \in 1..(i - 1) : Rows[j] \notin queue
Evict(h) ==
    /\ First(h)
    /\ Gone(h)
    /\ queue' = queue \ {h}
    /\ UNCHANGED <<seen, swept, missing, rewound>>
EvictFails ==
    /\ queue # {} /\ queue' = {}
    /\ UNCHANGED <<status, prog, used, seen, swept, missing, idle, rewound>>

-----------------------------------------------------------------------------
(* What happens to the downloads meanwhile.                                *)

\* A torrent that enters the session is checked: it is finished if its data is there.
Checked(h) == IF prog[h] = Size THEN "done" ELSE "live"

Add(h) ==
    /\ status[h] = "absent" /\ ~missing
    /\ status' = [status EXCEPT ![h] = Checked(h)]
    /\ used' = [used EXCEPT ![h] = 0]
    /\ rewound' = [rewound EXCEPT ![h] = seen[h] # NoEntry]
    /\ UNCHANGED <<prog, idle, seen, queue, swept, missing>>

\* DELETE /api/movies, or an eviction for space.
Drop(h) ==
    /\ status[h] # "absent"
    /\ Gone(h)
    /\ UNCHANGED <<seen, queue, swept, missing, rewound>>

Download(h) ==
    /\ status[h] = "live" /\ prog[h] < Size
    /\ prog' = [prog EXCEPT ![h] = @ + 1]
    /\ status' = [status EXCEPT ![h] = IF prog'[h] = Size THEN "done" ELSE @]
    /\ idle' = [idle EXCEPT ![h] = 0]
    /\ UNCHANGED <<used, seen, queue, swept, missing, rewound>>

\* A reload that finds pieces missing on disk.
Recheck(h) ==
    /\ status[h] \in {"live", "paused"} /\ prog[h] > 0
    /\ prog' = [prog EXCEPT ![h] = @ - 1]
    /\ rewound' = [rewound EXCEPT ![h] = seen[h] # NoEntry]
    /\ UNCHANGED <<status, used, seen, queue, swept, missing, idle>>

\* A reload deletes the torrent from the session and adds it again, at once, at the
\* next start, or never.
Unload(h) ==
    /\ status[h] \in {"live", "paused", "done"}
    /\ status' = [status EXCEPT ![h] = "unloaded"]
    /\ UNCHANGED <<prog, used, seen, queue, swept, missing, idle, rewound>>
Load(h) ==
    /\ status[h] = "unloaded"
    /\ status' = [status EXCEPT ![h] = Checked(h)]
    /\ UNCHANGED <<prog, used, seen, queue, swept, missing, idle, rewound>>

PauseOrUnpause(h) ==
    /\ status[h] \in {"live", "paused"}
    /\ status' = [status EXCEPT ![h] = IF @ = "live" THEN "paused" ELSE "live"]
    /\ UNCHANGED <<prog, used, seen, queue, swept, missing, idle, rewound>>

Stream(h) ==
    /\ status[h] # "absent"
    /\ used' = [used EXCEPT ![h] = 0]
    /\ UNCHANGED <<status, prog, seen, queue, swept, missing, idle, rewound>>

\* The disk goes, with everything paused, or comes back.
DiskChanges ==
    /\ missing' = ~missing
    /\ status' = [h \in Hashes |-> IF missing' /\ status[h] = "live" THEN "paused" ELSE status[h]]
    /\ UNCHANGED <<prog, used, seen, queue, swept, idle, rewound>>

\* progress_seen lives in memory only.
Restart ==
    /\ seen' = [h \in Hashes |-> NoEntry] /\ rewound' = [h \in Hashes |-> FALSE]
    /\ queue' = {} /\ swept' = FALSE
    /\ UNCHANGED <<status, prog, used, missing, idle>>

Tick ==
    /\ swept \/ queue # {}
    /\ swept' = FALSE
    /\ seen' = [h \in Hashes |->
                  IF seen[h] = NoEntry THEN NoEntry
                  ELSE [seen[h] EXCEPT !.age = UpTo(Timeout, @)]]
    /\ idle' = [h \in Hashes |->
                  IF status[h] = "absent" \/ prog[h] = Size THEN idle[h] ELSE UpTo(Timeout, idle[h])]
    /\ used' = [h \in Hashes |-> UpTo(Grace, used[h])]
    /\ UNCHANGED <<status, prog, queue, missing, rewound>>

Next ==
    \/ Collect \/ SweepSkipped \/ EvictFails
    \/ \E h \in Hashes :
         \/ Evict(h) \/ Add(h) \/ Drop(h) \/ Download(h) \/ Recheck(h)
         \/ Unload(h) \/ Load(h) \/ PauseOrUnpause(h) \/ Stream(h)
    \/ DiskChanges \/ Restart \/ Tick

Spec == Init /\ [][Next]_vars

\* The interval ticks and the sweep runs; the eviction of a torrent that is tried
\* again and again does not fail for ever.  Nothing is assumed of the downloads.
Fairness ==
    /\ WF_vars(Tick) /\ WF_vars(Collect)
    /\ \A h \in Hashes : SF_vars(Evict(h))

FairSpec == Spec /\ Fairness

-----------------------------------------------------------------------------
(* Properties.                                                             *)

\* The types of the variables; a loaded torrent is finished exactly when all of its
\* data is there, however it was unloaded, removed and added in between.
TypeOK ==
    /\ status \in [Hashes -> {"absent", "unloaded", "live", "paused", "done"}]
    /\ prog \in [Hashes -> 0..Size]
    /\ \A h \in Hashes : /\ status[h] \in {"live", "paused"} => prog[h] < Size
                         /\ status[h] = "done" => prog[h] = Size
    /\ used \in [Hashes -> 0..Grace] /\ idle \in [Hashes -> 0..Timeout]
    /\ seen \in [Hashes -> [p : 0..(Size - 1), age : 0..Timeout] \cup {NoEntry}]
    /\ queue \subseteq Hashes
    /\ swept \in BOOLEAN /\ missing \in BOOLEAN
    /\ rewound \in [Hashes -> BOOLEAN]

\* A sweep finds a download stalled only if it has made no progress for the whole
\* of stall_timeout, unless its progress went back (a re-check, or a removal and a
\* new add between two sweeps) under the entry that is still on record.
StalledMadeNoProgress ==
    [][queue = {} => \A h \in queue' : idle[h] >= Timeout \/ rewound[h]]_vars

\* "... so a dead torrent never holds budget": a live download that makes no
\* progress, is not being watched and has its disk does not stay, once the process
\* is no longer restarted.
Dead(h) == status[h] = "live" /\ idle[h] = Timeout /\ ~Protected(h) /\ ~missing
DeadIsEvicted ==
    Timeout > 0 /\ <>[][~Restart]_vars => \A h \in Hashes : Dead(h) ~> ~Dead(h)

\* "A download with no progress for `--stall-timeout` ... is evicted", and no other.
OnlyIdleIsStalled ==
    [][queue = {} => \A h \in queue' : idle[h] >= Timeout]_vars
=============================================================================
