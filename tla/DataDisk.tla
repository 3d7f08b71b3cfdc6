------------------------------ MODULE DataDisk ------------------------------
(***************************************************************************)
(* How the server tells whether its data disk is there (utils/mount.rs and *)
(* Engine::data_disk_ok).  A disk that is pulled keeps its mount; under    *)
(* systemd the service has a mount namespace of its own, which keeps the   *)
(* mounts of the moment it started.                                        *)
(*                                                                         *)
(* A mount table is a sequence of mounts, a later one over an earlier one; *)
(* a path is a sequence of names; a device is its major and minor number.  *)
(* A filesystem without a block device (btrfs, tmpfs) has major number 0.  *)
(***************************************************************************)
EXTENDS Integers, Sequences, SequencesExt

Mount(at, dev) == [at |-> at, dev |-> dev]
Root == [major |-> 259, minor |-> 0]   \* no disk's: theirs count from 1

\* The device that stat(path) names: the one mounted last over the path.
Stat(table, path) ==
    LET over == {i \in DOMAIN table : IsPrefix(table[i].at, path)}
    IN  table[CHOOSE i \in over : \A j \in over : j <= i].dev

is_on_separate_filesystem(table, path) == Stat(table, path) # Stat(table, <<>>)

\* `sys` are the devices under /sys/dev/block.
device_present_in(sys, dev) == dev.major = 0 \/ dev \in sys
backing_device_present(table, sys, path) == device_present_in(sys, Stat(table, path))

\* What the process sees of its disk.  `reads`: its directory can be read.
data_disk_ok(require, table, sys, path, reads) ==
    \/ ~require
    \/ /\ is_on_separate_filesystem(table, path)
       /\ reads
       /\ backing_device_present(table, sys, path)

\* The device mounted exactly at `path`, the topmost one.
FirstMounted(table, path) ==  \* mistake: the mount at the bottom of the stack
    LET at == {i \in DOMAIN table : table[i].at = path}
    IN  IF at = {} THEN <<>> ELSE <<table[CHOOSE i \in at : \A j \in at : i <= j].dev>>
mounted_device(table, path) ==
    LET at == {i \in DOMAIN table : table[i].at = path}
    IN  IF at = {} THEN <<>> ELSE <<table[CHOOSE i \in at : \A j \in at : j <= i].dev>>

host_has_disk(host, sys, path) ==
    LET dev == mounted_device(host, path)
    IN  dev # <<>> /\ device_present_in(sys, dev[1])

\* The guard at startup: does the process come up?
check_mount(require, table, path) == require => is_on_separate_filesystem(table, path)

-----------------------------------------------------------------------------
(* The world around it: a disk that is pulled and plugged in, and the host *)
(* that mounts it at Point.  A disk plugged in again has a new number, as  *)
(* its old mounts hold the old one.                                        *)

Point == <<"var", "tornas">>
Plugged(major) ==
    LET dev   == [major |-> major, minor |-> 1]
        table == <<Mount(<<>>, Root), Mount(Point, dev)>>
    IN  [dev |-> dev, there |-> TRUE, host |-> table, ns |-> table]
Sys(w) == IF w.there THEN {Root, w.dev} ELSE {Root}

Pull(w) == [w EXCEPT !.there = FALSE]
Plug(w) == IF w.there THEN w ELSE [w EXCEPT !.there = TRUE, !.dev.minor = @ + 1]
\* systemd on the host mounts the disk when its device appears, over the old mount
\* unless that was released when its device went.
MountIt(w) ==
    IF ~w.there \/ Stat(w.host, Point) = w.dev THEN w
    ELSE [w EXCEPT !.host = Append(@, Mount(Point, w.dev))]
Release(w) ==
    IF Stat(w.host, Point) = Root \/ (w.there /\ Stat(w.host, Point) = w.dev) THEN w
    ELSE [w EXCEPT !.host = Front(@)]
\* A new process has the host's mounts.
Restarted(w) == [w EXCEPT !.ns = w.host]

Happens(w, e) ==
    CASE e = "pull" -> Pull(w) [] e = "plug" -> Plug(w) [] e = "mount" -> MountIt(w)
      [] e = "release" -> Release(w) [] OTHER -> Restarted(w)
\* Outside systemd the process shares the host's mounts at all times.
World(major, managed, events) ==
    LET w == FoldLeft(Happens, Plugged(major), events)
    IN  IF managed THEN w ELSE Restarted(w)
=============================================================================
