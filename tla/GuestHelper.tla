---------------------------- MODULE GuestHelper ----------------------------
(***************************************************************************)
(* The Linux helper in detail (guest-helpers/linux/filerestore.sh): the    *)
(* order of its commands, its state file, and what it does to the volume   *)
(* group (VG) of a disk with LVM.  Guest has the same script as the        *)
(* controller sees it.                                                     *)
(*                                                                         *)
(* A step is one command that changes the system or reads what another     *)
(* call may change, or several with nothing of interest between them.      *)
(* sync, udev and the number of files are left out.                        *)
(***************************************************************************)
EXTENDS Naturals, Sequences, FiniteSets

CONSTANTS
    Serials,    \* serials of hotplugged disks: one per restore object
    Disks,
    DiskOf,     \* DiskOf[s]: the disk that a restore attaches
    PathOf,     \* PathOf[s]: its mount path, built from the source name
    Layout,     \* Layout[d]: "plain", "lvm" or "blank"
    Volumes,    \* Volumes[d]: logical volumes of d for which blkid names a type
    Unmountable,\* those that mount refuses, such as swap
    HasSource,  \* pairs of a disk and a volume (or None) that have the source path
    Temporary,  \* disks made anew from a snapshot for every restore
    Manual,     \* serials of restores without a source path
    None,
    Faults,     \* kinds of fault that may happen
    MaxFaults,  \* bound on faults
    MaxRuns     \* bound on calls of the script

\* Where a call of the script is.
Steps == {"find", "stale", "import", "record", "emergency", "activate", "mount",
          "volumes", "copy", "look", "read", "unmount", "vg", "forget", "remove"}

ASSUME HelperAssumption ==
    /\ DiskOf \in [Serials -> Disks]
    /\ Layout \in [Disks -> {"plain", "lvm", "blank"}]
    /\ Serials \cap {None, "source", "empty"} = {}
    /\ None \notin Steps \cup Disks \cup {"source", "empty"}
    /\ \A d \in Disks : None \notin Volumes[d] /\ IsFiniteSet(Volumes[d])
    /\ MaxFaults \in Nat /\ MaxRuns \in Nat

VARIABLES
    plugged,    \* serial of the restore volume in the VM spec, or None
    attached,   \* serials of the disks in the guest
    group,      \* group[d]: "source", the serial its clone is named after, or None
    active,     \* disks whose VG is active
    stateFile,  \* stateFile[path]: None, "empty" or the serial in the VG's name
    mounts,     \* mounted file systems
    held,       \* lazily unmounted file systems that are still in use
    runs,       \* the calls of the script so far
    faults      \* number of faults so far

vars == <<plugged, attached, group, active, stateFile, mounts, held, runs, faults>>

Paths == {PathOf[s] : s \in Serials}
AllVolumes == UNION {Volumes[d] : d \in Disks}

\* volume is None for a file system directly on the disk; below tells a directory
\* of the mount path from the path itself; by is the run that mounted it; over are
\* the runs that had something mounted there, which it covers.
Mount == [disk : Disks, volume : AllVolumes \cup {None}, path : Paths, below : BOOLEAN,
          by : 1..MaxRuns, over : SUBSET (1..MaxRuns)]

\* free, fresh: nothing used the disk or the path when the run started, and the disk
\* had its original VG.  since: the faults before it.  mounted: MOUNTED_COUNT is not 0.
\* vg: what unmount_and_cleanup has read from the state file, None if there was none.
\* rc: what it returned.  cut: the step at which the run ended, if it ended without
\* its clean-up.  overtaken: when it wrote the state file, another run was about to
\* remove it.
Run == [mode : {"restore", "cleanup"}, serial : Serials, orphan : BOOLEAN,
        free : BOOLEAN, fresh : BOOLEAN, since : Nat, at : Steps \cup {"ended"},
        todo : SUBSET AllVolumes, mounted : BOOLEAN,
        vg : Serials \cup {"empty", None}, copied : Disks \cup {None},
        exit : {0, 1}, rc : {0, 1}, cut : Steps \cup {None}, overtaken : BOOLEAN]

Fault(kind) == kind \in Faults /\ faults < MaxFaults /\ faults' = faults + 1

Running == {n \in DOMAIN runs : runs[n].at # "ended"}

----------------------------------------------------------------------------
(***************************************************************************)
(* LVM, mount table.                                                       *)
(***************************************************************************)

Present(d) == \E s \in attached : DiskOf[s] = d

InUse(d) == \E m \in mounts \cup held : m.disk = d

\* The VG filerestore_s can be seen.
VGExists(s) == group[DiskOf[s]] = s /\ Present(DiskOf[s])

\* vgchange -an and vgremove -f: the second takes the VG off the disk.
VGRemoved(s) ==
    /\ VGExists(s) /\ ~InUse(DiskOf[s])
    /\ group' = [group EXCEPT ![DiskOf[s]] = None]
    /\ active' = active \ {DiskOf[s]}
    /\ UNCHANGED faults

\* One of them fails, and the first may have had its effect.
VGKept(s) ==
    /\ UNCHANGED group
    /\ \/ /\ ~VGExists(s) \/ InUse(DiskOf[s])
          /\ UNCHANGED <<active, faults>>
       \/ /\ Fault("lvm")
          /\ \/ UNCHANGED active
             \/ ~InUse(DiskOf[s]) /\ active' = active \ {DiskOf[s]}

\* Several file systems are mounted in directories below the path.
Several(s) == Layout[DiskOf[s]] = "lvm" /\ Cardinality(Volumes[DiskOf[s]]) > 1

\* The file system a run would mount.
Target(n, volume) ==
    LET s == runs[n].serial
        there == {m \in mounts : m.path = PathOf[s] /\ m.below = Several(s)
                                                    /\ (m.below => m.volume = volume)}
    IN [disk |-> DiskOf[s], volume |-> volume, path |-> PathOf[s], below |-> Several(s),
        by |-> n, over |-> {m.by : m \in there}]

\* Mounts are stacked: what was mounted before at the same place cannot be reached.
Covered(m) ==
    \E o \in mounts : /\ m.by \in o.over /\ o.path = m.path /\ o.below = m.below
                      /\ m.below => o.volume = m.volume

\* The top of the stack at the mount path.
Top(path) == {m \in mounts : m.path = path /\ ~m.below /\ ~Covered(m)}

\* mount refuses to put a file system on itself.
Mountable(n, volume) ==
    LET t == Target(n, volume)
    IN /\ Present(t.disk)
       /\ volume # None => /\ group[t.disk] = runs[n].serial /\ t.disk \in active
                           /\ volume \notin Unmountable
       /\ ~\E m \in mounts : /\ m.by \in t.over /\ ~Covered(m)
                             /\ m.disk = t.disk /\ m.volume = t.volume

----------------------------------------------------------------------------
(***************************************************************************)
(* Disks come and go, calls start.  The controller waits for a call that   *)
(* it has not given up, and has one restore volume in the VM spec at a     *)
(* time; the guest may keep a disk for a while after that.                 *)
(***************************************************************************)

OnlyOrphans == \A n \in Running : runs[n].orphan

\* A snapshot is restored to a new disk every time.
Plug(s) ==
    /\ plugged = None /\ ~Present(DiskOf[s])
    /\ plugged' = s
    /\ attached' = attached \cup {s}
    /\ group' = IF DiskOf[s] \in Temporary /\ Layout[DiskOf[s]] = "lvm"
                THEN [group EXCEPT ![DiskOf[s]] = "source"] ELSE group
    /\ UNCHANGED <<active, stateFile, mounts, held, runs, faults>>

\* Between two calls, whether or not the clean-up before it has reached the guest.
Unplug ==
    /\ plugged # None /\ OnlyOrphans
    /\ plugged' = None
    /\ UNCHANGED <<attached, group, active, stateFile, mounts, held, runs, faults>>

\* What the kernel makes of a disk that goes while it is in use is left out.
Detach(s) ==
    /\ s \in attached /\ s # plugged
    /\ ~InUse(DiskOf[s]) /\ DiskOf[s] \notin active
    /\ attached' = attached \ {s}
    /\ UNCHANGED <<plugged, group, active, stateFile, mounts, held, runs, faults>>

Started(mode, s) ==
    [mode |-> mode, serial |-> s, orphan |-> FALSE,
     at |-> IF mode = "restore" THEN "find" ELSE "look",
     free |-> /\ Running = {} /\ ~InUse(DiskOf[s])
              /\ ~\E m \in mounts : m.path = PathOf[s],
     fresh |-> Layout[DiskOf[s]] = "lvm" => group[DiskOf[s]] = "source",
     since |-> faults, todo |-> {}, mounted |-> FALSE, vg |-> None, copied |-> None,
     exit |-> 0, rc |-> 0, cut |-> None, overtaken |-> FALSE]

Start(mode, s) ==
    /\ Len(runs) < MaxRuns /\ OnlyOrphans
    /\ mode = "restore" => s = plugged /\ s \in attached
    /\ runs' = Append(runs, Started(mode, s))
    /\ UNCHANGED <<plugged, attached, group, active, stateFile, mounts, held, faults>>

\* The session is lost or times out; sshd does not signal a forced command.
Abandon(n) ==
    /\ n \in Running /\ ~runs[n].orphan
    /\ Fault("abandon")
    /\ runs' = [runs EXCEPT ![n].orphan = TRUE]
    /\ UNCHANGED <<plugged, attached, group, active, stateFile, mounts, held>>

\* The run ends here with exit code 1, without a clean-up.
CutOff(n) ==
    runs' = [runs EXCEPT ![n].at = "ended", ![n].exit = 1, ![n].cut = runs[n].at]

\* An abandoned script has nowhere to write to: any message may end it.
Die(n) ==
    /\ n \in Running /\ runs[n].orphan
    /\ CutOff(n)
    /\ UNCHANGED <<plugged, attached, group, active, stateFile, mounts, held, faults>>

\* The guest restarts: the files and the disks are left.
Reboot ==
    /\ Fault("reboot")
    /\ runs' = [n \in DOMAIN runs |->
                  IF n \in Running
                  THEN [runs[n] EXCEPT !.at = "ended", !.exit = 1, !.cut = runs[n].at]
                  ELSE runs[n]]
    /\ mounts' = {} /\ held' = {} /\ active' = {}
    /\ UNCHANGED <<plugged, attached, group, stateFile>>

\* The last user of a lazily unmounted file system leaves it.
Release(m) ==
    /\ held' = held \ {m}
    /\ UNCHANGED <<plugged, attached, group, active, stateFile, mounts, runs, faults>>

----------------------------------------------------------------------------
(***************************************************************************)
(* The script.                                                             *)
(***************************************************************************)

At(n, step) == n \in Running /\ runs[n].at = step

Goto(n, step) == runs' = [runs EXCEPT ![n].at = step]

\* Mutant: the script ends with the code of the command that failed.
ExitCodeOfCommand(n, code) ==
    runs' = [runs EXCEPT ![n].at = "ended", ![n].exit = IF code = 0 THEN 0 ELSE 32]

Exit(n, code) == runs' = [runs EXCEPT ![n].at = "ended", ![n].exit = code]

\* unmount_and_cleanup, then exit with this code.
Unwind(n, code) == runs' = [runs EXCEPT ![n].at = "look", ![n].exit = code]

\* Device by serial, type of the disk or of its last partition with a file system,
\* directory of the mount path.
Find(n) ==
    /\ At(n, "find")
    /\ LET s == runs[n].serial
           possible == s \in attached /\ Layout[DiskOf[s]] # "blank"
       IN \/ /\ possible
             /\ Goto(n, IF Layout[DiskOf[s]] = "lvm" THEN "stale" ELSE "mount")
             /\ UNCHANGED faults
          \/ /\ (~possible /\ UNCHANGED faults) \/ Fault("mkdir")
             /\ Exit(n, 1)
    /\ UNCHANGED <<plugged, attached, group, active, stateFile, mounts, held>>

\* A VG of a run of the same serial is removed.
RemoveStale(n) ==
    /\ At(n, "stale")
    /\ LET s == runs[n].serial
       IN \/ /\ ~VGExists(s)
             /\ Goto(n, "import")
             /\ UNCHANGED <<group, active, faults>>
          \/ /\ VGRemoved(s)
             /\ Goto(n, "import")
          \/ /\ VGExists(s) /\ VGKept(s)
             /\ Exit(n, 1)
    /\ UNCHANGED <<plugged, attached, stateFile, mounts, held>>

\* vgimportclone renames the VG on the disk itself.
ImportClone(n) ==
    /\ At(n, "import")
    /\ LET s == runs[n].serial
           d == DiskOf[s]
           possible == Present(d) /\ group[d] # None /\ d \notin active
       IN \/ /\ possible
             /\ group' = [group EXCEPT ![d] = s]
             /\ Goto(n, "record")
             /\ UNCHANGED faults
          \/ /\ (~possible /\ UNCHANGED faults) \/ Fault("lvm")
             /\ Exit(n, 1)
             /\ UNCHANGED group
    /\ UNCHANGED <<plugged, attached, active, stateFile, mounts, held>>

\* Mutant: the state file is written after the activation.
RecordLater(n) ==
    /\ At(n, "record")
    /\ Goto(n, "activate")
    /\ UNCHANGED <<plugged, attached, group, active, stateFile, mounts, held, faults>>

\* A run has seen a state file at this path that it will remove.
WillForget(r, path) ==
    /\ PathOf[r.serial] = path
    /\ r.at = "read" \/ (r.at \in {"unmount", "vg", "forget"} /\ r.vg # None)

Record(n) ==
    /\ At(n, "record")
    /\ LET s == runs[n].serial
       IN \/ /\ stateFile' = [stateFile EXCEPT ![PathOf[s]] = s]
             /\ runs' = [runs EXCEPT ![n].at = "activate",
                          ![n].overtaken = \E m \in Running : WillForget(runs[m], PathOf[s])]
             /\ UNCHANGED faults
          \/ /\ Fault("write")
             /\ stateFile' \in {stateFile, [stateFile EXCEPT ![PathOf[s]] = "empty"]}
             /\ Goto(n, "emergency")
    /\ UNCHANGED <<plugged, attached, group, active, mounts, held>>

Emergency(n) ==
    /\ At(n, "emergency")
    /\ \/ VGRemoved(runs[n].serial) /\ Exit(n, 1)
       \/ VGKept(runs[n].serial) /\ CutOff(n)
    /\ UNCHANGED <<plugged, attached, stateFile, mounts, held>>

\* vgchange -ay and lvs.
Activate(n) ==
    /\ At(n, "activate")
    /\ LET s == runs[n].serial
           d == DiskOf[s]
       IN \/ /\ VGExists(s)
             /\ active' = active \cup {d}
             /\ runs' = [runs EXCEPT ![n].at = "volumes", ![n].todo = Volumes[d]]
             /\ UNCHANGED faults
          \/ /\ \/ ~VGExists(s) /\ UNCHANGED <<active, faults>>
                \/ /\ Fault("lvm")
                   /\ \/ UNCHANGED active
                      \/ VGExists(s) /\ active' = active \cup {d}
             /\ Unwind(n, 1)
    /\ UNCHANGED <<plugged, attached, group, stateFile, mounts, held>>

\* The directory of a volume cannot be made in a (read-only) file system at the path.
NoDirectory(t) == t.below /\ \E m \in mounts : m.path = t.path /\ ~m.below

\* A volume that cannot be mounted is passed over; a directory that cannot be made
\* ends the script (set -e).
MountVolume(n) ==
    /\ At(n, "volumes")
    /\ \E v \in runs[n].todo :
          LET t == Target(n, v)
          IN \/ /\ Mountable(n, v) /\ ~NoDirectory(t)
                /\ mounts' = mounts \cup {t}
                /\ runs' = [runs EXCEPT ![n].todo = @ \ {v}, ![n].mounted = TRUE]
                /\ UNCHANGED faults
             \/ /\ ~NoDirectory(t)
                /\ (~Mountable(n, v) /\ UNCHANGED faults) \/ Fault("mount")
                /\ runs' = [runs EXCEPT ![n].todo = @ \ {v}]
                /\ UNCHANGED mounts
             \/ /\ (NoDirectory(t) /\ UNCHANGED faults) \/ (t.below /\ Fault("mkdir"))
                /\ CutOff(n)
                /\ UNCHANGED mounts
    /\ UNCHANGED <<plugged, attached, group, active, stateFile, held>>

\* Manual mode ends here and leaves the volume mounted.
Continue(n) == IF runs[n].serial \in Manual THEN Exit(n, 0) ELSE Goto(n, "copy")

\* Mutant: a volume that was not mounted is an error.
AllVolumesMounted(n) ==
    /\ At(n, "volumes") /\ runs[n].todo = {}
    /\ IF \A v \in Volumes[DiskOf[runs[n].serial]] :
             \E m \in mounts : m.by = n /\ m.volume = v
       THEN Continue(n) ELSE Unwind(n, 1)
    /\ UNCHANGED <<plugged, attached, group, active, stateFile, mounts, held, faults>>

VolumesMounted(n) ==
    /\ At(n, "volumes") /\ runs[n].todo = {}
    /\ IF runs[n].mounted THEN Continue(n) ELSE Unwind(n, 1)
    /\ UNCHANGED <<plugged, attached, group, active, stateFile, mounts, held, faults>>

MountDisk(n) ==
    /\ At(n, "mount")
    /\ \/ /\ Mountable(n, None)
          /\ mounts' = mounts \cup {Target(n, None)}
          /\ Continue(n)
          /\ UNCHANGED faults
       \/ /\ (~Mountable(n, None) /\ UNCHANGED faults) \/ Fault("mount")
          /\ Exit(n, 1)
          /\ UNCHANGED mounts
    /\ UNCHANGED <<plugged, attached, group, active, stateFile, held>>

\* Mutant: the exit of rsync, and a missing source, are not looked at.
CopyUnchecked(n) ==
    /\ At(n, "copy")
    /\ \/ Unwind(n, 0) /\ UNCHANGED faults
       \/ Fault("copy") /\ Unwind(n, 0)
    /\ UNCHANGED <<plugged, attached, group, active, stateFile, mounts, held>>

\* The source path is looked for below the mount path, whatever is mounted there,
\* and copied from there.
Copy(n) ==
    /\ At(n, "copy")
    /\ LET s == runs[n].serial
           found == IF Several(s)
                    THEN {m \in mounts : /\ m.path = PathOf[s] /\ m.below /\ ~Covered(m)
                                         /\ m.volume \in Volumes[DiskOf[s]]}
                    ELSE Top(PathOf[s])
           sources == {m \in found : <<m.disk, m.volume>> \in HasSource}
       IN \/ /\ \E m \in sources :
                   runs' = [runs EXCEPT ![n].copied = m.disk, ![n].at = "look"]
             /\ UNCHANGED faults
          \/ /\ (sources = {} /\ UNCHANGED faults) \/ Fault("copy")
             /\ Unwind(n, 1)
    /\ UNCHANGED <<plugged, attached, group, active, stateFile, mounts, held>>

----------------------------------------------------------------------------
(***************************************************************************)
(* unmount_and_cleanup.                                                    *)
(***************************************************************************)

\* Is there a state file?
Look(n) ==
    /\ At(n, "look")
    /\ Goto(n, IF stateFile[PathOf[runs[n].serial]] = None THEN "unmount" ELSE "read")
    /\ UNCHANGED <<plugged, attached, group, active, stateFile, mounts, held, faults>>

\* It is read.  If it has gone meanwhile the script ends (set -e) where the clean-up
\* follows an error, and elsewhere goes on as with an empty one.
ReadStateFile(n) ==
    /\ At(n, "read")
    /\ LET content == stateFile[PathOf[runs[n].serial]]
       IN IF content = None /\ runs[n].mode = "restore" /\ runs[n].exit = 1
          THEN CutOff(n)
          ELSE runs' = [runs EXCEPT ![n].at = "unmount",
                                    ![n].vg = IF content = None THEN "empty" ELSE content]
    /\ UNCHANGED <<plugged, attached, group, active, stateFile, mounts, held, faults>>

\* What is unmounted: everything at and below the path when the state file names a
\* VG, else the top at the path.
Unmounts(path, vg) == IF vg \in Serials THEN {m \in mounts : m.path = path} ELSE Top(path)

\* try_umount of each: a file system in use is unmounted lazily, and a failure of
\* that (or of findmnt) is logged.
Unmount(n) ==
    /\ At(n, "unmount")
    /\ LET here == Unmounts(PathOf[runs[n].serial], runs[n].vg)
       IN \/ \E busy \in SUBSET here : /\ mounts' = mounts \ here
                                       /\ held' = held \cup busy
                                       /\ UNCHANGED faults
          \/ \E stay \in SUBSET here : /\ stay # {} /\ Fault("umount")
                                       /\ mounts' = mounts \ (here \ stay)
                                       /\ UNCHANGED held
    /\ Goto(n, CASE runs[n].vg \in Serials -> "vg"
                 [] runs[n].vg = "empty" -> "forget"
                 [] OTHER -> "remove")
    /\ UNCHANGED <<plugged, attached, group, active, stateFile>>

\* The state file is kept until its VG is gone.
RemoveVG(n) ==
    /\ At(n, "vg")
    /\ \/ VGRemoved(runs[n].vg) /\ Goto(n, "forget")
       \/ /\ VGKept(runs[n].vg)
          /\ runs' = [runs EXCEPT ![n].at = "remove", ![n].rc = 1]
    /\ UNCHANGED <<plugged, attached, stateFile, mounts, held>>

\* It is removed, whatever it names by now.
RemoveStateFile(n) ==
    /\ At(n, "forget")
    /\ stateFile' = [stateFile EXCEPT ![PathOf[runs[n].serial]] = None]
    /\ Goto(n, "remove")
    /\ UNCHANGED <<plugged, attached, group, active, mounts, held, faults>>

\* Mutant: the result of rm is not looked at.
RemovePathQuietly(n) ==
    /\ At(n, "remove")
    /\ runs' = [runs EXCEPT ![n].at = "ended",
                            ![n].exit = IF runs[n].mode = "cleanup" THEN runs[n].rc ELSE @]
    /\ UNCHANGED <<plugged, attached, group, active, stateFile, mounts, held, faults>>

\* rm -rf fails on what is mounted (read-only) at or below the path.  A restore has
\* its exit code already.
RemovePath(n) ==
    /\ At(n, "remove")
    /\ LET mounted == \E m \in mounts : m.path = PathOf[runs[n].serial]
           rc == IF mounted THEN 1 ELSE runs[n].rc
       IN runs' = [runs EXCEPT ![n].at = "ended", ![n].rc = rc,
                               ![n].exit = IF runs[n].mode = "cleanup" THEN rc ELSE @]
    /\ UNCHANGED <<plugged, attached, group, active, stateFile, mounts, held, faults>>

----------------------------------------------------------------------------
Init ==
    /\ plugged = None /\ attached = {}
    /\ group = [d \in Disks |-> IF Layout[d] = "lvm" THEN "source" ELSE None]
    /\ active = {} /\ mounts = {} /\ held = {}
    /\ stateFile = [path \in Paths |-> None]
    /\ runs = <<>>
    /\ faults = 0

Script(n) ==
    \/ Find(n) \/ RemoveStale(n) \/ ImportClone(n) \/ Record(n) \/ Emergency(n)
    \/ Activate(n) \/ MountVolume(n) \/ VolumesMounted(n) \/ MountDisk(n) \/ Copy(n)
    \/ Look(n) \/ ReadStateFile(n) \/ Unmount(n) \/ RemoveVG(n) \/ RemoveStateFile(n)
    \/ RemovePath(n)

Next ==
    \/ \E s \in Serials : Plug(s) \/ Detach(s)
    \/ Unplug
    \/ \E mode \in {"restore", "cleanup"}, s \in Serials : Start(mode, s)
    \/ \E n \in 1..MaxRuns : Abandon(n) \/ Die(n) \/ Script(n)
    \/ \E m \in held : Release(m)
    \/ Reboot

Spec == Init /\ [][Next]_vars

----------------------------------------------------------------------------
\* The type invariant.
HelperTypeOK ==
    /\ plugged \in Serials \cup {None}
    /\ attached \subseteq Serials
    /\ group \in [Disks -> Serials \cup {"source", None}]
    /\ active \subseteq Disks
    /\ stateFile \in [Paths -> Serials \cup {"empty", None}]
    /\ mounts \subseteq Mount /\ held \subseteq Mount
    /\ runs \in Seq(Run)
    /\ faults \in 0..MaxFaults

\* A call that ends, unless it is a manual restore that succeeded, leaves nothing
\* mounted that it has mounted, or its clean-up has returned an error, whatever other
\* calls do at the same time; but for a call that ends without its clean-up: an
\* abandoned one that dies, or one that set -e ends at mkdir (line 313) or at a state
\* file that another call has removed (line 89).
NothingLeftSilently ==
    \A m \in mounts :
        LET r == runs[m.by]
        IN r.at = "ended" =>
              r.rc = 1 \/ (r.serial \in Manual /\ r.exit = 0) \/ r.cut # None

\* The state file of its mount path names the VG on disk d, or the call that has cloned
\* it has not written the file yet, or was ended before it could.
Recorded(d) ==
    \/ stateFile[PathOf[group[d]]] = group[d]
    \/ \E n \in DOMAIN runs :
          /\ runs[n].serial = group[d]
          /\ {runs[n].at, runs[n].cut} \cap {"record", "emergency"} # {}

\* When the state file was written for the VG on disk d, a clean-up had found an older
\* one and was about to remove it.
Overtaken(d) == \E n \in DOMAIN runs : runs[n].serial = group[d] /\ runs[n].overtaken

\* The VG that a call has cloned is named by the state file of its mount path, so
\* that a clean-up finds it, and no clean-up removes the file before the VG; but for
\* a call that ends between the two, and a clean-up beside the call that had found an
\* older state file.
CloneIsRecorded ==
    \A d \in Disks : group[d] \in Serials => Recorded(d) \/ Overtaken(d)

\* The same without the second exception, as the script says ("Write state file
\* immediately so cleanup can find the cloned VG on any failure").  It does not hold:
\* README, section 4.
RecordIsKept == \A d \in Disks : group[d] \in Serials => Recorded(d)

\* An automatic restore that reports success.
ReportsCopy(r) ==
    r.at = "ended" /\ r.mode = "restore" /\ r.exit = 0 /\ r.serial \notin Manual

\* Such a restore has found the source path on a mounted disk and copied it, whichever
\* calls ran beside it.
ReportedIsCopied == \A n \in DOMAIN runs : ReportsCopy(runs[n]) => runs[n].copied # None

\* It has copied from its own disk ("copy files FROM the source volume").  It does not
\* hold of restores that share a mount path: README, section 4.
CopiedFromSource ==
    \A n \in DOMAIN runs :
        ReportsCopy(runs[n]) => runs[n].copied = DiskOf[runs[n].serial]

\* There is something to restore: a file system that can be mounted and, but for
\* manual restores, has the source path.
HasWork(s) ==
    LET d == DiskOf[s]
        usable == IF Layout[d] = "lvm" THEN Volumes[d] \ Unmountable ELSE {None}
    IN /\ Layout[d] # "blank" /\ usable # {}
       /\ s \in Manual \/ \E v \in usable : <<d, v>> \in HasSource

\* Run n is a restore that started with a free disk and a free path and failed though
\* nothing has gone wrong since.
FailsUndisturbed(n) ==
    LET r == runs[n]
    IN /\ r.at = "ended" /\ r.mode = "restore" /\ r.exit = 1
       /\ faults = r.since /\ r.free /\ HasWork(r.serial)

\* A restore of a disk in its original state succeeds when nothing fails while it runs
\* and nothing uses its disk and path: no leftover of earlier calls, which may have
\* failed, died or been given up (VGs, state files, other mounts), stops it.
FreshRestoreSucceeds == \A n \in DOMAIN runs : FailsUndisturbed(n) => ~runs[n].fresh

\* A restore may be repeated: the same holds of a disk that has been restored from
\* before (README.md: "All operations are idempotent and safe to retry").
RestoreRepeats == \A n \in DOMAIN runs : ~FailsUndisturbed(n)
=============================================================================
