------------------------- MODULE GuestHelperProofs -------------------------
(***************************************************************************)
(* The Linux helper, for any disks, volumes, paths and faults, and any     *)
(* number of calls that overlap.                                           *)
(***************************************************************************)
EXTENDS GuestHelper, SequenceTheorems, FiniteSetTheorems, TLAPS

\* What a call was given and found when it started.
SameCall(r, q) ==
    /\ q.mode = r.mode /\ q.serial = r.serial
    /\ q.free = r.free /\ q.fresh = r.fresh /\ q.since = r.since

\* What a step of run n leaves alone: the other runs, and what its call was given.
OnlyRun(n) ==
    /\ DOMAIN runs' = DOMAIN runs
    /\ \A k \in DOMAIN runs \ {n} : runs'[k] = runs[k]
    /\ SameCall(runs[n], runs'[n])

\* A command makes q of run n.
Moved(n, q) == n \in Running /\ runs' \in Seq(Run) /\ OnlyRun(n) /\ runs'[n] = q

\* A run that ends without its clean-up.
Cut(r) == [r EXCEPT !.at = "ended", !.exit = 1, !.cut = r.at]

\* A running call is a run of one of the serials, with its disk and its path.
LEMMA RunningRun ==
    ASSUME HelperTypeOK, NEW n \in Running
    PROVE  /\ n \in DOMAIN runs /\ runs[n] \in Run /\ runs[n].serial \in Serials
           /\ DiskOf[runs[n].serial] \in Disks /\ PathOf[runs[n].serial] \in Paths
           /\ runs[n].at \in Steps
<1>1. n \in DOMAIN runs /\ runs[n] \in Run /\ runs[n].at # "ended"
  BY DEF HelperTypeOK, Running
<1> QED
  BY <1>1, HelperAssumption DEF Run, Paths

\* Every run has the type.
LEMMA EachRun == HelperTypeOK => \A n \in DOMAIN runs : runs[n] \in Run
<1> SUFFICES ASSUME HelperTypeOK PROVE \A n \in DOMAIN runs : runs[n] \in Run
  OBVIOUS
<1>1. runs \in Seq(Run) /\ DOMAIN runs = 1..Len(runs)
  BY LenProperties DEF HelperTypeOK
<1> QED
  BY <1>1

\* One run replaced.
LEMMA RunReplaced ==
    ASSUME HelperTypeOK, NEW n \in Running, NEW r \in Run, SameCall(runs[n], r),
           runs' = [runs EXCEPT ![n] = r]
    PROVE  Moved(n, r)
<1>1. runs \in Seq(Run) /\ n \in DOMAIN runs
  BY RunningRun DEF HelperTypeOK
<1>2. /\ runs' \in Seq(Run) /\ DOMAIN runs' = DOMAIN runs
      /\ \A k \in DOMAIN runs : runs'[k] = IF k = n THEN r ELSE runs[k]
  BY <1>1, ExceptSeq
<1> QED
  BY <1>1, <1>2 DEF OnlyRun, Moved

\* A run that has been cut.
LEMMA CutRun ==
    ASSUME NEW r \in Run, r.at \in Steps
    PROVE  /\ Cut(r) \in Run /\ SameCall(r, Cut(r))
           /\ Cut(r).at = "ended" /\ Cut(r).exit = 1 /\ Cut(r).cut = r.at
           /\ Cut(r).overtaken = r.overtaken
  BY DEF Cut, Run, SameCall

\* The ways in which the script goes on.
LEMMA GoesOn ==
    ASSUME HelperTypeOK, NEW n \in Running, NEW step \in Steps, Goto(n, step)
    PROVE  Moved(n, [runs[n] EXCEPT !.at = step])
<1> DEFINE r == [runs[n] EXCEPT !.at = step]
<1>1. runs[n] \in Run /\ runs \in Seq(Run) /\ n \in DOMAIN runs
  BY RunningRun DEF HelperTypeOK
<1>2. r \in Run /\ SameCall(runs[n], r)
  BY <1>1 DEF Run, SameCall
<1>3. runs' = [runs EXCEPT ![n] = r]
  BY <1>1 DEF Goto
<1> QED
  BY <1>2, <1>3, RunReplaced

\* The script exits (error_exit, or the last line).
LEMMA Exits ==
    ASSUME HelperTypeOK, NEW n \in Running, NEW code \in {0, 1}, Exit(n, code)
    PROVE  Moved(n, [runs[n] EXCEPT !.at = "ended", !.exit = code])
<1> DEFINE r == [runs[n] EXCEPT !.at = "ended", !.exit = code]
<1>1. runs[n] \in Run /\ runs \in Seq(Run) /\ n \in DOMAIN runs
  BY RunningRun DEF HelperTypeOK
<1>2. r \in Run /\ SameCall(runs[n], r)
  BY <1>1 DEF Run, SameCall
<1>3. runs' = [runs EXCEPT ![n] = r]
  BY <1>1 DEF Exit
<1> QED
  BY <1>2, <1>3, RunReplaced

\* The script goes to unmount_and_cleanup with an exit code.
LEMMA Unwinds ==
    ASSUME HelperTypeOK, NEW n \in Running, NEW code \in {0, 1}, Unwind(n, code)
    PROVE  Moved(n, [runs[n] EXCEPT !.at = "look", !.exit = code])
<1> DEFINE r == [runs[n] EXCEPT !.at = "look", !.exit = code]
<1>1. runs[n] \in Run /\ runs \in Seq(Run) /\ n \in DOMAIN runs
  BY RunningRun DEF HelperTypeOK
<1>2. r \in Run /\ SameCall(runs[n], r)
  BY <1>1 DEF Run, SameCall, Steps
<1>3. runs' = [runs EXCEPT ![n] = r]
  BY <1>1 DEF Unwind
<1> QED
  BY <1>2, <1>3, RunReplaced

\* The script is cut off.
LEMMA CutsOff ==
    ASSUME HelperTypeOK, NEW n \in Running, CutOff(n)
    PROVE  Moved(n, Cut(runs[n]))
<1>1. runs[n] \in Run /\ runs[n].at \in Steps /\ runs \in Seq(Run) /\ n \in DOMAIN runs
  BY RunningRun DEF HelperTypeOK
<1>2. runs' = [runs EXCEPT ![n] = Cut(runs[n])]
  BY <1>1 DEF CutOff, Cut
<1> QED
  BY <1>1, <1>2, CutRun, RunReplaced

\* What Find does to the run.
LEMMA FindMoves ==
    ASSUME HelperTypeOK, NEW n, Find(n)
    PROVE  \/ Moved(n, [runs[n] EXCEPT !.at = "ended", !.exit = 1])
           \/ /\ Layout[DiskOf[runs[n].serial]] = "lvm"
              /\ Moved(n, [runs[n] EXCEPT !.at = "stale"])
           \/ /\ Layout[DiskOf[runs[n].serial]] # "lvm"
              /\ Moved(n, [runs[n] EXCEPT !.at = "mount"])
  BY GoesOn, Exits DEF Find, At, Steps

\* What RemoveStale does to the run.
LEMMA StaleMoves ==
    ASSUME HelperTypeOK, NEW n, RemoveStale(n)
    PROVE  \/ Moved(n, [runs[n] EXCEPT !.at = "ended", !.exit = 1])
           \/ Moved(n, [runs[n] EXCEPT !.at = "import"])
  BY GoesOn, Exits DEF RemoveStale, At, Steps

\* What ImportClone does to the run and the volume groups.
LEMMA ImportMoves ==
    ASSUME HelperTypeOK, NEW n, ImportClone(n)
    PROVE  \/ /\ group' = group
              /\ Moved(n, [runs[n] EXCEPT !.at = "ended", !.exit = 1])
           \/ /\ group' = [group EXCEPT ![DiskOf[runs[n].serial]] = runs[n].serial]
              /\ Moved(n, [runs[n] EXCEPT !.at = "record"])
  BY GoesOn, Exits DEF ImportClone, At, Steps

\* Another run is about to remove the state file of run n.
Forgotten(n) == \E m \in Running : WillForget(runs[m], PathOf[runs[n].serial])

\* What Record does to the run and the state file.
LEMMA RecordMoves ==
    ASSUME HelperTypeOK, NEW n, Record(n)
    PROVE  \/ /\ stateFile' = [stateFile EXCEPT ![PathOf[runs[n].serial]] = runs[n].serial]
              /\ Moved(n, [runs[n] EXCEPT !.at = "activate", !.overtaken = Forgotten(n)])
           \/ /\ stateFile' \in
                    {stateFile, [stateFile EXCEPT ![PathOf[runs[n].serial]] = "empty"]}
              /\ Moved(n, [runs[n] EXCEPT !.at = "emergency"])
<1> DEFINE b == Forgotten(n)
           r == [runs[n] EXCEPT !.at = "activate", !.overtaken = b]
<1>1. n \in Running /\ runs[n] \in Run /\ runs \in Seq(Run) /\ n \in DOMAIN runs
  BY RunningRun DEF Record, At, HelperTypeOK
<1>2. b \in BOOLEAN
  BY DEF Forgotten
<1>3. \/ /\ stateFile' = [stateFile EXCEPT ![PathOf[runs[n].serial]] = runs[n].serial]
         /\ runs' = [runs EXCEPT ![n].at = "activate", ![n].overtaken = b]
      \/ /\ stateFile' \in
                    {stateFile, [stateFile EXCEPT ![PathOf[runs[n].serial]] = "empty"]}
         /\ Goto(n, "emergency")
  BY DEF Record, Forgotten
<1> HIDE DEF b
<1>4. r \in Run /\ SameCall(runs[n], r)
  BY <1>1, <1>2 DEF Run, SameCall, Steps
<1>5. runs' = [runs EXCEPT ![n].at = "activate", ![n].overtaken = b] => Moved(n, r)
  BY <1>1, <1>4, RunReplaced
<1> QED
  BY <1>1, <1>3, <1>5, GoesOn DEF b, Steps

\* What Emergency does to the run and the volume groups.
LEMMA EmergencyMoves ==
    ASSUME HelperTypeOK, NEW n, Emergency(n)
    PROVE  \/ /\ VGRemoved(runs[n].serial)
              /\ Moved(n, [runs[n] EXCEPT !.at = "ended", !.exit = 1])
           \/ /\ VGKept(runs[n].serial)
              /\ Moved(n, Cut(runs[n]))
  BY CutsOff, Exits DEF Emergency, At

\* What Activate does to the run and the active groups.
LEMMA ActivateMoves ==
    ASSUME HelperTypeOK, NEW n, Activate(n)
    PROVE  \/ /\ VGExists(runs[n].serial)
              /\ active' = active \cup {DiskOf[runs[n].serial]}
              /\ Moved(n, [runs[n] EXCEPT !.at = "volumes",
                                          !.todo = Volumes[DiskOf[runs[n].serial]]])
           \/ /\ active' = active \/ /\ VGExists(runs[n].serial)
                                     /\ active' = active \cup {DiskOf[runs[n].serial]}
              /\ Moved(n, [runs[n] EXCEPT !.at = "look", !.exit = 1])
<1> DEFINE r == [runs[n] EXCEPT !.at = "volumes", !.todo = Volumes[DiskOf[runs[n].serial]]]
<1>1. /\ n \in Running /\ runs[n] \in Run /\ runs \in Seq(Run) /\ n \in DOMAIN runs
      /\ Volumes[DiskOf[runs[n].serial]] \subseteq AllVolumes
  BY RunningRun DEF Activate, At, HelperTypeOK, AllVolumes
<1>2. r \in Run /\ SameCall(runs[n], r)
  BY <1>1 DEF Run, SameCall, Steps
<1>3. runs' = [runs EXCEPT ![n].at = "volumes", ![n].todo = Volumes[DiskOf[runs[n].serial]]]
      => Moved(n, r)
  BY <1>1, <1>2, RunReplaced
<1> QED
  BY <1>1, <1>3, Unwinds DEF Activate

\* What MountVolume does to the run and the mount table.
LEMMA MountVolumeMoves ==
    ASSUME HelperTypeOK, NEW n, MountVolume(n)
    PROVE  \E v \in runs[n].todo :
              \/ /\ Mountable(n, v) /\ mounts' = mounts \cup {Target(n, v)}
                 /\ Moved(n, [runs[n] EXCEPT !.todo = @ \ {v}, !.mounted = TRUE])
              \/ /\ mounts' = mounts
                 /\ Mountable(n, v) => faults' = faults + 1
                 /\ Moved(n, [runs[n] EXCEPT !.todo = @ \ {v}])
              \/ /\ mounts' = mounts
                 /\ NoDirectory(Target(n, v)) \/ faults' = faults + 1
                 /\ Moved(n, Cut(runs[n]))
<1>1. n \in Running /\ runs[n] \in Run /\ runs \in Seq(Run) /\ n \in DOMAIN runs
  BY RunningRun DEF MountVolume, At, HelperTypeOK
<1>2. PICK v \in runs[n].todo :
         \/ /\ Mountable(n, v)
            /\ mounts' = mounts \cup {Target(n, v)}
            /\ runs' = [runs EXCEPT ![n].todo = @ \ {v}, ![n].mounted = TRUE]
         \/ /\ Mountable(n, v) => faults' = faults + 1
            /\ runs' = [runs EXCEPT ![n].todo = @ \ {v}]
            /\ UNCHANGED mounts
         \/ /\ NoDirectory(Target(n, v)) \/ faults' = faults + 1
            /\ CutOff(n)
            /\ UNCHANGED mounts
  BY DEF MountVolume, Fault
<1> DEFINE r == [runs[n] EXCEPT !.todo = @ \ {v}, !.mounted = TRUE]
           q == [runs[n] EXCEPT !.todo = @ \ {v}]
<1>3. r \in Run /\ SameCall(runs[n], r)
  BY <1>1 DEF Run, SameCall
<1>4. q \in Run /\ SameCall(runs[n], q)
  BY <1>1 DEF Run, SameCall
<1>5. runs' = [runs EXCEPT ![n].todo = @ \ {v}, ![n].mounted = TRUE] => Moved(n, r)
  BY <1>1, <1>3, RunReplaced
<1>6. runs' = [runs EXCEPT ![n].todo = @ \ {v}] => Moved(n, q)
  BY <1>1, <1>4, RunReplaced
<1> QED
  BY <1>1, <1>2, <1>5, <1>6, CutsOff

\* After the mounts a manual restore ends and an automatic one copies.
LEMMA ContinueMoves ==
    ASSUME HelperTypeOK, NEW n \in Running, Continue(n)
    PROVE  \/ /\ runs[n].serial \in Manual
              /\ Moved(n, [runs[n] EXCEPT !.at = "ended", !.exit = 0])
           \/ /\ runs[n].serial \notin Manual
              /\ Moved(n, [runs[n] EXCEPT !.at = "copy"])
  BY GoesOn, Exits DEF Continue, Steps

\* What VolumesMounted does to the run.
LEMMA VolumesMountedMoves ==
    ASSUME HelperTypeOK, NEW n, VolumesMounted(n)
    PROVE  \/ ~runs[n].mounted /\ Moved(n, [runs[n] EXCEPT !.at = "look", !.exit = 1])
           \/ /\ runs[n].serial \in Manual
              /\ Moved(n, [runs[n] EXCEPT !.at = "ended", !.exit = 0])
           \/ /\ runs[n].serial \notin Manual
              /\ Moved(n, [runs[n] EXCEPT !.at = "copy"])
  BY ContinueMoves, Unwinds DEF VolumesMounted, At

\* What MountDisk does to the run and the mount table.
LEMMA MountDiskMoves ==
    ASSUME HelperTypeOK, NEW n, MountDisk(n)
    PROVE  \/ /\ mounts' = mounts /\ (Mountable(n, None) => faults' = faults + 1)
              /\ Moved(n, [runs[n] EXCEPT !.at = "ended", !.exit = 1])
           \/ /\ Mountable(n, None) /\ mounts' = mounts \cup {Target(n, None)}
              /\ \/ /\ runs[n].serial \in Manual
                    /\ Moved(n, [runs[n] EXCEPT !.at = "ended", !.exit = 0])
                 \/ /\ runs[n].serial \notin Manual
                    /\ Moved(n, [runs[n] EXCEPT !.at = "copy"])
  BY ContinueMoves, Exits DEF MountDisk, At, Fault

\* What a run finds its source path on.
Sources(n) ==
    LET s == runs[n].serial
        found == IF Several(s)
                 THEN {m \in mounts : /\ m.path = PathOf[s] /\ m.below /\ ~Covered(m)
                                      /\ m.volume \in Volumes[DiskOf[s]]}
                 ELSE Top(PathOf[s])
    IN {m \in found : <<m.disk, m.volume>> \in HasSource}

\* What Copy does to the run: the files come from a mounted disk.
LEMMA CopyMoves ==
    ASSUME HelperTypeOK, NEW n, Copy(n)
    PROVE  \/ \E d \in Disks :
                 Moved(n, [runs[n] EXCEPT !.copied = d, !.at = "look"])
           \/ /\ Sources(n) # {} => faults' = faults + 1
              /\ Moved(n, [runs[n] EXCEPT !.at = "look", !.exit = 1])
<1>1. n \in Running /\ runs[n] \in Run /\ runs \in Seq(Run) /\ n \in DOMAIN runs
  BY RunningRun DEF Copy, At, HelperTypeOK
<1>2. ASSUME NEW m \in Sources(n),
             runs' = [runs EXCEPT ![n].copied = m.disk, ![n].at = "look"]
      PROVE  \E d \in Disks : Moved(n, [runs[n] EXCEPT !.copied = d, !.at = "look"])
  <2>1. m \in mounts
    BY <1>2 DEF Sources, Top
  <2>2. m.disk \in Disks
    BY <2>1 DEF HelperTypeOK, Mount
  <2> DEFINE r == [runs[n] EXCEPT !.copied = m.disk, !.at = "look"]
  <2>3. r \in Run /\ SameCall(runs[n], r)
    BY <1>1, <2>2 DEF Run, SameCall, Steps
  <2>4. runs' = [runs EXCEPT ![n] = r]
    BY <1>1, <1>2
  <2>5. Moved(n, r)
    BY <1>1, <2>3, <2>4, RunReplaced
  <2> QED
    BY <2>2, <2>5
<1>3. CASE /\ (Sources(n) = {} /\ UNCHANGED faults) \/ Fault("copy")
           /\ Unwind(n, 1)
  BY <1>1, <1>3, Unwinds DEF Fault
<1>4. \/ \E m \in Sources(n) :
            runs' = [runs EXCEPT ![n].copied = m.disk, ![n].at = "look"]
      \/ /\ (Sources(n) = {} /\ UNCHANGED faults) \/ Fault("copy")
         /\ Unwind(n, 1)
  BY DEF Copy, Sources
<1> QED
  BY <1>2, <1>3, <1>4

\* What Look does to the run.
LEMMA LookMoves ==
    ASSUME HelperTypeOK, NEW n, Look(n)
    PROVE  \/ /\ stateFile[PathOf[runs[n].serial]] = None
              /\ Moved(n, [runs[n] EXCEPT !.at = "unmount"])
           \/ /\ stateFile[PathOf[runs[n].serial]] # None
              /\ Moved(n, [runs[n] EXCEPT !.at = "read"])
  BY GoesOn DEF Look, At, Steps

\* What ReadStateFile does to the run: a file that has gone is read as an empty one,
\* but for a restore that fails.
LEMMA ReadMoves ==
    ASSUME HelperTypeOK, NEW n, ReadStateFile(n)
    PROVE  LET f == stateFile[PathOf[runs[n].serial]]
           IN \/ /\ f = None /\ runs[n].exit = 1
                 /\ Moved(n, Cut(runs[n]))
              \/ \E vg \in Serials \cup {"empty"} :
                    /\ vg = (IF f = None THEN "empty" ELSE f)
                    /\ Moved(n, [runs[n] EXCEPT !.at = "unmount", !.vg = vg])
<1> DEFINE f == stateFile[PathOf[runs[n].serial]]
           vg == IF f = None THEN "empty" ELSE f
           r == [runs[n] EXCEPT !.at = "unmount", !.vg = vg]
<1>1. /\ n \in Running /\ runs[n] \in Run /\ runs \in Seq(Run) /\ n \in DOMAIN runs
      /\ f \in Serials \cup {"empty", None}
  BY RunningRun DEF ReadStateFile, At, HelperTypeOK
<1>2. vg \in Serials \cup {"empty"}
  BY <1>1
<1>3. \/ f = None /\ runs[n].exit = 1 /\ CutOff(n)
      \/ runs' = [runs EXCEPT ![n].at = "unmount", ![n].vg = vg]
  BY DEF ReadStateFile
<1>4. r \in Run /\ SameCall(runs[n], r)
  <2> HIDE DEF vg
  <2> QED
    BY <1>1, <1>2 DEF Run, SameCall, Steps
<1>5. runs' = [runs EXCEPT ![n].at = "unmount", ![n].vg = vg] => Moved(n, r)
  <2> HIDE DEF vg
  <2> QED
    BY <1>1, <1>4, RunReplaced
<1> QED
  BY <1>1, <1>2, <1>3, <1>5, CutsOff

\* What Unmount does to the run and the mount table.
LEMMA UnmountMoves ==
    ASSUME HelperTypeOK, NEW n, Unmount(n)
    PROVE  /\ mounts' \subseteq mounts /\ held' \subseteq held \cup mounts
           /\ faults' \in {faults, faults + 1} /\ (faults' # faults => Fault("umount"))
           /\ \/ runs[n].vg \in Serials /\ Moved(n, [runs[n] EXCEPT !.at = "vg"])
              \/ runs[n].vg = "empty" /\ Moved(n, [runs[n] EXCEPT !.at = "forget"])
              \/ runs[n].vg = None /\ Moved(n, [runs[n] EXCEPT !.at = "remove"])
<1> DEFINE here == Unmounts(PathOf[runs[n].serial], runs[n].vg)
<1>1. /\ n \in Running /\ runs[n] \in Run
      /\ runs[n].vg \in Serials \cup {"empty", None}
  BY RunningRun DEF Unmount, At, Run
<1>2. here \subseteq mounts
  BY DEF Unmounts, Top
<1>3. \/ \E busy \in SUBSET here : /\ mounts' = mounts \ here
                                   /\ held' = held \cup busy
                                   /\ UNCHANGED faults
      \/ \E stay \in SUBSET here : /\ stay # {} /\ Fault("umount")
                                   /\ mounts' = mounts \ (here \ stay)
                                   /\ UNCHANGED held
  BY DEF Unmount
<1>4. /\ mounts' \subseteq mounts /\ held' \subseteq held \cup mounts
      /\ faults' \in {faults, faults + 1} /\ (faults' # faults => Fault("umount"))
  <2> HIDE DEF here
  <2> QED
    BY <1>2, <1>3 DEF Fault
<1>5. \/ runs[n].vg \in Serials /\ Goto(n, "vg")
      \/ runs[n].vg = "empty" /\ Goto(n, "forget")
      \/ runs[n].vg = None /\ Goto(n, "remove")
  BY <1>1 DEF Unmount
<1> QED
  BY <1>1, <1>4, <1>5, GoesOn DEF Steps

\* What RemoveVG does to the run and the volume groups.
LEMMA RemoveVGMoves ==
    ASSUME HelperTypeOK, NEW n, RemoveVG(n)
    PROVE  \/ /\ VGRemoved(runs[n].vg)
              /\ Moved(n, [runs[n] EXCEPT !.at = "forget"])
           \/ /\ VGKept(runs[n].vg)
              /\ Moved(n, [runs[n] EXCEPT !.at = "remove", !.rc = 1])
<1> DEFINE r == [runs[n] EXCEPT !.at = "remove", !.rc = 1]
<1>1. n \in Running /\ runs[n] \in Run /\ runs \in Seq(Run) /\ n \in DOMAIN runs
  BY RunningRun DEF RemoveVG, At, HelperTypeOK
<1>2. r \in Run /\ SameCall(runs[n], r)
  BY <1>1 DEF Run, SameCall, Steps
<1>3. runs' = [runs EXCEPT ![n].at = "remove", ![n].rc = 1] => Moved(n, r)
  BY <1>1, <1>2, RunReplaced
<1> QED
  BY <1>1, <1>3, GoesOn DEF RemoveVG, Steps

\* What RemoveStateFile does to the run and the state file.
LEMMA ForgetMoves ==
    ASSUME HelperTypeOK, NEW n, RemoveStateFile(n)
    PROVE  /\ stateFile' = [stateFile EXCEPT ![PathOf[runs[n].serial]] = None]
           /\ Moved(n, [runs[n] EXCEPT !.at = "remove"])
  BY GoesOn DEF RemoveStateFile, At, Steps

\* What RemovePath does to the run: a mount that is left is an error.
LEMMA RemovePathMoves ==
    ASSUME HelperTypeOK, NEW n, RemovePath(n)
    PROVE  \E rc \in {0, 1} :
              /\ (\E m \in mounts : m.path = PathOf[runs[n].serial]) => rc = 1
              /\ Moved(n, [runs[n] EXCEPT !.at = "ended", !.rc = rc,
                              !.exit = IF runs[n].mode = "cleanup" THEN rc ELSE @])
<1> DEFINE rc == IF \E m \in mounts : m.path = PathOf[runs[n].serial] THEN 1 ELSE runs[n].rc
           r == [runs[n] EXCEPT !.at = "ended", !.rc = rc,
                     !.exit = IF runs[n].mode = "cleanup" THEN rc ELSE @]
<1>1. n \in Running /\ runs[n] \in Run /\ runs \in Seq(Run) /\ n \in DOMAIN runs
  BY RunningRun DEF RemovePath, At, HelperTypeOK
<1>2. rc \in {0, 1} /\ ((\E m \in mounts : m.path = PathOf[runs[n].serial]) => rc = 1)
  BY <1>1 DEF Run
<1>3. runs' = [runs EXCEPT ![n] = r]
  BY <1>1 DEF RemovePath
<1> HIDE DEF rc
<1>4. r \in Run /\ SameCall(runs[n], r)
  BY ZenonT(60), <1>1, <1>2 DEF Run, SameCall
<1>5. Moved(n, r)
  BY <1>1, <1>3, <1>4, RunReplaced
<1> QED
  BY <1>2, <1>5

\* A call starts.
LEMMA StartMoves ==
    ASSUME HelperTypeOK, NEW mode \in {"restore", "cleanup"}, NEW s \in Serials,
           Start(mode, s)
    PROVE  LET n == Len(runs) + 1
           IN /\ runs' \in Seq(Run) /\ n \notin DOMAIN runs
              /\ DOMAIN runs' = DOMAIN runs \cup {n}
              /\ \A k \in DOMAIN runs : runs'[k] = runs[k]
              /\ runs'[n] = Started(mode, s) /\ Started(mode, s) \in Run
<1>1. Started(mode, s) \in Run
  BY DEF Started, Run, Steps, HelperTypeOK
<1>2. runs \in Seq(Run) /\ runs' = Append(runs, Started(mode, s))
  BY DEF Start, HelperTypeOK
<1>3. /\ runs' \in Seq(Run) /\ Len(runs') = Len(runs) + 1
      /\ \A k \in 1..Len(runs) : runs'[k] = runs[k]
      /\ runs'[Len(runs) + 1] = Started(mode, s)
  BY <1>1, <1>2, AppendProperties
<1>4. /\ Len(runs) \in Nat /\ DOMAIN runs = 1..Len(runs) /\ DOMAIN runs' = 1..Len(runs')
  BY <1>2, <1>3, LenProperties
<1> QED
  BY <1>1, <1>3, <1>4

\* The controller gives a call up.
LEMMA AbandonMoves ==
    ASSUME HelperTypeOK, NEW n, Abandon(n)
    PROVE  Moved(n, [runs[n] EXCEPT !.orphan = TRUE])
<1> DEFINE r == [runs[n] EXCEPT !.orphan = TRUE]
<1>1. n \in Running /\ runs[n] \in Run /\ runs \in Seq(Run) /\ n \in DOMAIN runs
  BY RunningRun DEF Abandon, HelperTypeOK
<1>2. r \in Run /\ SameCall(runs[n], r)
  BY <1>1 DEF Run, SameCall
<1>3. runs' = [runs EXCEPT ![n] = r]
  BY <1>1 DEF Abandon
<1> QED
  BY <1>1, <1>2, <1>3, RunReplaced

\* A call that was given up dies.
LEMMA DieMoves ==
    ASSUME HelperTypeOK, NEW n, Die(n)
    PROVE  runs[n].orphan /\ Moved(n, Cut(runs[n]))
  BY CutsOff DEF Die

\* The guest restarts: every run that is not over is cut.
LEMMA RebootMoves ==
    ASSUME HelperTypeOK, Reboot
    PROVE  /\ runs' \in Seq(Run) /\ DOMAIN runs' = DOMAIN runs
           /\ \A n \in DOMAIN runs :
                 runs'[n] = IF n \in Running THEN Cut(runs[n]) ELSE runs[n]
<1>1. runs \in Seq(Run) /\ Len(runs) \in Nat /\ DOMAIN runs = 1..Len(runs)
  BY LenProperties DEF HelperTypeOK
<1>2. \A n \in DOMAIN runs : runs[n] \in Run
  BY <1>1
<1>3. \A n \in Running : Cut(runs[n]) \in Run
  BY RunningRun, CutRun
<1>4. runs' = [n \in DOMAIN runs |-> IF n \in Running THEN Cut(runs[n]) ELSE runs[n]]
  BY DEF Reboot, Cut
<1>5. runs' \in [1..Len(runs) -> Run]
  BY <1>1, <1>2, <1>3, <1>4
<1>6. runs' \in Seq(Run)
  BY <1>1, <1>5, SeqDef
<1> QED
  BY <1>4, <1>6

----------------------------------------------------------------------------
(***************************************************************************)
(* Type correctness: a run that removes a volume group has read its name.  *)
(***************************************************************************)

NamesGroup(r) == r.at = "vg" => r.vg \in Serials

GroupsNamed == \A n \in DOMAIN runs : NamesGroup(runs[n])

\* Only the run that moves has to be looked at.
LEMMA NamedByMover ==
    ASSUME GroupsNamed, NEW n, NEW q, Moved(n, q), NamesGroup(q)
    PROVE  GroupsNamed'
  BY DEF GroupsNamed, Moved, OnlyRun

\* A fault is counted.
LEMMA FaultCounts ==
    ASSUME HelperTypeOK, NEW kind, Fault(kind)
    PROVE  faults' \in 0..MaxFaults /\ faults' = faults + 1
  BY HelperAssumption DEF HelperTypeOK, Fault

\* The removal of a volume group keeps the types.
LEMMA VGType ==
    ASSUME HelperTypeOK, NEW s \in Serials, VGRemoved(s) \/ VGKept(s)
    PROVE  /\ group' \in [Disks -> Serials \cup {"source", None}]
           /\ active' \subseteq Disks /\ faults' \in 0..MaxFaults
<1>1. CASE VGRemoved(s)
  BY <1>1, HelperAssumption DEF VGRemoved, HelperTypeOK
<1>2. CASE VGKept(s)
  BY <1>2, FaultCounts, HelperAssumption DEF VGKept, HelperTypeOK
<1> QED
  BY <1>1, <1>2

\* What a call mounts is a mount.
LEMMA TargetType ==
    ASSUME HelperTypeOK, NEW n \in Running, n \in 1..MaxRuns,
           NEW v \in AllVolumes \cup {None}
    PROVE  Target(n, v) \in Mount
<1> DEFINE s == runs[n].serial
           there == {m \in mounts : m.path = PathOf[s] /\ m.below = Several(s)
                                                     /\ (m.below => m.volume = v)}
           over == {m.by : m \in there}
<1>1. Several(s) \in BOOLEAN
  BY DEF Several
<1>2. DiskOf[s] \in Disks /\ PathOf[s] \in Paths
  BY RunningRun
<1>3. over \subseteq 1..MaxRuns
  BY DEF HelperTypeOK, Mount
<1>4. Target(n, v) = [disk |-> DiskOf[s], volume |-> v, path |-> PathOf[s],
                      below |-> Several(s), by |-> n, over |-> over]
  BY DEF Target
<1> QED
  <2> HIDE DEF over
  <2> QED BY <1>1, <1>2, <1>3, <1>4 DEF Mount

\* The guest starts well typed.
LEMMA HelperInitType == Init => HelperTypeOK
<1> SUFFICES ASSUME Init PROVE HelperTypeOK
  OBVIOUS
<1>1. runs \in Seq(Run)
  BY EmptySeq DEF Init
<1> QED
  BY <1>1, HelperAssumption DEF Init, HelperTypeOK

\* Every command of the script keeps the types.
LEMMA ScriptType ==
    ASSUME HelperTypeOK, GroupsNamed, NEW n \in 1..MaxRuns, Script(n)
    PROVE  HelperTypeOK'
<1> DEFINE s == runs[n].serial
<1>r. ASSUME n \in Running PROVE s \in Serials /\ DiskOf[s] \in Disks /\ PathOf[s] \in Paths
  BY <1>r, RunningRun
<1>1. CASE Find(n)
  <2>1. runs' \in Seq(Run)
    BY <1>1, FindMoves DEF Moved
  <2>2. faults' \in 0..MaxFaults
    BY <1>1, FaultCounts DEF Find, HelperTypeOK
  <2> QED
    BY <1>1, <2>1, <2>2 DEF Find, HelperTypeOK
<1>2. CASE RemoveStale(n)
  <2>1. runs' \in Seq(Run) /\ s \in Serials
    BY <1>2, <1>r, StaleMoves DEF Moved
  <2>2. /\ group' \in [Disks -> Serials \cup {"source", None}]
        /\ active' \subseteq Disks /\ faults' \in 0..MaxFaults
    BY <1>2, <2>1, VGType DEF RemoveStale, HelperTypeOK
  <2> QED
    BY <1>2, <2>1, <2>2 DEF RemoveStale, HelperTypeOK
<1>3. CASE ImportClone(n)
  <2>1. runs' \in Seq(Run) /\ s \in Serials /\ DiskOf[s] \in Disks
    BY <1>3, <1>r, ImportMoves DEF Moved
  <2>2. group' \in [Disks -> Serials \cup {"source", None}]
    BY <1>3, <2>1, ImportMoves DEF HelperTypeOK
  <2>3. faults' \in 0..MaxFaults
    BY <1>3, FaultCounts DEF ImportClone, HelperTypeOK
  <2> QED
    BY <1>3, <2>1, <2>2, <2>3 DEF ImportClone, HelperTypeOK
<1>4. CASE Record(n)
  <2>1. runs' \in Seq(Run) /\ s \in Serials /\ PathOf[s] \in Paths
    BY <1>4, <1>r, RecordMoves DEF Moved
  <2>2. stateFile' \in [Paths -> Serials \cup {"empty", None}]
    BY <1>4, <2>1, RecordMoves DEF HelperTypeOK
  <2>3. faults' \in 0..MaxFaults
    BY <1>4, FaultCounts DEF Record, HelperTypeOK
  <2> QED
    BY <1>4, <2>1, <2>2, <2>3 DEF Record, HelperTypeOK
<1>5. CASE Emergency(n)
  <2>1. runs' \in Seq(Run) /\ s \in Serials
    BY <1>5, <1>r, EmergencyMoves DEF Moved
  <2>2. /\ group' \in [Disks -> Serials \cup {"source", None}]
        /\ active' \subseteq Disks /\ faults' \in 0..MaxFaults
    BY <1>5, <2>1, VGType DEF Emergency
  <2> QED
    BY <1>5, <2>1, <2>2 DEF Emergency, HelperTypeOK
<1>6. CASE Activate(n)
  <2>1. runs' \in Seq(Run) /\ s \in Serials /\ DiskOf[s] \in Disks
    BY <1>6, <1>r, ActivateMoves DEF Moved
  <2>a. active' \in {active, active \cup {DiskOf[s]}}
    BY <1>6, ActivateMoves
  <2>2. active' \subseteq Disks
    BY <2>a, <2>1 DEF HelperTypeOK
  <2>3. faults' \in 0..MaxFaults
    BY <1>6, FaultCounts DEF Activate, HelperTypeOK
  <2> QED
    BY <1>6, <2>1, <2>2, <2>3 DEF Activate, HelperTypeOK
<1>7. CASE MountVolume(n)
  <2>1. n \in Running /\ runs' \in Seq(Run)
    BY <1>7, MountVolumeMoves DEF Moved
  <2>2. runs[n].todo \subseteq AllVolumes
    BY <2>1, RunningRun DEF Run
  <2>a. mounts' = mounts \/ \E v \in runs[n].todo : mounts' = mounts \cup {Target(n, v)}
    BY <1>7, MountVolumeMoves
  <2>b. \A v \in runs[n].todo : Target(n, v) \in Mount
    BY <2>1, <2>2, TargetType
  <2>3. mounts' \subseteq Mount
    BY <2>a, <2>b DEF HelperTypeOK
  <2>4. faults' \in 0..MaxFaults
    BY <1>7, FaultCounts DEF MountVolume, HelperTypeOK
  <2> QED
    BY <1>7, <2>1, <2>3, <2>4 DEF MountVolume, HelperTypeOK
<1>8. CASE VolumesMounted(n)
  BY <1>8, VolumesMountedMoves DEF VolumesMounted, HelperTypeOK, Moved
<1>9. CASE MountDisk(n)
  <2>1. n \in Running /\ runs' \in Seq(Run)
    BY <1>9, MountDiskMoves DEF Moved
  <2>a. mounts' \in {mounts, mounts \cup {Target(n, None)}}
    BY <1>9, MountDiskMoves
  <2>b. Target(n, None) \in Mount
    BY <2>1, TargetType
  <2>2. mounts' \subseteq Mount
    BY <2>a, <2>b DEF HelperTypeOK
  <2>3. faults' \in 0..MaxFaults
    BY <1>9, FaultCounts DEF MountDisk, HelperTypeOK
  <2> QED
    BY <1>9, <2>1, <2>2, <2>3 DEF MountDisk, HelperTypeOK
<1>10. CASE Copy(n)
  <2>1. runs' \in Seq(Run)
    BY <1>10, CopyMoves DEF Moved
  <2>2. faults' \in 0..MaxFaults
    BY <1>10, FaultCounts DEF Copy, HelperTypeOK
  <2> QED
    BY <1>10, <2>1, <2>2 DEF Copy, HelperTypeOK
<1>11. CASE Look(n)
  BY <1>11, LookMoves DEF Look, HelperTypeOK, Moved
<1>12. CASE ReadStateFile(n)
  <2>1. runs' \in Seq(Run)
    BY <1>12, ReadMoves DEF Moved
  <2> QED
    BY <1>12, <2>1 DEF ReadStateFile, HelperTypeOK
<1>13. CASE Unmount(n)
  <2>1. /\ mounts' \subseteq mounts /\ held' \subseteq held \cup mounts
        /\ faults' # faults => Fault("umount")
        /\ runs' \in Seq(Run)
    BY <1>13, UnmountMoves DEF Moved
  <2>2. faults' \in 0..MaxFaults
    BY <2>1, FaultCounts DEF HelperTypeOK
  <2> QED
    BY <1>13, <2>1, <2>2 DEF Unmount, HelperTypeOK
<1>14. CASE RemoveVG(n)
  <2>1. runs' \in Seq(Run)
    BY <1>14, RemoveVGMoves DEF Moved
  <2>2. runs[n].vg \in Serials
    BY <1>14 DEF RemoveVG, At, Running, GroupsNamed, NamesGroup
  <2>3. /\ group' \in [Disks -> Serials \cup {"source", None}]
        /\ active' \subseteq Disks /\ faults' \in 0..MaxFaults
    BY <1>14, <2>2, VGType DEF RemoveVG
  <2> QED
    BY <1>14, <2>1, <2>3 DEF RemoveVG, HelperTypeOK
<1>15. CASE RemoveStateFile(n)
  <2>1. /\ runs' \in Seq(Run) /\ n \in Running
        /\ stateFile' = [stateFile EXCEPT ![PathOf[s]] = None]
    BY <1>15, ForgetMoves DEF Moved
  <2>2. stateFile' \in [Paths -> Serials \cup {"empty", None}]
    BY <2>1, <1>r DEF HelperTypeOK
  <2> QED
    BY <1>15, <2>1, <2>2 DEF RemoveStateFile, HelperTypeOK
<1>16. CASE RemovePath(n)
  BY <1>16, RemovePathMoves DEF RemovePath, HelperTypeOK, Moved
<1> QED
  BY <1>1, <1>2, <1>3, <1>4, <1>5, <1>6, <1>7, <1>8, <1>9, <1>10, <1>11, <1>12, <1>13,
     <1>14, <1>15, <1>16
     DEF Script

\* Every command keeps GroupsNamed.
LEMMA ScriptNames ==
    ASSUME HelperTypeOK, GroupsNamed, NEW n \in 1..MaxRuns, Script(n)
    PROVE  GroupsNamed'
<1>r. ASSUME n \in Running PROVE runs[n] \in Run
  BY <1>r, RunningRun
<1>c. n \in Running => NamesGroup(Cut(runs[n]))
  BY RunningRun, CutRun DEF NamesGroup
<1>1. CASE Find(n)
  BY <1>1, FindMoves, NamedByMover, <1>r DEF Moved, NamesGroup, Run
<1>2. CASE RemoveStale(n)
  BY <1>2, StaleMoves, NamedByMover, <1>r DEF Moved, NamesGroup, Run
<1>3. CASE ImportClone(n)
  BY <1>3, ImportMoves, NamedByMover, <1>r DEF Moved, NamesGroup, Run
<1>4. CASE Record(n)
  BY <1>4, RecordMoves, NamedByMover, <1>r DEF Moved, NamesGroup, Run
<1>5. CASE Emergency(n)
  BY <1>5, EmergencyMoves, NamedByMover, <1>c, <1>r DEF Moved, NamesGroup, Run
<1>6. CASE Activate(n)
  BY <1>6, ActivateMoves, NamedByMover, <1>r DEF Moved, NamesGroup, Run
<1>7. CASE MountVolume(n)
  <2>1. n \in Running /\ runs[n] \in Run /\ runs[n].at = "volumes"
    BY <1>7, <1>r DEF MountVolume, At
  <2>2. PICK v \in runs[n].todo :
           \/ Moved(n, [runs[n] EXCEPT !.todo = @ \ {v}, !.mounted = TRUE])
           \/ Moved(n, [runs[n] EXCEPT !.todo = @ \ {v}])
           \/ Moved(n, Cut(runs[n]))
    BY <1>7, MountVolumeMoves
  <2>3. /\ NamesGroup([runs[n] EXCEPT !.todo = @ \ {v}, !.mounted = TRUE])
        /\ NamesGroup([runs[n] EXCEPT !.todo = @ \ {v}])
    BY <2>1 DEF NamesGroup, Run
  <2> QED
    BY <1>c, <2>1, <2>2, <2>3, NamedByMover
<1>8. CASE VolumesMounted(n)
  BY <1>8, VolumesMountedMoves, NamedByMover, <1>r DEF Moved, NamesGroup, Run
<1>9. CASE MountDisk(n)
  BY <1>9, MountDiskMoves, NamedByMover, <1>r DEF Moved, NamesGroup, Run
<1>10. CASE Copy(n)
  BY <1>10, CopyMoves, NamedByMover, <1>r DEF Moved, NamesGroup, Run
<1>11. CASE Look(n)
  BY <1>11, LookMoves, NamedByMover, <1>r DEF Moved, NamesGroup, Run
<1>12. CASE ReadStateFile(n)
  <2>1. n \in Running /\ runs[n] \in Run
    BY <1>12, <1>r DEF ReadStateFile, At
  <2>2. \/ Moved(n, Cut(runs[n]))
        \/ \E vg \in Serials \cup {"empty"} :
              Moved(n, [runs[n] EXCEPT !.at = "unmount", !.vg = vg])
    BY <1>12, ReadMoves
  <2>3. \A vg : NamesGroup([runs[n] EXCEPT !.at = "unmount", !.vg = vg])
    BY <2>1 DEF NamesGroup, Run
  <2> QED
    BY <1>c, <2>1, <2>2, <2>3, NamedByMover
<1>13. CASE Unmount(n)
  <2>1. runs[n] \in Run
    BY <1>13, <1>r DEF Unmount, At
  <2>2. /\ runs[n].vg \in Serials => NamesGroup([runs[n] EXCEPT !.at = "vg"])
        /\ NamesGroup([runs[n] EXCEPT !.at = "forget"])
        /\ NamesGroup([runs[n] EXCEPT !.at = "remove"])
    BY <2>1 DEF NamesGroup, Run
  <2> QED
    BY <1>13, <2>2, UnmountMoves, NamedByMover
<1>14. CASE RemoveVG(n)
  BY <1>14, RemoveVGMoves, NamedByMover, <1>r DEF Moved, NamesGroup, Run
<1>15. CASE RemoveStateFile(n)
  BY <1>15, ForgetMoves, NamedByMover, <1>r DEF Moved, NamesGroup, Run
<1>16. CASE RemovePath(n)
  BY <1>16, RemovePathMoves, NamedByMover, <1>r DEF Moved, NamesGroup, Run
<1> QED
  BY <1>1, <1>2, <1>3, <1>4, <1>5, <1>6, <1>7, <1>8, <1>9, <1>10, <1>11, <1>12, <1>13,
     <1>14, <1>15, <1>16
     DEF Script

\* Every step keeps the types and GroupsNamed.
LEMMA HelperStepType ==
    ASSUME HelperTypeOK, GroupsNamed, [Next]_vars
    PROVE  HelperTypeOK' /\ GroupsNamed'
<1>1. ASSUME NEW s \in Serials, Plug(s) \/ Detach(s)
      PROVE  HelperTypeOK' /\ GroupsNamed'
  <2>1. UNCHANGED <<active, stateFile, mounts, held, runs, faults>>
    BY <1>1 DEF Plug, Detach
  <2>2. plugged' \in Serials \cup {None} /\ attached' \subseteq Serials
    BY <1>1 DEF Plug, Detach, HelperTypeOK
  <2>3. group' \in [Disks -> Serials \cup {"source", None}]
    BY <1>1, HelperAssumption DEF Plug, Detach, HelperTypeOK
  <2> QED
    BY <2>1, <2>2, <2>3 DEF HelperTypeOK, GroupsNamed, NamesGroup
<1>2. ASSUME NEW mode \in {"restore", "cleanup"}, NEW s \in Serials, Start(mode, s)
      PROVE  HelperTypeOK' /\ GroupsNamed'
  <2>1. runs' \in Seq(Run)
    BY <1>2, StartMoves
  <2>2. GroupsNamed'
    <3>1. Started(mode, s).at # "vg"
      BY DEF Started
    <3> QED
      BY <1>2, <3>1, StartMoves DEF GroupsNamed, NamesGroup
  <2> QED
    BY <1>2, <2>1, <2>2 DEF Start, HelperTypeOK
<1>3. ASSUME NEW n \in 1..MaxRuns, Abandon(n)
      PROVE  HelperTypeOK' /\ GroupsNamed'
  <2>1. Moved(n, [runs[n] EXCEPT !.orphan = TRUE]) /\ runs' \in Seq(Run) /\ runs[n] \in Run
    BY <1>3, AbandonMoves, RunningRun DEF Moved
  <2>2. NamesGroup(runs[n])
    BY <2>1 DEF Moved, Running, GroupsNamed
  <2>3. NamesGroup([runs[n] EXCEPT !.orphan = TRUE])
    BY <2>1, <2>2 DEF NamesGroup, Run
  <2>4. faults' \in 0..MaxFaults
    BY <1>3, FaultCounts DEF Abandon
  <2> QED
    BY <1>3, <2>1, <2>3, <2>4, NamedByMover DEF Abandon, HelperTypeOK
<1>d. ASSUME NEW n \in 1..MaxRuns, Die(n)
      PROVE  HelperTypeOK' /\ GroupsNamed'
  <2>1. Moved(n, Cut(runs[n])) /\ runs' \in Seq(Run)
    BY <1>d, DieMoves DEF Moved
  <2>2. NamesGroup(Cut(runs[n]))
    BY <2>1, RunningRun, CutRun DEF NamesGroup, Moved
  <2> QED
    BY <1>d, <2>1, <2>2, NamedByMover DEF Die, HelperTypeOK
<1>4. ASSUME NEW n \in 1..MaxRuns, Script(n)
      PROVE  HelperTypeOK' /\ GroupsNamed'
  BY <1>4, ScriptType, ScriptNames
<1>5. ASSUME NEW m \in held, Release(m)
      PROVE  HelperTypeOK' /\ GroupsNamed'
  BY <1>5 DEF Release, HelperTypeOK, GroupsNamed, NamesGroup
<1>6. CASE Reboot
  <2>1. /\ runs' \in Seq(Run) /\ DOMAIN runs' = DOMAIN runs
        /\ \A n \in DOMAIN runs :
              runs'[n] = runs[n] \/ runs'[n].at = "ended"
    <3>1. \A n \in Running : Cut(runs[n]).at = "ended"
      BY RunningRun, CutRun
    <3> QED
      BY <1>6, <3>1, RebootMoves
  <2>2. GroupsNamed'
    BY <2>1 DEF GroupsNamed, NamesGroup
  <2>3. faults' \in 0..MaxFaults
    BY <1>6, FaultCounts DEF Reboot
  <2> QED
    BY <1>6, <2>1, <2>2, <2>3 DEF Reboot, HelperTypeOK
<1>7. CASE UNCHANGED vars
  BY <1>7 DEF vars, HelperTypeOK, GroupsNamed, NamesGroup
<1>8. CASE Unplug
  <2>1. UNCHANGED <<attached, group, active, stateFile, mounts, held, runs, faults>>
    BY <1>8 DEF Unplug
  <2> QED
    BY <1>8, <2>1 DEF Unplug, HelperTypeOK, GroupsNamed, NamesGroup
<1> QED
  BY <1>1, <1>2, <1>3, <1>d, <1>8, <1>4, <1>5, <1>6, <1>7 DEF Next

\* Every variable keeps its type: a run reads the name of the volume group before it
\* removes it, and mounts only the disk, volumes and path of its serial.
THEOREM HelperTypeCorrect == Spec => []HelperTypeOK
<1>1. Init => HelperTypeOK /\ GroupsNamed
  BY HelperInitType DEF Init, GroupsNamed
<1>2. HelperTypeOK /\ GroupsNamed /\ [Next]_vars => (HelperTypeOK /\ GroupsNamed)'
  BY HelperStepType
<1> QED
  BY <1>1, <1>2, PTL DEF Spec

----------------------------------------------------------------------------
(***************************************************************************)
(* Nothing is left mounted silently.  A mount belongs to a run, has its    *)
(* disk and path, and is made when the run can no longer end by itself,    *)
(* except in the two ways that are allowed: what rm finds below the mount  *)
(* path, whoever mounted it, makes the last command fail.                  *)
----------------------------------------------------------------------------
(***************************************************************************)
(* Nothing is left mounted silently.  A mount belongs to a run, has its    *)
(* disk and path, and is made when the run can no longer exit by itself,   *)
(* except in the ways that are allowed: what rm finds below the mount      *)
(* path, whoever mounted it, makes the last command fail.                  *)
(***************************************************************************)
AfterMount ==
    {"volumes", "copy", "look", "read", "unmount", "vg", "forget", "remove", "ended"}

\* A run that may have mounts.
Answers(r) ==
    /\ r.at \in AfterMount
    /\ r.at = "ended" => r.rc = 1 \/ (r.serial \in Manual /\ r.exit = 0) \/ r.cut # None

MountsOwned ==
    \A m \in mounts :
        /\ m.by \in DOMAIN runs
        /\ m.disk = DiskOf[runs[m.by].serial] /\ m.path = PathOf[runs[m.by].serial]
        /\ Answers(runs[m.by])

HelperInv == HelperTypeOK /\ GroupsNamed /\ MountsOwned

\* A run that answers for its mounts goes on doing so.
LEMMA OwnerMoves ==
    ASSUME HelperInv, NEW n, NEW q, Moved(n, q), mounts' \subseteq mounts,
           Answers(runs[n]) => Answers(q)
    PROVE  MountsOwned'
  BY DEF HelperInv, MountsOwned, Moved, OnlyRun, SameCall

\* A run that is cut answers for what it may have mounted.
LEMMA CutAnswers ==
    ASSUME HelperTypeOK, NEW n \in Running
    PROVE  Answers(Cut(runs[n]))
  BY RunningRun, CutRun, HelperAssumption DEF Answers, AfterMount

\* A run mounts a file system.
LEMMA OwnerMounts ==
    ASSUME HelperInv, NEW n, NEW v, NEW q, Moved(n, q),
           mounts' \subseteq mounts \cup {Target(n, v)}, Answers(q)
    PROVE  MountsOwned'
<1>1. n \in DOMAIN runs /\ DOMAIN runs' = DOMAIN runs /\ runs'[n].serial = runs[n].serial
  BY DEF Moved, OnlyRun, Running, SameCall
<1>2. /\ Target(n, v).by = n /\ Target(n, v).disk = DiskOf[runs[n].serial]
      /\ Target(n, v).path = PathOf[runs[n].serial]
  BY DEF Target
<1> QED
  BY <1>1, <1>2 DEF HelperInv, MountsOwned, Moved, OnlyRun

\* Every command keeps MountsOwned.
LEMMA ScriptMounts ==
    ASSUME HelperInv, NEW n \in 1..MaxRuns, Script(n)
    PROVE  MountsOwned'
<1>t. HelperTypeOK
  BY DEF HelperInv
<1>r. ASSUME n \in Running PROVE runs[n] \in Run
  BY <1>r, <1>t, RunningRun
<1>1. CASE Find(n) \/ RemoveStale(n) \/ ImportClone(n) \/ Record(n) \/ Emergency(n)
  <2>1. \E q : Moved(n, q)
    BY <1>1, <1>t, FindMoves, StaleMoves, ImportMoves, RecordMoves, EmergencyMoves
  <2>2. ~Answers(runs[n]) /\ mounts' = mounts
    BY <1>1 DEF Find, RemoveStale, ImportClone, Record, Emergency, At, Answers, AfterMount
  <2> QED
    BY <2>1, <2>2, OwnerMoves
<1>2. CASE Activate(n)
  <2>1. \E q : Moved(n, q)
    BY <1>2, <1>t, ActivateMoves
  <2>2. ~Answers(runs[n]) /\ mounts' = mounts
    BY <1>2 DEF Activate, At, Answers, AfterMount
  <2> QED
    BY <2>1, <2>2, OwnerMoves
<1>3. CASE MountVolume(n)
  <2>1. n \in Running /\ runs[n] \in Run /\ runs[n].at = "volumes"
    BY <1>3, <1>r DEF MountVolume, At
  <2>2. PICK v \in runs[n].todo :
           /\ mounts' \subseteq mounts \cup {Target(n, v)}
           /\ \/ Moved(n, [runs[n] EXCEPT !.todo = @ \ {v}, !.mounted = TRUE])
              \/ Moved(n, [runs[n] EXCEPT !.todo = @ \ {v}])
              \/ Moved(n, Cut(runs[n]))
    BY <1>3, <1>t, MountVolumeMoves
  <2>3. /\ Answers([runs[n] EXCEPT !.todo = @ \ {v}, !.mounted = TRUE])
        /\ Answers([runs[n] EXCEPT !.todo = @ \ {v}])
    BY <2>1 DEF Answers, AfterMount, Run
  <2> QED
    BY <1>t, <2>1, <2>2, <2>3, OwnerMounts, CutAnswers
<1>4. CASE VolumesMounted(n)
  <2>1. n \in Running /\ runs[n] \in Run
    BY <1>4, <1>r DEF VolumesMounted, At
  <2>2. /\ Answers([runs[n] EXCEPT !.at = "look", !.exit = 1])
        /\ runs[n].serial \in Manual =>
              Answers([runs[n] EXCEPT !.at = "ended", !.exit = 0])
        /\ Answers([runs[n] EXCEPT !.at = "copy"])
    BY <2>1 DEF Answers, AfterMount, Run
  <2>3. mounts' = mounts
    BY <1>4 DEF VolumesMounted
  <2> QED
    BY <1>4, <1>t, <2>2, <2>3, VolumesMountedMoves, OwnerMoves
<1>5. CASE MountDisk(n)
  <2>1. n \in Running /\ runs[n] \in Run /\ runs[n].at = "mount"
    BY <1>5, <1>r DEF MountDisk, At
  <2>2. CASE mounts' = mounts /\ \E q : Moved(n, q)
    BY <2>1, <2>2, OwnerMoves DEF Answers, AfterMount
  <2>3. CASE /\ mounts' = mounts \cup {Target(n, None)}
             /\ \/ /\ runs[n].serial \in Manual
                   /\ Moved(n, [runs[n] EXCEPT !.at = "ended", !.exit = 0])
                \/ Moved(n, [runs[n] EXCEPT !.at = "copy"])
    <3>1. /\ runs[n].serial \in Manual =>
                Answers([runs[n] EXCEPT !.at = "ended", !.exit = 0])
          /\ Answers([runs[n] EXCEPT !.at = "copy"])
      BY <2>1 DEF Answers, AfterMount, Run
    <3> QED
      BY <2>3, <3>1, OwnerMounts
  <2> QED
    BY <1>5, <1>t, <2>2, <2>3, MountDiskMoves
<1>6. CASE Copy(n)
  <2>1. n \in Running /\ runs[n] \in Run
    BY <1>6, <1>r DEF Copy, At
  <2>2. /\ \A d : Answers([runs[n] EXCEPT !.copied = d, !.at = "look"])
        /\ Answers([runs[n] EXCEPT !.at = "look", !.exit = 1])
    BY <2>1 DEF Answers, AfterMount, Run
  <2>3. mounts' = mounts
    BY <1>6 DEF Copy
  <2> QED
    BY <1>6, <1>t, <2>2, <2>3, CopyMoves, OwnerMoves
<1>7. CASE Look(n) \/ ReadStateFile(n) \/ RemoveStateFile(n)
  <2>1. n \in Running /\ runs[n] \in Run /\ mounts' = mounts
    BY <1>7, <1>r DEF Look, ReadStateFile, RemoveStateFile, At
  <2>2. /\ \A step \in {"unmount", "read", "remove"} :
              Answers([runs[n] EXCEPT !.at = step])
        /\ \A vg : Answers([runs[n] EXCEPT !.at = "unmount", !.vg = vg])
    BY <2>1 DEF Answers, AfterMount, Run
  <2>3. PICK q : Moved(n, q) /\ Answers(q)
    <3>1. CASE Look(n)
      BY <1>t, <2>2, <3>1, LookMoves
    <3>2. CASE ReadStateFile(n)
      BY <1>t, <2>1, <2>2, <3>2, ReadMoves, CutAnswers
    <3>3. CASE RemoveStateFile(n)
      BY <1>t, <2>2, <3>3, ForgetMoves
    <3> QED
      BY <1>7, <3>1, <3>2, <3>3
  <2> QED
    BY <2>1, <2>3, OwnerMoves
<1>8. CASE Unmount(n) \/ RemoveVG(n)
  <2>1. runs[n] \in Run
    BY <1>8, <1>r DEF Unmount, RemoveVG, At
  <2>2. /\ \A step \in {"vg", "forget", "remove"} :
              Answers([runs[n] EXCEPT !.at = step])
        /\ Answers([runs[n] EXCEPT !.at = "remove", !.rc = 1])
    BY <2>1 DEF Answers, AfterMount, Run
  <2>3. mounts' \subseteq mounts /\ \E q : Moved(n, q) /\ Answers(q)
    <3>1. CASE Unmount(n)
      BY <1>t, <2>2, <3>1, UnmountMoves
    <3>2. CASE RemoveVG(n)
      BY <1>t, <2>2, <3>2, RemoveVGMoves DEF RemoveVG
    <3> QED
      BY <1>8, <3>1, <3>2
  <2> QED
    BY <2>3, OwnerMoves
<1>9. CASE RemovePath(n)
  <2>1. runs[n] \in Run /\ n \in DOMAIN runs
    BY <1>9, <1>r DEF RemovePath, At, Running
  <2>2. PICK rc \in {0, 1} :
           /\ (\E m \in mounts : m.path = PathOf[runs[n].serial]) => rc = 1
           /\ Moved(n, [runs[n] EXCEPT !.at = "ended", !.rc = rc,
                           !.exit = IF runs[n].mode = "cleanup" THEN rc ELSE @])
    BY <1>9, <1>t, RemovePathMoves
  <2>3. ~\E m \in mounts : m.by = n /\ rc # 1
    BY <2>2 DEF HelperInv, MountsOwned
  <2>4. rc = 1 => Answers(runs'[n])
    BY <2>1, <2>2 DEF Moved, Answers, AfterMount, Run
  <2>5. mounts' = mounts
    BY <1>9 DEF RemovePath
  <2>6. /\ DOMAIN runs' = DOMAIN runs /\ runs'[n].serial = runs[n].serial
        /\ \A k \in DOMAIN runs \ {n} : runs'[k] = runs[k]
    BY <2>2 DEF Moved, OnlyRun, SameCall
  <2> QED
    BY <2>3, <2>4, <2>5, <2>6 DEF HelperInv, MountsOwned
<1> QED
  BY <1>1, <1>2, <1>3, <1>4, <1>5, <1>6, <1>7, <1>8, <1>9 DEF Script

\* Every step keeps HelperInv.
LEMMA HelperInvStep ==
    ASSUME HelperInv, [Next]_vars
    PROVE  HelperInv'
<1>t. HelperTypeOK /\ HelperTypeOK' /\ GroupsNamed'
  BY HelperStepType DEF HelperInv
<1>1. ASSUME (\E s \in Serials : Plug(s) \/ Detach(s)) \/ Unplug PROVE MountsOwned'
  <2>1. mounts' = mounts /\ runs' = runs
    BY <1>1 DEF Plug, Detach, Unplug
  <2> QED
    BY <2>1 DEF HelperInv, MountsOwned
<1>2. ASSUME NEW mode \in {"restore", "cleanup"}, NEW s \in Serials, Start(mode, s)
      PROVE  MountsOwned'
  <2>1. mounts' = mounts
    BY <1>2 DEF Start
  <2> QED
    BY <1>2, <1>t, <2>1, StartMoves DEF HelperInv, MountsOwned
<1>3. ASSUME NEW n \in 1..MaxRuns, Abandon(n) PROVE MountsOwned'
  <2>1. runs[n] \in Run /\ Moved(n, [runs[n] EXCEPT !.orphan = TRUE]) /\ mounts' = mounts
    BY <1>3, <1>t, RunningRun, AbandonMoves DEF Abandon
  <2>2. Answers(runs[n]) => Answers([runs[n] EXCEPT !.orphan = TRUE])
    BY <2>1 DEF Answers, Run
  <2> QED
    BY <2>1, <2>2, OwnerMoves
<1>d. ASSUME NEW n \in 1..MaxRuns, Die(n) PROVE MountsOwned'
  <2>1. n \in Running /\ Moved(n, Cut(runs[n])) /\ mounts' = mounts
    BY <1>d, <1>t, DieMoves DEF Die
  <2> QED
    BY <1>t, <2>1, OwnerMoves, CutAnswers
<1>4. ASSUME NEW n \in 1..MaxRuns, Script(n) PROVE MountsOwned'
  BY <1>4, ScriptMounts
<1>5. ASSUME NEW m \in held, Release(m) PROVE MountsOwned'
  BY <1>5 DEF Release, HelperInv, MountsOwned
<1>6. ASSUME Reboot PROVE MountsOwned'
  BY <1>6 DEF Reboot, MountsOwned
<1>7. ASSUME UNCHANGED vars PROVE MountsOwned'
  BY <1>7 DEF vars, HelperInv, MountsOwned
<1> QED
  BY <1>t, <1>1, <1>2, <1>3, <1>d, <1>4, <1>5, <1>6, <1>7 DEF Next, HelperInv

\* The guest starts with nothing mounted.
LEMMA HelperInvInit == Init => HelperInv
  BY HelperInitType DEF Init, HelperInv, GroupsNamed, MountsOwned

\* A call of the script that ends leaves nothing that it has mounted, or its clean-up
\* has returned an error, but for a manual restore that succeeded and a call that ends
\* without its clean-up (it dies, or set -e ends it at mkdir or at a state file that
\* has gone).  This holds for any number of calls that overlap, use the same path or
\* die with the guest.
THEOREM NothingLeft == Spec => []NothingLeftSilently
<1>1. HelperInv /\ [Next]_vars => HelperInv'
  BY HelperInvStep
<1>2. HelperInv => NothingLeftSilently
  BY DEF HelperInv, MountsOwned, Answers, NothingLeftSilently
<1> QED
  BY <1>1, <1>2, HelperInvInit, PTL DEF Spec

----------------------------------------------------------------------------
(***************************************************************************)
(* A success that is reported is a copy.  The exit code is 0 from the      *)
(* start, and a run comes to its clean-up with that code only from a copy. *)
(***************************************************************************)
CopyKnown(r) ==
    /\ r.mode = "restore" /\ r.exit = 0
    /\ r.at \in {"look", "read", "unmount", "vg", "forget", "remove", "ended"}
    => r.serial \in Manual \/ r.copied # None

CopiesKnown == \A n \in DOMAIN runs : CopyKnown(runs[n])

\* Only the run that moves has to be looked at.
LEMMA CopyKnownByMover ==
    ASSUME CopiesKnown, NEW n, NEW q, Moved(n, q), CopyKnown(q)
    PROVE  CopiesKnown'
  BY DEF CopiesKnown, Moved, OnlyRun

\* Every command keeps CopiesKnown.
LEMMA ScriptCopies ==
    ASSUME HelperTypeOK, CopiesKnown, NEW n \in 1..MaxRuns, Script(n)
    PROVE  CopiesKnown'
<1>r. ASSUME n \in Running PROVE runs[n] \in Run /\ CopyKnown(runs[n])
  BY <1>r, RunningRun DEF Running, CopiesKnown
<1>c. n \in Running => CopyKnown(Cut(runs[n]))
  BY RunningRun, CutRun DEF CopyKnown
<1>1. CASE \/ Find(n) \/ RemoveStale(n) \/ ImportClone(n) \/ Record(n) \/ Emergency(n)
           \/ VolumesMounted(n) \/ MountDisk(n)
  <2>1. n \in Running /\ runs[n] \in Run
    BY <1>1, <1>r DEF Find, RemoveStale, ImportClone, Record, Emergency, VolumesMounted,
                      MountDisk, At
  <2>2. /\ CopyKnown([runs[n] EXCEPT !.at = "ended", !.exit = 1])
        /\ CopyKnown([runs[n] EXCEPT !.at = "look", !.exit = 1])
        /\ runs[n].serial \in Manual =>
              CopyKnown([runs[n] EXCEPT !.at = "ended", !.exit = 0])
        /\ \A step \in {"stale", "mount", "import", "record", "activate", "emergency",
                        "copy"} : CopyKnown([runs[n] EXCEPT !.at = step])
        /\ \A b : CopyKnown([runs[n] EXCEPT !.at = "activate", !.overtaken = b])
    BY <2>1 DEF CopyKnown, Run
  <2> QED
    BY ZenonT(60), <1>1, <1>c, <2>1, <2>2, FindMoves, StaleMoves, ImportMoves, RecordMoves, EmergencyMoves,
       VolumesMountedMoves, MountDiskMoves, CopyKnownByMover
<1>2. CASE Activate(n)
  <2>1. runs[n] \in Run
    BY <1>2, <1>r DEF Activate, At
  <2>2. /\ CopyKnown([runs[n] EXCEPT !.at = "look", !.exit = 1])
        /\ CopyKnown([runs[n] EXCEPT !.at = "volumes",
                                     !.todo = Volumes[DiskOf[runs[n].serial]]])
    BY <2>1 DEF CopyKnown, Run
  <2> QED
    BY <1>2, <2>2, ActivateMoves, CopyKnownByMover
<1>3. CASE MountVolume(n)
  <2>1. n \in Running /\ runs[n] \in Run /\ runs[n].at = "volumes"
    BY <1>3, <1>r DEF MountVolume, At
  <2>2. PICK v \in runs[n].todo :
           \/ Moved(n, [runs[n] EXCEPT !.todo = @ \ {v}, !.mounted = TRUE])
           \/ Moved(n, [runs[n] EXCEPT !.todo = @ \ {v}])
           \/ Moved(n, Cut(runs[n]))
    BY <1>3, MountVolumeMoves
  <2>3. /\ CopyKnown([runs[n] EXCEPT !.todo = @ \ {v}, !.mounted = TRUE])
        /\ CopyKnown([runs[n] EXCEPT !.todo = @ \ {v}])
    BY <2>1 DEF CopyKnown, Run
  <2> QED
    BY <1>c, <2>1, <2>2, <2>3, CopyKnownByMover
<1>4. CASE Copy(n)
  <2>1. runs[n] \in Run
    BY <1>4, <1>r DEF Copy, At
  <2>2. /\ CopyKnown([runs[n] EXCEPT !.at = "look", !.exit = 1])
        /\ \A d \in Disks : CopyKnown([runs[n] EXCEPT !.copied = d, !.at = "look"])
    BY <2>1, HelperAssumption DEF CopyKnown, Run
  <2> QED
    BY <1>4, <2>2, CopyMoves, CopyKnownByMover
<1>5. CASE Look(n) \/ ReadStateFile(n) \/ RemoveStateFile(n)
  <2>1. /\ n \in Running /\ runs[n] \in Run /\ CopyKnown(runs[n])
        /\ runs[n].at \in {"look", "read", "forget"}
    BY <1>5, <1>r DEF Look, ReadStateFile, RemoveStateFile, At
  <2>2. /\ \A step \in {"unmount", "read", "remove"} :
              CopyKnown([runs[n] EXCEPT !.at = step])
        /\ \A vg : CopyKnown([runs[n] EXCEPT !.at = "unmount", !.vg = vg])
    BY <2>1 DEF CopyKnown, Run
  <2>3. PICK q : Moved(n, q) /\ CopyKnown(q)
    <3>1. CASE Look(n)
      BY <2>2, <3>1, LookMoves
    <3>2. CASE ReadStateFile(n)
      BY <1>c, <2>1, <2>2, <3>2, ReadMoves
    <3>3. CASE RemoveStateFile(n)
      BY <2>2, <3>3, ForgetMoves
    <3> QED
      BY <1>5, <3>1, <3>2, <3>3
  <2> QED
    BY <2>3, CopyKnownByMover
<1>6. CASE Unmount(n) \/ RemoveVG(n)
  <2>1. runs[n] \in Run /\ CopyKnown(runs[n]) /\ runs[n].at \in {"unmount", "vg"}
    BY <1>6, <1>r DEF Unmount, RemoveVG, At
  <2>2. /\ \A step \in {"vg", "forget", "remove"} :
              CopyKnown([runs[n] EXCEPT !.at = step])
        /\ CopyKnown([runs[n] EXCEPT !.at = "remove", !.rc = 1])
    BY <2>1 DEF CopyKnown, Run
  <2> QED
    BY <1>6, <2>2, UnmountMoves, RemoveVGMoves, CopyKnownByMover
<1>7. CASE RemovePath(n)
  <2>1. runs[n] \in Run /\ CopyKnown(runs[n]) /\ runs[n].at = "remove"
    BY <1>7, <1>r DEF RemovePath, At
  <2>2. PICK rc \in {0, 1} :
           Moved(n, [runs[n] EXCEPT !.at = "ended", !.rc = rc,
                        !.exit = IF runs[n].mode = "cleanup" THEN rc ELSE @])
    BY <1>7, RemovePathMoves
  <2>3. CopyKnown([runs[n] EXCEPT !.at = "ended", !.rc = rc,
                      !.exit = IF runs[n].mode = "cleanup" THEN rc ELSE @])
    BY <2>1 DEF CopyKnown, Run
  <2> QED
    BY <2>2, <2>3, CopyKnownByMover
<1> QED
  BY <1>1, <1>2, <1>3, <1>4, <1>5, <1>6, <1>7 DEF Script

\* Every step keeps CopiesKnown.
LEMMA CopiesStep ==
    ASSUME HelperTypeOK, CopiesKnown, [Next]_vars
    PROVE  CopiesKnown'
<1>1. ASSUME (\E s \in Serials : Plug(s) \/ Detach(s)) \/ Unplug PROVE CopiesKnown'
  <2>1. runs' = runs
    BY <1>1 DEF Plug, Detach, Unplug
  <2> QED
    BY <2>1 DEF CopiesKnown
<1>2. ASSUME NEW mode \in {"restore", "cleanup"}, NEW s \in Serials, Start(mode, s)
      PROVE  CopiesKnown'
  <2>1. CopyKnown(Started(mode, s))
    BY <1>2 DEF CopyKnown, Started
  <2> QED
    BY <1>2, <2>1, StartMoves DEF CopiesKnown
<1>3. ASSUME NEW n \in 1..MaxRuns, Abandon(n) PROVE CopiesKnown'
  <2>1. /\ runs[n] \in Run /\ CopyKnown(runs[n])
        /\ Moved(n, [runs[n] EXCEPT !.orphan = TRUE])
    BY <1>3, RunningRun, AbandonMoves DEF Abandon, CopiesKnown, Running
  <2>2. CopyKnown([runs[n] EXCEPT !.orphan = TRUE])
    BY <2>1 DEF CopyKnown, Run
  <2> QED
    BY <2>1, <2>2, CopyKnownByMover
<1>d. ASSUME NEW n \in 1..MaxRuns, Die(n) PROVE CopiesKnown'
  <2>1. n \in Running /\ Moved(n, Cut(runs[n]))
    BY <1>d, DieMoves DEF Die
  <2>2. CopyKnown(Cut(runs[n]))
    BY <2>1, RunningRun, CutRun DEF CopyKnown
  <2> QED
    BY <2>1, <2>2, CopyKnownByMover
<1>4. ASSUME NEW n \in 1..MaxRuns, Script(n) PROVE CopiesKnown'
  BY <1>4, ScriptCopies
<1>5. ASSUME NEW m \in held, Release(m) PROVE CopiesKnown'
  BY <1>5 DEF Release, CopiesKnown
<1>6. CASE Reboot
  <2>1. \A n \in Running : CopyKnown(Cut(runs[n]))
    BY RunningRun, CutRun DEF CopyKnown
  <2> QED
    BY <1>6, <2>1, RebootMoves DEF CopiesKnown
<1>7. CASE UNCHANGED vars
  BY <1>7 DEF vars, CopiesKnown
<1> QED
  BY <1>1, <1>2, <1>3, <1>d, <1>4, <1>5, <1>6, <1>7 DEF Next

\* An automatic restore that reports success has found the source path on a mounted
\* disk and copied it, for any calls that overlap, share a path, are given up or die.
THEOREM ReportedCopies == Spec => []ReportedIsCopied
<1>1. Init => CopiesKnown
  BY DEF Init, CopiesKnown
<1>2. HelperTypeOK /\ CopiesKnown /\ [Next]_vars => CopiesKnown'
  BY CopiesStep
<1>3. CopiesKnown => ReportedIsCopied
  BY DEF CopiesKnown, CopyKnown, ReportedIsCopied, ReportsCopy
<1> QED
  BY <1>1, <1>2, <1>3, HelperTypeCorrect, PTL DEF Spec

----------------------------------------------------------------------------
(***************************************************************************)
(* A cloned volume group is recorded, when every restore has a mount path  *)
(* of its own.  A clone is on the disk of its serial and a state file      *)
(* names only the serial of its path, so a run removes the group and the   *)
(* state file of its own serial and no other.  Between the removal of a    *)
(* group (or a file without a name) and that of the file, a new clone can  *)
(* only be one that a call has still to record, or has recorded in between.*)
(***************************************************************************)
OwnPaths == \A s, t \in Serials : PathOf[s] = PathOf[t] => s = t

\* Run r accounts for a clone that no state file names.
Accounts(r) ==
    r.overtaken \/ r.cut \in {"record", "emergency"} \/ r.at \in {"record", "emergency"}

Accounted(s) == \E k \in DOMAIN runs : runs[k].serial = s /\ Accounts(runs[k])

\* Run r will remove the state file, and not the volume group.
Pending(r) == r.at = "forget" \/ (r.at = "unmount" /\ r.vg = "empty")

OwnGroup(r) ==
    /\ r.vg \in {r.serial, "empty", None}
    /\ r.at = "forget" => r.vg # None
    /\ r.cut # None => r.at = "ended"

OwnGroups == \A n \in DOMAIN runs : OwnGroup(runs[n])

ClonesInPlace == \A d \in Disks : group[d] \in Serials => DiskOf[group[d]] = d

FilesInPlace == \A s \in Serials : stateFile[PathOf[s]] \in {s, "empty", None}

\* The clone of serial s is not named, or will not be for long.
AtRisk(s) ==
    /\ group[DiskOf[s]] = s
    /\ \/ stateFile[PathOf[s]] # s
       \/ \E n \in DOMAIN runs : runs[n].serial = s /\ Pending(runs[n])

CloneInv ==
    /\ ClonesInPlace /\ FilesInPlace /\ OwnGroups
    /\ \A s \in Serials : AtRisk(s) => Accounted(s)

\* A step of a run with a mount path of its own: the run accounts for its clone, or
\* there is none, or it is at no new risk, or it is recorded and nobody was about to
\* remove the state file.
LEMMA CloneMoves ==
    ASSUME OwnPaths, HelperTypeOK, CloneInv, NEW n, NEW q, Moved(n, q), OwnGroup(q),
           NEW s, s = runs[n].serial,
           \A d \in Disks : group'[d] \in Serials =>
              group'[d] = group[d] \/ (d = DiskOf[s] /\ group'[d] = s),
           NEW f \in {s, "empty", None},
           \/ stateFile' = [stateFile EXCEPT ![PathOf[s]] = f]
           \/ stateFile' = stateFile /\ f = stateFile[PathOf[s]],
           \/ Accounts(q)
           \/ group'[DiskOf[s]] # s
           \/ /\ group[DiskOf[s]] = s
              /\ Accounts(runs[n]) => Accounts(q)
              /\ Pending(q) \/ f # s => Pending(runs[n]) \/ stateFile[PathOf[s]] # s
           \/ f = s /\ ~Pending(q) /\ ~Forgotten(n)
    PROVE  CloneInv'
<1>1. /\ n \in DOMAIN runs /\ DOMAIN runs' = DOMAIN runs /\ runs'[n] = q
      /\ \A k \in DOMAIN runs \ {n} : runs'[k] = runs[k]
      /\ q.serial = s
  BY DEF Moved, OnlyRun, Running, SameCall
<1>2. s \in Serials /\ PathOf[s] \in Paths /\ DiskOf[s] \in Disks
  BY RunningRun DEF Moved
<1>3. \A t \in Serials : stateFile'[PathOf[t]] = IF t = s THEN f ELSE stateFile[PathOf[t]]
  <2>1. \A t \in Serials : PathOf[t] \in Paths
    BY DEF Paths
  <2>2. stateFile \in [Paths -> Serials \cup {"empty", None}]
    BY DEF HelperTypeOK
  <2> QED
    BY <1>2, <2>1, <2>2 DEF OwnPaths
<1>4. ClonesInPlace' /\ FilesInPlace' /\ OwnGroups'
  BY <1>1, <1>3 DEF CloneInv, ClonesInPlace, FilesInPlace, OwnGroups
<1>5. ASSUME NEW t \in Serials, AtRisk(t)', t # s PROVE Accounted(t)'
  <2>1. group[DiskOf[t]] = t
    BY <1>5, HelperAssumption DEF AtRisk
  <2>2. AtRisk(t)
    BY <1>1, <1>3, <1>5, <2>1 DEF AtRisk
  <2>3. PICK k \in DOMAIN runs : runs[k].serial = t /\ Accounts(runs[k])
    BY <2>2 DEF CloneInv, Accounted
  <2> QED
    BY <1>1, <1>5, <2>3 DEF Accounted
<1>6. ASSUME AtRisk(s)' PROVE Accounted(s)'
  <2>1. group'[DiskOf[s]] = s
    BY <1>6 DEF AtRisk
  <2>2. CASE Accounts(q)
    BY <1>1, <2>2 DEF Accounted
  <2>3. CASE /\ group[DiskOf[s]] = s
             /\ Accounts(runs[n]) => Accounts(q)
             /\ Pending(q) \/ f # s => Pending(runs[n]) \/ stateFile[PathOf[s]] # s
    <3>1. AtRisk(s)
      BY <1>1, <1>2, <1>3, <1>6, <2>3 DEF AtRisk
    <3>2. PICK k \in DOMAIN runs : runs[k].serial = s /\ Accounts(runs[k])
      BY <1>2, <3>1 DEF CloneInv, Accounted
    <3> QED
      BY <1>1, <2>3, <3>2 DEF Accounted
  <2>4. CASE f = s /\ ~Pending(q) /\ ~Forgotten(n)
    <3>1. PICK k \in DOMAIN runs \ {n} : runs[k].serial = s /\ Pending(runs[k])
      BY <1>1, <1>2, <1>3, <1>6, <2>4 DEF AtRisk
    <3>2. k \in Running /\ OwnGroup(runs[k])
      BY <3>1 DEF Running, Pending, CloneInv, OwnGroups
    <3>3. WillForget(runs[k], PathOf[s])
      BY <3>1, <3>2, HelperAssumption DEF WillForget, Pending, OwnGroup
    <3> QED
      BY <2>4, <3>2, <3>3 DEF Forgotten
  <2> QED
    BY <2>1, <2>2, <2>3, <2>4
<1> QED
  BY <1>4, <1>5, <1>6 DEF CloneInv

\* A step that leaves the state files alone and makes no clone.
LEMMA PlainMoves ==
    ASSUME OwnPaths, HelperTypeOK, CloneInv, NEW n, NEW q, Moved(n, q), OwnGroup(q),
           stateFile' = stateFile,
           \A d \in Disks : group'[d] \in Serials => group'[d] = group[d],
           \/ Accounts(q)
           \/ group'[DiskOf[runs[n].serial]] # runs[n].serial
           \/ /\ Accounts(runs[n]) => Accounts(q)
              /\ Pending(q) => \/ Pending(runs[n])
                               \/ stateFile[PathOf[runs[n].serial]] # runs[n].serial
    PROVE  CloneInv'
<1> DEFINE s == runs[n].serial
           f == stateFile[PathOf[s]]
<1>1. s \in Serials /\ DiskOf[s] \in Disks
  BY RunningRun DEF Moved
<1>2. f \in {s, "empty", None}
  BY <1>1 DEF CloneInv, FilesInPlace
<1>3. group'[DiskOf[s]] = s => group[DiskOf[s]] = s
  BY <1>1
<1>4. \A d \in Disks : group'[d] \in Serials =>
         group'[d] = group[d] \/ (d = DiskOf[s] /\ group'[d] = s)
  OBVIOUS
<1> HIDE DEF f
<1> QED
  BY <1>1, <1>2, <1>3, <1>4, CloneMoves DEF f

\* A run goes on without a new risk for its clone.
Harmless(r, q) ==
    OwnGroup(q) /\ (Accounts(r) => Accounts(q)) /\ (Pending(q) => Pending(r))

\* A volume group that is removed, or kept, makes no clone.
LEMMA NoNewClone ==
    ASSUME HelperTypeOK, NEW s \in Serials, VGRemoved(s) \/ VGKept(s)
    PROVE  /\ \A d \in Disks : group'[d] \in Serials => group'[d] = group[d]
           /\ VGRemoved(s) => group'[DiskOf[s]] # s
  BY HelperAssumption DEF VGRemoved, VGKept, HelperTypeOK

\* A run that is cut accounts for what it accounted for.
LEMMA CutAccounts ==
    ASSUME HelperTypeOK, NEW n \in Running, OwnGroup(runs[n])
    PROVE  /\ OwnGroup(Cut(runs[n])) /\ ~Pending(Cut(runs[n]))
           /\ Accounts(runs[n]) => Accounts(Cut(runs[n]))
<1>1. runs[n] \in Run /\ runs[n].at \in Steps /\ runs[n].at # "ended"
  BY RunningRun DEF Running
<1>2. Cut(runs[n]).vg = runs[n].vg /\ Cut(runs[n]).serial = runs[n].serial
  BY <1>1 DEF Cut, Run
<1> QED
  BY <1>1, <1>2, CutRun, HelperAssumption DEF OwnGroup, Pending, Accounts, Steps

\* Every command keeps CloneInv.
LEMMA ScriptClones ==
    ASSUME OwnPaths, HelperTypeOK, GroupsNamed, CloneInv, NEW n \in 1..MaxRuns, Script(n)
    PROVE  CloneInv'
<1> DEFINE s == runs[n].serial
<1>r. ASSUME n \in Running
      PROVE  /\ runs[n] \in Run /\ OwnGroup(runs[n]) /\ s \in Serials
             /\ DiskOf[s] \in Disks /\ PathOf[s] \in Paths
             /\ runs[n].cut = None /\ stateFile[PathOf[s]] \in {s, "empty", None}
             /\ OwnGroup(Cut(runs[n])) /\ ~Pending(Cut(runs[n]))
             /\ Accounts(runs[n]) => Accounts(Cut(runs[n]))
  BY <1>r, RunningRun, CutAccounts DEF Running, CloneInv, OwnGroups, OwnGroup, FilesInPlace
<1>1. CASE Find(n) \/ RemoveStale(n) \/ VolumesMounted(n) \/ MountDisk(n)
  <2>1. n \in Running /\ runs[n].at \in {"find", "stale", "volumes", "mount"}
    BY <1>1 DEF Find, RemoveStale, VolumesMounted, MountDisk, At
  <2>2. /\ \A step \in {"stale", "mount", "import", "copy"} :
              Harmless(runs[n], [runs[n] EXCEPT !.at = step])
        /\ \A code \in {0, 1}, step \in {"ended", "look"} :
              Harmless(runs[n], [runs[n] EXCEPT !.at = step, !.exit = code])
    BY <1>r, <2>1 DEF Harmless, OwnGroup, Accounts, Pending, Run
  <2>3. PICK q : Moved(n, q) /\ Harmless(runs[n], q)
    BY <1>1, <2>2, FindMoves, StaleMoves, VolumesMountedMoves, MountDiskMoves
  <2>4. stateFile' = stateFile
    BY <1>1 DEF Find, RemoveStale, VolumesMounted, MountDisk
  <2>5. \A d \in Disks : group'[d] \in Serials => group'[d] = group[d]
    BY <1>1, <1>r, <2>1, NoNewClone DEF Find, RemoveStale, VolumesMounted, MountDisk
  <2> QED
    BY <2>3, <2>4, <2>5, PlainMoves DEF Harmless
<1>2. CASE ImportClone(n)
  <2>1. n \in Running /\ runs[n].at = "import" /\ stateFile' = stateFile
    BY <1>2 DEF ImportClone, At
  <2>2. CASE /\ group' = group
             /\ Moved(n, [runs[n] EXCEPT !.at = "ended", !.exit = 1])
    <3>1. Harmless(runs[n], [runs[n] EXCEPT !.at = "ended", !.exit = 1])
      BY <1>r, <2>1 DEF Harmless, OwnGroup, Accounts, Pending, Run
    <3> QED
      BY <2>1, <2>2, <3>1, PlainMoves DEF Harmless
  <2>3. CASE /\ group' = [group EXCEPT ![DiskOf[s]] = s]
             /\ Moved(n, [runs[n] EXCEPT !.at = "record"])
    <3> DEFINE q == [runs[n] EXCEPT !.at = "record"]
               f == stateFile[PathOf[s]]
    <3>1. OwnGroup(q) /\ Accounts(q)
      BY <1>r, <2>1 DEF OwnGroup, Accounts, Run
    <3>2. \A d \in Disks : group'[d] \in Serials =>
             group'[d] = group[d] \/ (d = DiskOf[s] /\ group'[d] = s)
      BY <1>r, <2>1, <2>3 DEF HelperTypeOK
    <3>3. f \in {s, "empty", None}
      BY <1>r, <2>1
    <3> HIDE DEF f, q
    <3> QED
      BY <2>1, <2>3, <3>1, <3>2, <3>3, CloneMoves DEF f, q
  <2> QED
    BY <1>2, <2>2, <2>3, ImportMoves
<1>3. CASE Record(n)
  <2> DEFINE b == Forgotten(n)
             q == [runs[n] EXCEPT !.at = "activate", !.overtaken = b]
             e == [runs[n] EXCEPT !.at = "emergency"]
  <2>1. n \in Running /\ runs[n].at = "record" /\ group' = group
    BY <1>3 DEF Record, At
  <2>2. \A c : LET p == [runs[n] EXCEPT !.at = "activate", !.overtaken = c]
               IN OwnGroup(p) /\ ~Pending(p) /\ (c => Accounts(p))
    BY <1>r, <2>1 DEF OwnGroup, Accounts, Pending, Run
  <2>3. OwnGroup(e) /\ Accounts(e)
    BY <1>r, <2>1 DEF OwnGroup, Accounts, Run
  <2>4. \A d \in Disks : group'[d] = group[d]
    BY <2>1
  <2>5. CASE stateFile' = [stateFile EXCEPT ![PathOf[s]] = s] /\ Moved(n, q)
    <3>1. OwnGroup(q) /\ ~Pending(q) /\ (b => Accounts(q))
      BY <2>2
    <3>2. n \in Running /\ s \in {s, "empty", None}
      BY <2>1
    <3>3. \A d \in Disks : group'[d] \in Serials =>
             group'[d] = group[d] \/ (d = DiskOf[s] /\ group'[d] = s)
      BY <2>4
    <3>4. Accounts(q) \/ (s = s /\ ~Pending(q) /\ ~Forgotten(n))
      BY <3>1
    <3> HIDE DEF q
    <3> QED
      BY ZenonT(60), <2>5, <3>1, <3>2, <3>3, <3>4, CloneMoves
  <2>6. CASE stateFile' = stateFile /\ Moved(n, e)
    BY <2>1, <2>3, <2>6, PlainMoves
  <2>7. CASE stateFile' = [stateFile EXCEPT ![PathOf[s]] = "empty"] /\ Moved(n, e)
    <3> HIDE DEF e, s
    <3> QED
      BY ZenonT(60), <2>3, <2>4, <2>7, CloneMoves DEF s
  <2> QED
    BY <1>3, <2>5, <2>6, <2>7, RecordMoves
<1>4. CASE Emergency(n)
  <2> DEFINE q == [runs[n] EXCEPT !.at = "ended", !.exit = 1]
  <2>1. n \in Running /\ runs[n].at = "emergency" /\ stateFile' = stateFile
    BY <1>4 DEF Emergency, At
  <2>2. OwnGroup(q) /\ OwnGroup(Cut(runs[n])) /\ Accounts(Cut(runs[n]))
    BY <1>r, <2>1 DEF OwnGroup, Accounts, Run
  <2>3. /\ \A d \in Disks : group'[d] \in Serials => group'[d] = group[d]
        /\ VGRemoved(s) => group'[DiskOf[s]] # s
    BY <1>4, <1>r, <2>1, NoNewClone DEF Emergency
  <2>4. CASE VGRemoved(s) /\ Moved(n, q)
    <3> HIDE DEF q
    <3> QED BY <2>1, <2>2, <2>3, <2>4, PlainMoves
  <2>5. CASE Moved(n, Cut(runs[n]))
    BY <2>1, <2>2, <2>3, <2>5, PlainMoves
  <2> QED
    BY <1>4, <2>4, <2>5, EmergencyMoves
<1>5. CASE Activate(n) \/ MountVolume(n) \/ Copy(n)
  <2>1. /\ n \in Running /\ runs[n].at \in {"activate", "volumes", "copy"}
        /\ group' = group /\ stateFile' = stateFile
    BY <1>5 DEF Activate, MountVolume, Copy, At
  <2>2. /\ Harmless(runs[n], [runs[n] EXCEPT !.at = "look", !.exit = 1])
        /\ \A vs : Harmless(runs[n], [runs[n] EXCEPT !.at = "volumes", !.todo = vs])
        /\ \A d : Harmless(runs[n], [runs[n] EXCEPT !.copied = d, !.at = "look"])
        /\ runs[n].at = "volumes" =>
              \A v : Harmless(runs[n], [runs[n] EXCEPT !.todo = @ \ {v}, !.mounted = TRUE])
        /\ runs[n].at = "volumes" =>
              \A v : Harmless(runs[n], [runs[n] EXCEPT !.todo = @ \ {v}])
    BY <1>r, <2>1 DEF Harmless, OwnGroup, Accounts, Pending, Run
  <2>3. Harmless(runs[n], Cut(runs[n]))
    BY <1>r, <2>1 DEF Harmless
  <2>4. PICK q : Moved(n, q) /\ Harmless(runs[n], q)
    <3>1. CASE Activate(n)
      BY <2>2, <3>1, ActivateMoves
    <3>2. CASE MountVolume(n)
      <4>1. runs[n].at = "volumes"
        BY <3>2 DEF MountVolume, At
      <4> QED BY <2>2, <2>3, <3>2, <4>1, MountVolumeMoves
    <3>3. CASE Copy(n)
      BY <2>2, <3>3, CopyMoves
    <3> QED
      BY <1>5, <3>1, <3>2, <3>3
  <2> QED
    BY <2>1, <2>4, PlainMoves DEF Harmless
<1>6. CASE Look(n)
  <2>1. /\ n \in Running /\ runs[n].at = "look" /\ group' = group /\ stateFile' = stateFile
    BY <1>6 DEF Look, At
  <2>2. CASE stateFile[PathOf[s]] = None /\ Moved(n, [runs[n] EXCEPT !.at = "unmount"])
    <3> DEFINE q == [runs[n] EXCEPT !.at = "unmount"]
    <3>1. OwnGroup(q) /\ (Accounts(runs[n]) => Accounts(q))
      BY <1>r, <2>1 DEF OwnGroup, Accounts, Run
    <3>2. stateFile[PathOf[s]] # s
      BY <1>r, <2>1, <2>2, HelperAssumption
    <3> HIDE DEF q
    <3> QED BY <2>1, <2>2, <3>1, <3>2, PlainMoves DEF q
  <2>3. CASE Moved(n, [runs[n] EXCEPT !.at = "read"])
    <3>1. Harmless(runs[n], [runs[n] EXCEPT !.at = "read"])
      BY <1>r, <2>1 DEF Harmless, OwnGroup, Accounts, Pending, Run
    <3> QED BY <2>1, <2>3, <3>1, PlainMoves DEF Harmless
  <2> QED
    BY <1>6, <2>2, <2>3, LookMoves
<1>7. CASE ReadStateFile(n)
  <2>1. n \in Running /\ runs[n].at = "read" /\ group' = group /\ stateFile' = stateFile
    BY <1>7 DEF ReadStateFile, At
  <2>2. CASE Moved(n, Cut(runs[n]))
    BY <1>r, <2>1, <2>2, PlainMoves
  <2>3. ASSUME NEW vg \in Serials \cup {"empty"},
               vg = (IF stateFile[PathOf[s]] = None THEN "empty" ELSE stateFile[PathOf[s]]),
               Moved(n, [runs[n] EXCEPT !.at = "unmount", !.vg = vg])
        PROVE  CloneInv'
    <3> DEFINE q == [runs[n] EXCEPT !.at = "unmount", !.vg = vg]
    <3>1. vg \in {s, "empty"} /\ (vg = "empty" => stateFile[PathOf[s]] # s)
      BY <1>r, <2>1, <2>3, HelperAssumption
    <3>2. /\ OwnGroup(q) /\ (Accounts(runs[n]) => Accounts(q))
          /\ Pending(q) => stateFile[PathOf[s]] # s
      BY <1>r, <2>1, <3>1 DEF OwnGroup, Accounts, Pending, Run
    <3> HIDE DEF q
    <3> QED BY <2>1, <2>3, <3>2, PlainMoves DEF q
  <2> QED
    BY <1>7, <2>2, <2>3, ReadMoves
<1>8. CASE Unmount(n)
  <2>1. n \in Running /\ runs[n].at = "unmount" /\ group' = group /\ stateFile' = stateFile
    BY <1>8 DEF Unmount, At
  <2>2. /\ Harmless(runs[n], [runs[n] EXCEPT !.at = "vg"])
        /\ Harmless(runs[n], [runs[n] EXCEPT !.at = "remove"])
        /\ runs[n].vg = "empty" => Harmless(runs[n], [runs[n] EXCEPT !.at = "forget"])
    BY <1>r, <2>1, HelperAssumption DEF Harmless, OwnGroup, Accounts, Pending, Run
  <2>3. PICK q : Moved(n, q) /\ Harmless(runs[n], q)
    BY <1>8, <2>2, UnmountMoves
  <2> QED
    BY <2>1, <2>3, PlainMoves DEF Harmless
<1>9. CASE RemoveVG(n)
  <2> DEFINE q == [runs[n] EXCEPT !.at = "forget"]
             k == [runs[n] EXCEPT !.at = "remove", !.rc = 1]
  <2>1. n \in Running /\ runs[n].at = "vg" /\ stateFile' = stateFile
    BY <1>9 DEF RemoveVG, At
  <2>2. runs[n].vg = s
    BY <1>r, <2>1, HelperAssumption DEF OwnGroup, GroupsNamed, NamesGroup, Running
  <2>3. OwnGroup(q) /\ Harmless(runs[n], k)
    BY <1>r, <2>1, <2>2, HelperAssumption DEF Harmless, OwnGroup, Accounts, Pending, Run
  <2>4. /\ \A d \in Disks : group'[d] \in Serials => group'[d] = group[d]
        /\ VGRemoved(s) => group'[DiskOf[s]] # s
    BY <1>9, <1>r, <2>1, <2>2, NoNewClone DEF RemoveVG
  <2>5. CASE VGRemoved(s) /\ Moved(n, q)
    <3> HIDE DEF q
    <3> QED BY <2>1, <2>3, <2>4, <2>5, PlainMoves
  <2>6. CASE Moved(n, k)
    <3> HIDE DEF k
    <3> QED BY <2>1, <2>3, <2>4, <2>6, PlainMoves DEF Harmless
  <2> QED
    BY <1>9, <2>2, <2>5, <2>6, RemoveVGMoves
<1>10. CASE RemoveStateFile(n)
  <2> DEFINE q == [runs[n] EXCEPT !.at = "remove"]
  <2>1. n \in Running /\ runs[n].at = "forget" /\ group' = group
    BY <1>10 DEF RemoveStateFile, At
  <2>2. OwnGroup(q) /\ (Accounts(runs[n]) => Accounts(q)) /\ Pending(runs[n])
    BY <1>r, <2>1 DEF OwnGroup, Accounts, Pending, Run
  <2>3. stateFile' = [stateFile EXCEPT ![PathOf[s]] = None] /\ Moved(n, q)
    BY <1>10, ForgetMoves
  <2>4. \A d \in Disks : group'[d] \in Serials =>
           group'[d] = group[d] \/ (d = DiskOf[s] /\ group'[d] = s)
    BY <2>1
  <2>5. \/ group'[DiskOf[s]] # s
        \/ /\ group[DiskOf[s]] = s
           /\ Accounts(runs[n]) => Accounts(q)
           /\ Pending(q) \/ None # s => Pending(runs[n]) \/ stateFile[PathOf[s]] # s
    BY <2>1, <2>2
  <2>6. n \in Running /\ None \in {s, "empty", None}
    BY <2>1
  <2> HIDE DEF q
  <2> QED
    BY <2>2, <2>3, <2>4, <2>5, <2>6, CloneMoves
<1>11. CASE RemovePath(n)
  <2>1. n \in Running /\ runs[n].at = "remove" /\ group' = group /\ stateFile' = stateFile
    BY <1>11 DEF RemovePath, At
  <2>2. PICK rc \in {0, 1} :
           Moved(n, [runs[n] EXCEPT !.at = "ended", !.rc = rc,
                        !.exit = IF runs[n].mode = "cleanup" THEN rc ELSE @])
    BY <1>11, RemovePathMoves
  <2>3. Harmless(runs[n], [runs[n] EXCEPT !.at = "ended", !.rc = rc,
                              !.exit = IF runs[n].mode = "cleanup" THEN rc ELSE @])
    BY <1>r, <2>1 DEF Harmless, OwnGroup, Accounts, Pending, Run
  <2> QED
    BY <2>1, <2>2, <2>3, PlainMoves DEF Harmless
<1> QED
  BY <1>1, <1>2, <1>3, <1>4, <1>5, <1>6, <1>7, <1>8, <1>9, <1>10, <1>11 DEF Script

\* Every step keeps CloneInv.
LEMMA ClonesStep ==
    ASSUME OwnPaths, HelperTypeOK, GroupsNamed, CloneInv, [Next]_vars
    PROVE  CloneInv'
<1>1. ASSUME (\E s \in Serials : Plug(s) \/ Detach(s)) \/ Unplug PROVE CloneInv'
  <2>1. \A d \in Disks : group'[d] \in Serials => group'[d] = group[d]
    BY <1>1, HelperAssumption DEF Plug, Detach, Unplug, HelperTypeOK
  <2>2. runs' = runs /\ stateFile' = stateFile
    BY <1>1 DEF Plug, Detach, Unplug
  <2>3. \A s \in Serials : AtRisk(s)' => AtRisk(s)
    BY <2>1, <2>2, HelperAssumption DEF AtRisk
  <2> QED
    BY <2>1, <2>2, <2>3 DEF CloneInv, ClonesInPlace, FilesInPlace, OwnGroups, Accounted
<1>2. ASSUME NEW mode \in {"restore", "cleanup"}, NEW s \in Serials, Start(mode, s)
      PROVE  CloneInv'
  <2>1. OwnGroup(Started(mode, s)) /\ ~Pending(Started(mode, s))
    BY <1>2 DEF OwnGroup, Pending, Started
  <2>2. group' = group /\ stateFile' = stateFile
    BY <1>2 DEF Start
  <2>3. \A k \in DOMAIN runs : k \in DOMAIN runs' /\ runs'[k] = runs[k]
    BY <1>2, StartMoves
  <2>4. \A k \in DOMAIN runs' \ DOMAIN runs : runs'[k] = Started(mode, s)
    BY <1>2, StartMoves
  <2>5. OwnGroups'
    BY <2>1, <2>3, <2>4 DEF CloneInv, OwnGroups
  <2>6. \A t \in Serials : (AtRisk(t)' => AtRisk(t)) /\ (Accounted(t) => Accounted(t)')
    BY <2>1, <2>2, <2>3, <2>4 DEF AtRisk, Accounted
  <2> QED
    BY <2>2, <2>5, <2>6 DEF CloneInv, ClonesInPlace, FilesInPlace
<1>3. ASSUME NEW n \in 1..MaxRuns, Abandon(n) PROVE CloneInv'
  <2> DEFINE q == [runs[n] EXCEPT !.orphan = TRUE]
  <2>1. /\ runs[n] \in Run /\ OwnGroup(runs[n]) /\ Moved(n, q)
        /\ group' = group /\ stateFile' = stateFile
    BY <1>3, RunningRun, AbandonMoves DEF Abandon, CloneInv, OwnGroups, Running
  <2>2. Harmless(runs[n], q)
    BY <2>1 DEF Harmless, OwnGroup, Accounts, Pending, Run
  <2> HIDE DEF q
  <2> QED
    BY <2>1, <2>2, PlainMoves DEF Harmless
<1>d. ASSUME NEW n \in 1..MaxRuns, Die(n) PROVE CloneInv'
  <2>1. /\ n \in Running /\ OwnGroup(runs[n]) /\ Moved(n, Cut(runs[n]))
        /\ group' = group /\ stateFile' = stateFile
    BY <1>d, DieMoves DEF Die, CloneInv, OwnGroups, Running
  <2> QED
    BY <2>1, CutAccounts, PlainMoves
<1>4. ASSUME NEW n \in 1..MaxRuns, Script(n) PROVE CloneInv'
  BY <1>4, ScriptClones
<1>5. ASSUME NEW m \in held, Release(m) PROVE CloneInv'
  BY <1>5 DEF Release, CloneInv, ClonesInPlace, FilesInPlace, OwnGroups, AtRisk, Accounted
<1>6. CASE Reboot
  <2>1. \A n \in DOMAIN runs : OwnGroup(runs[n])
    BY DEF CloneInv, OwnGroups
  <2>2. /\ DOMAIN runs' = DOMAIN runs
        /\ \A n \in DOMAIN runs :
              /\ OwnGroup(runs'[n]) /\ runs'[n].serial = runs[n].serial
              /\ Pending(runs'[n]) => Pending(runs[n])
              /\ Accounts(runs[n]) => Accounts(runs'[n])
    <3>1. \A n \in Running : /\ OwnGroup(Cut(runs[n])) /\ ~Pending(Cut(runs[n]))
                             /\ Accounts(runs[n]) => Accounts(Cut(runs[n]))
                             /\ Cut(runs[n]).serial = runs[n].serial
      BY <2>1, RunningRun, CutRun, CutAccounts DEF Running, SameCall
    <3> QED
      BY <1>6, <2>1, <3>1, RebootMoves
  <2>3. group' = group /\ stateFile' = stateFile
    BY <1>6 DEF Reboot
  <2>4. \A t \in Serials : (AtRisk(t)' => AtRisk(t)) /\ (Accounted(t) => Accounted(t)')
    BY <2>2, <2>3 DEF AtRisk, Accounted
  <2> QED
    BY <2>2, <2>3, <2>4 DEF CloneInv, ClonesInPlace, FilesInPlace, OwnGroups
<1>7. CASE UNCHANGED vars
  BY <1>7 DEF vars, CloneInv, ClonesInPlace, FilesInPlace, OwnGroups, AtRisk, Accounted
<1> QED
  BY <1>1, <1>2, <1>3, <1>d, <1>4, <1>5, <1>6, <1>7 DEF Next

\* The guest starts without clones.
LEMMA ClonesInit == Init => CloneInv
<1> SUFFICES ASSUME Init PROVE CloneInv
  OBVIOUS
<1>1. \A s \in Serials : PathOf[s] \in Paths /\ DiskOf[s] \in Disks
  BY HelperAssumption DEF Paths
<1>2. \A d \in Disks : group[d] \notin Serials
  BY HelperAssumption DEF Init
<1> QED
  BY <1>1, <1>2
     DEF Init, CloneInv, ClonesInPlace, FilesInPlace, OwnGroups, AtRisk

\* The volume group that a call has cloned is named by the state file of its mount
\* path, or a call of the same serial is about to write that file or ended before it
\* could, or wrote it while a clean-up beside it was about to remove an older one: any
\* calls may overlap, fail, be given up or die, as long as every restore has a mount
\* path of its own.
THEOREM ClonesRecorded == OwnPaths => (Spec => []CloneIsRecorded)
<1> SUFFICES ASSUME OwnPaths PROVE Spec => []CloneIsRecorded
  OBVIOUS
<1> DEFINE Inv == HelperTypeOK /\ GroupsNamed /\ CloneInv
<1>1. Init => Inv
  BY HelperInitType, ClonesInit DEF Init, GroupsNamed
<1>2. Inv /\ [Next]_vars => Inv'
  BY HelperStepType, ClonesStep
<1>3. Inv => CloneIsRecorded
  <2> SUFFICES ASSUME Inv, NEW d \in Disks, group[d] \in Serials
               PROVE  Recorded(d) \/ Overtaken(d)
    BY DEF CloneIsRecorded
  <2>1. DiskOf[group[d]] = d
    BY DEF CloneInv, ClonesInPlace
  <2>2. CASE ~AtRisk(group[d])
    BY <2>1, <2>2 DEF AtRisk, Recorded
  <2>3. CASE Accounted(group[d])
    BY <2>3 DEF Accounted, Accounts, Recorded, Overtaken
  <2> QED
    BY <2>2, <2>3 DEF CloneInv
<1> QED
  <2> HIDE DEF Inv
  <2> QED BY <1>1, <1>2, <1>3, PTL DEF Spec

----------------------------------------------------------------------------
(***************************************************************************)
(* A restore of a disk in its original state succeeds when nothing fails   *)
(* while it runs.  It started when no call was running, and as long as     *)
(* there is no new fault it is not given up, so no other starts and its    *)
(* disk stays; what the earlier calls have left (active groups, state      *)
(* files, other mounts) is shown not to matter, command by command.        *)
(***************************************************************************)

\* An active volume group is a clone on a disk in the guest.
ActiveClones == \A d \in active : group[d] \in Serials /\ Present(d)

\* Run n started when no other was running, and there was no fault since.
Undisturbed(n) == runs[n].free /\ runs[n].since = faults

Alone(n) == n \in Running => ~runs[n].orphan /\ \A k \in Running : k = n

Worthy(r) == r.mode = "restore" /\ r.free /\ r.fresh /\ HasWork(r.serial)

\* A mount that the restore of serial s may have made, on top of nothing.
Own(m, s) ==
    /\ m.disk = DiskOf[s] /\ m.volume \in Volumes[DiskOf[s]]
    /\ m.below = Several(s) /\ m.over = {}

\* What a restore that will succeed has found and done so far.
OnCourse(n) ==
    LET r == runs[n]
        s == r.serial
        d == DiskOf[s]
    IN /\ r.exit = 0 /\ r.at # "emergency"
       /\ r.at # "ended" => s = plugged /\ s \in attached
       /\ r.at \in {"stale", "import", "record", "activate", "volumes"} => Layout[d] = "lvm"
       /\ r.at = "mount" => Layout[d] # "lvm"
       /\ r.at = "find" /\ Layout[d] = "lvm" => group[d] = "source"
       /\ r.at \in {"stale", "import"} => group[d] = "source"
       /\ r.at \in {"record", "activate", "volumes"} => group[d] = s
       /\ r.at \in {"find", "stale", "import", "record", "activate", "mount"} =>
             ~\E m \in mounts : m.disk = d \/ m.path = PathOf[s]
       /\ r.at = "volumes" =>
             /\ d \in active /\ r.todo \subseteq Volumes[d]
             /\ \A m \in mounts : m.disk = d => m.volume \notin r.todo
             /\ \A m \in mounts : m.path = PathOf[s] => Own(m, s)
             /\ \A v \in (Volumes[d] \ Unmountable) \ r.todo :
                   r.mounted /\ \E m \in mounts : m.path = PathOf[s] /\ m.volume = v
       /\ r.at = "copy" => Sources(n) # {}

QuietInv ==
    /\ ActiveClones
    /\ \A n \in DOMAIN runs :
          /\ runs[n].since <= faults
          /\ Undisturbed(n) => Alone(n) /\ (Worthy(runs[n]) => OnCourse(n))

\* Every step keeps ActiveClones.
LEMMA ActiveStep ==
    ASSUME HelperTypeOK, GroupsNamed, ActiveClones, [Next]_vars
    PROVE  ActiveClones'
<1>g. group \in [Disks -> Serials \cup {"source", None}] /\ active \subseteq Disks
  BY DEF HelperTypeOK
<1>v. ASSUME NEW s \in Serials, VGRemoved(s) \/ VGKept(s), attached' = attached
      PROVE  ActiveClones'
  BY <1>v, <1>g, HelperAssumption DEF VGRemoved, VGKept, ActiveClones, Present
<1>1. ASSUME NEW s \in Serials, Plug(s) PROVE ActiveClones'
  <2>1. DiskOf[s] \notin active
    BY <1>1 DEF Plug, ActiveClones
  <2>2. active' = active /\ \A d \in active : group'[d] = group[d]
    BY <1>1, <1>g, <2>1 DEF Plug
  <2>3. \A d \in active : Present(d)'
    BY <1>1 DEF Plug, ActiveClones, Present
  <2> QED
    BY <2>2, <2>3 DEF ActiveClones
<1>2. ASSUME NEW s \in Serials, Detach(s) PROVE ActiveClones'
  BY <1>2 DEF Detach, ActiveClones, Present
<1>3. ASSUME NEW n \in 1..MaxRuns, Script(n) PROVE ActiveClones'
  <2>r. ASSUME n \in Running
        PROVE  runs[n].serial \in Serials /\ DiskOf[runs[n].serial] \in Disks
    BY <2>r, RunningRun
  <2>1. CASE RemoveStale(n)
    <3>1. attached' = attached /\ runs[n].serial \in Serials
      BY <2>1, <2>r DEF RemoveStale, At
    <3>2. CASE group' = group /\ active' = active
      BY <3>1, <3>2 DEF ActiveClones, Present
    <3> QED
      BY <2>1, <3>1, <3>2, <1>v DEF RemoveStale
  <2>2. CASE Emergency(n)
    BY <2>2, <2>r, <1>v DEF Emergency, At
  <2>3. CASE RemoveVG(n)
    <3>1. runs[n].vg \in Serials
      BY <2>3 DEF RemoveVG, At, Running, GroupsNamed, NamesGroup
    <3> QED
      BY <2>3, <3>1, <1>v DEF RemoveVG
  <2>4. CASE ImportClone(n)
    <3>1. /\ \/ group' = group
             \/ group' = [group EXCEPT ![DiskOf[runs[n].serial]] = runs[n].serial]
          /\ active' = active /\ attached' = attached
          /\ runs[n].serial \in Serials /\ DiskOf[runs[n].serial] \in Disks
      BY <2>4, <2>r DEF ImportClone, At
    <3> QED
      BY <3>1, <1>g DEF ActiveClones, Present
  <2>5. CASE Activate(n)
    <3>1. /\ \/ active' = active
             \/ VGExists(runs[n].serial) /\ active' = active \cup {DiskOf[runs[n].serial]}
          /\ group' = group /\ attached' = attached /\ runs[n].serial \in Serials
      BY <2>5, <2>r DEF Activate, At
    <3> QED
      BY <3>1 DEF ActiveClones, VGExists, Present
  <2>6. CASE UNCHANGED <<group, active, attached>>
    BY <2>6 DEF ActiveClones, Present
  <2> QED
    BY <1>3, <2>1, <2>2, <2>3, <2>4, <2>5, <2>6
       DEF Script, Find, Record, MountVolume, VolumesMounted, MountDisk, Copy, Look,
           ReadStateFile, Unmount, RemoveStateFile, RemovePath
<1>4. CASE Reboot
  BY <1>4 DEF Reboot, ActiveClones
<1>5. CASE UNCHANGED <<group, active, attached>>
  BY <1>5 DEF ActiveClones, Present
<1> QED
  BY <1>1, <1>2, <1>3, <1>4, <1>5 DEF Next, Unplug, Start, Abandon, Die, Release, vars

\* The script never makes a run an orphan.
LEMMA ScriptKeepsOrphan ==
    ASSUME HelperTypeOK, NEW n, Script(n)
    PROVE  /\ n \in Running /\ OnlyRun(n) /\ runs'[n] \in Run
           /\ runs'[n].orphan = runs[n].orphan
<1>1. n \in Running
  BY DEF Script, Find, RemoveStale, ImportClone, Record, Emergency, Activate, MountVolume,
         VolumesMounted, MountDisk, Copy, Look, ReadStateFile, Unmount, RemoveVG,
         RemoveStateFile, RemovePath, At
<1>2. runs[n] \in Run /\ n \in DOMAIN runs /\ runs \in Seq(Run)
  BY <1>1, RunningRun DEF HelperTypeOK
<1>3. \E q : Moved(n, q)
  BY FindMoves, StaleMoves, ImportMoves, RecordMoves, EmergencyMoves, ActivateMoves,
     MountVolumeMoves, VolumesMountedMoves, MountDiskMoves, CopyMoves, LookMoves,
     ReadMoves, UnmountMoves, RemoveVGMoves, ForgetMoves, RemovePathMoves DEF Script
<1>4. OnlyRun(n) /\ runs'[n] \in Run
  BY <1>2, <1>3 DEF Moved, OnlyRun
<1>5. runs'[n].orphan = runs[n].orphan
  <2>1. \A step : Goto(n, step) => runs'[n].orphan = runs[n].orphan
    BY <1>2 DEF Goto, Run
  <2>2. \A code : Exit(n, code) => runs'[n].orphan = runs[n].orphan
    BY <1>2 DEF Exit, Run
  <2>3. \A code : Unwind(n, code) => runs'[n].orphan = runs[n].orphan
    BY <1>2 DEF Unwind, Run
  <2>c. CutOff(n) => runs'[n].orphan = runs[n].orphan
    BY <1>2 DEF CutOff, Run
  <2>4. CASE Emergency(n)
    BY <2>2, <2>4, <2>c DEF Emergency
  <2>5. CASE Activate(n)
    BY <1>2, <2>3, <2>5 DEF Activate, Run
  <2>6. CASE MountVolume(n)
    <3>1. PICK v : \/ Moved(n, [runs[n] EXCEPT !.todo = @ \ {v}, !.mounted = TRUE])
                   \/ Moved(n, [runs[n] EXCEPT !.todo = @ \ {v}])
                   \/ Moved(n, Cut(runs[n]))
      BY <2>6, MountVolumeMoves
    <3> QED
      BY <1>2, <3>1 DEF Moved, Cut, Run
  <2>7. CASE Copy(n)
    <3>1. \/ \E d : Moved(n, [runs[n] EXCEPT !.copied = d, !.at = "look"])
          \/ Moved(n, [runs[n] EXCEPT !.at = "look", !.exit = 1])
      BY <2>7, CopyMoves
    <3> QED
      BY <1>2, <3>1 DEF Moved, Run
  <2>8. CASE ReadStateFile(n)
    <3>1. \/ Moved(n, Cut(runs[n]))
          \/ \E vg : Moved(n, [runs[n] EXCEPT !.at = "unmount", !.vg = vg])
      BY <2>8, ReadMoves
    <3> QED
      BY <1>2, <3>1 DEF Moved, Cut, Run
  <2>11. CASE Record(n)
    <3>1. \/ \E b : Moved(n, [runs[n] EXCEPT !.at = "activate", !.overtaken = b])
          \/ Moved(n, [runs[n] EXCEPT !.at = "emergency"])
      BY <2>11, RecordMoves
    <3> QED
      BY <1>2, <3>1 DEF Moved, Run
  <2>9. CASE RemoveVG(n)
    BY <1>2, <2>1, <2>9 DEF RemoveVG, Run
  <2>10. CASE RemovePath(n)
    BY <1>2, <2>10 DEF RemovePath, Run
  <2> QED
    BY <2>1, <2>2, <2>3, <2>4, <2>5, <2>6, <2>7, <2>8, <2>9, <2>10, <2>11
       DEF Script, Find, RemoveStale, ImportClone, VolumesMounted, MountDisk, Continue,
           Look, Unmount, RemoveStateFile
<1> QED
  BY <1>1, <1>4, <1>5

\* A step that adds no fault has none.
LEMMA FaultsStep ==
    ASSUME HelperTypeOK, NEW n, Script(n)
    PROVE  faults' \in {faults, faults + 1}
<1>1. \A kind : Fault(kind) => faults' = faults + 1
  BY DEF Fault
<1>2. CASE RemoveStale(n) \/ Emergency(n) \/ RemoveVG(n)
  BY <1>1, <1>2 DEF RemoveStale, Emergency, RemoveVG, VGRemoved, VGKept
<1>3. CASE Unmount(n)
  BY <1>3, UnmountMoves
<1> QED
  BY <1>1, <1>2, <1>3 DEF Script, Find, ImportClone, Record, Activate, MountVolume,
       VolumesMounted, MountDisk, Copy, Look, ReadStateFile, RemoveStateFile, RemovePath

\* A restore that is on course has nothing below its next mount.
LEMMA NothingCovered ==
    ASSUME HelperTypeOK, NEW n \in Running, NEW v \in runs[n].todo,
           runs[n].todo \subseteq Volumes[DiskOf[runs[n].serial]],
           Layout[DiskOf[runs[n].serial]] = "lvm",
           \A m \in mounts : m.disk = DiskOf[runs[n].serial] => m.volume \notin runs[n].todo,
           \A m \in mounts : m.path = PathOf[runs[n].serial] => Own(m, runs[n].serial)
    PROVE  Own(Target(n, v), runs[n].serial) /\ ~NoDirectory(Target(n, v))
<1> DEFINE s == runs[n].serial
           vs == Volumes[DiskOf[s]]
           there == {m \in mounts : m.path = PathOf[s] /\ m.below = Several(s)
                                                     /\ (m.below => m.volume = v)}
<1>1. IsFiniteSet(vs) /\ v \in vs
  BY RunningRun, HelperAssumption
<1>2. ASSUME NEW m \in there PROVE FALSE
  <2>1. m \in mounts /\ m.path = PathOf[s] /\ m.below = Several(s) /\ Own(m, s)
    BY <1>2
  <2>2. m.volume \in vs /\ m.volume # v
    BY <2>1 DEF Own
  <2>3. ~Several(s)
    BY <1>2, <2>1, <2>2
  <2>4. Cardinality({v, m.volume}) = 2 /\ {v, m.volume} \subseteq vs
    <3>1. IsFiniteSet({v}) /\ Cardinality({v}) = 1
      BY FS_Singleton
    <3>2. Cardinality({v} \cup {m.volume}) = 2
      <4> DEFINE u == m.volume
      <4>1. u \notin {v}
        BY <2>2
      <4> HIDE DEF u
      <4>2. Cardinality({v} \cup {u}) =
              IF u \in {v} THEN Cardinality({v}) ELSE Cardinality({v}) + 1
        BY <3>1, FS_AddElement
      <4>3. Cardinality({v} \cup {u}) = 2
        BY <3>1, <4>1, <4>2
      <4> QED
        BY <4>3 DEF u
    <3>3. {v} \cup {m.volume} = {v, m.volume}
      OBVIOUS
    <3> QED BY <1>1, <2>2, <3>2, <3>3
  <2>5. Cardinality(vs) \in Nat /\ Cardinality({v, m.volume}) <= Cardinality(vs)
    BY <1>1, <2>4, FS_Subset, FS_CardinalityType
  <2> QED
    BY <2>3, <2>4, <2>5 DEF Several
<1>3. {m.by : m \in there} = {}
  BY <1>2
<1>4. /\ Target(n, v).disk = DiskOf[s] /\ Target(n, v).volume = v
      /\ Target(n, v).path = PathOf[s] /\ Target(n, v).below = Several(s)
      /\ Target(n, v).over = {m.by : m \in there}
  BY DEF Target
<1>5. Own(Target(n, v), s)
  BY <1>1, <1>3, <1>4 DEF Own
<1>6. ~NoDirectory(Target(n, v))
  BY <1>4 DEF NoDirectory, Own
<1> QED
  BY <1>5, <1>6

\* What a restore of its own has mounted it finds again.
LEMMA FindsSource ==
    ASSUME NEW n, NEW m \in mounts, m.path = PathOf[runs[n].serial],
           <<m.disk, m.volume>> \in HasSource, m.below = Several(runs[n].serial),
           m.below => m.volume \in Volumes[DiskOf[runs[n].serial]],
           \A o \in mounts : o.path = m.path => o.over = {}
    PROVE  Sources(n) # {}
<1>1. ~Covered(m)
  BY DEF Covered
<1>2. m \in Sources(n)
  <2>1. CASE Several(runs[n].serial)
    BY <1>1, <2>1 DEF Sources
  <2>2. CASE ~Several(runs[n].serial)
    BY <1>1, <2>2 DEF Sources, Top
  <2> QED BY <2>1, <2>2
<1> QED
  BY <1>2

\* The commands of a restore that is on course, without a fault.
LEMMA CourseKept ==
    ASSUME HelperTypeOK, ActiveClones, faults' = faults,
           NEW n \in 1..MaxRuns, Script(n), Worthy(runs[n]), OnCourse(n)
    PROVE  OnCourse(n)'
<1> DEFINE r == runs[n]
           s == r.serial
           d == DiskOf[s]
<1>f. \A kind : ~Fault(kind)
  BY HelperAssumption DEF Fault, HelperTypeOK
<1>r. /\ n \in Running /\ r \in Run /\ s \in Serials /\ d \in Disks
      /\ r.at # "ended" /\ s \in attached /\ s = plugged /\ r.exit = 0 /\ r.mode = "restore"
      /\ HasWork(s) /\ Layout[d] # "blank" /\ r.at # "emergency"
  BY ScriptKeepsOrphan, RunningRun DEF Running, OnCourse, Worthy, HasWork
<1>p. Present(d)
  BY <1>r DEF Present
<1>s. runs'[n].serial = s
  BY ScriptKeepsOrphan DEF OnlyRun, SameCall
<1>u. plugged' = plugged /\ attached' = attached
  BY DEF Script, Find, RemoveStale, ImportClone, Record, Emergency, Activate, MountVolume,
         VolumesMounted, MountDisk, Copy, Look, ReadStateFile, Unmount, RemoveVG,
         RemoveStateFile, RemovePath
<1>1. CASE Find(n)
  <2>1. Goto(n, IF Layout[d] = "lvm" THEN "stale" ELSE "mount")
    BY <1>1, <1>f, <1>r DEF Find
  <2>2. runs'[n] = [r EXCEPT !.at = IF Layout[d] = "lvm" THEN "stale" ELSE "mount"]
    BY <1>r, <2>1, GoesOn DEF Moved, Steps
  <2>3. runs'[n].at = (IF Layout[d] = "lvm" THEN "stale" ELSE "mount") /\ runs'[n].exit = 0
    BY <1>r, <2>2 DEF Run
  <2>4. r.at = "find" /\ UNCHANGED <<attached, group, mounts>>
    BY <1>1 DEF Find, At
  <2> QED
    BY <1>r, <1>s, <1>u, <2>3, <2>4 DEF OnCourse
<1>2. CASE RemoveStale(n)
  <2>1. r.at = "stale" /\ UNCHANGED <<attached, mounts>> /\ ~VGExists(s)
    BY <1>2, HelperAssumption, <1>r DEF RemoveStale, At, OnCourse, VGExists
  <2>2. Goto(n, "import") /\ group' = group
    BY <1>2, <2>1 DEF RemoveStale, VGRemoved
  <2>a. Moved(n, [r EXCEPT !.at = "import"])
    BY <1>r, <2>2, GoesOn DEF Steps
  <2>3. runs'[n].at = "import" /\ runs'[n].exit = 0
    BY <1>r, <2>a DEF Moved, Run
  <2> QED
    BY <1>r, <1>s, <1>u, <2>1, <2>2, <2>3 DEF OnCourse
<1>3. CASE ImportClone(n)
  <2>1. r.at = "import" /\ UNCHANGED <<attached, mounts>> /\ group[d] = "source"
    BY <1>3 DEF ImportClone, At, OnCourse
  <2>2. d \notin active /\ group[d] # None
    BY <2>1, HelperAssumption DEF ActiveClones
  <2>3. Goto(n, "record") /\ group' = [group EXCEPT ![d] = s]
    BY <1>3, <1>f, <1>p, <2>2 DEF ImportClone
  <2>a. Moved(n, [r EXCEPT !.at = "record"])
    BY <1>r, <2>3, GoesOn DEF Steps
  <2>4. runs'[n].at = "record" /\ runs'[n].exit = 0
    BY <1>r, <2>a DEF Moved, Run
  <2>5. group'[d] = s
    BY <1>r, <2>3 DEF HelperTypeOK
  <2> QED
    BY <1>r, <1>s, <1>u, <2>1, <2>4, <2>5 DEF OnCourse
<1>4. CASE Record(n)
  <2>1. r.at = "record" /\ UNCHANGED <<mounts, group>>
    BY <1>4 DEF Record, At
  <2>a. runs'[n].at = "activate"
    <3>1. runs' = [runs EXCEPT ![n].at = "activate", ![n].overtaken = Forgotten(n)]
      BY <1>4, <1>f DEF Record, Forgotten
    <3>2. n \in DOMAIN runs
      BY <1>r DEF Running
    <3> HIDE DEF Forgotten
    <3> QED
      BY <1>r, <3>1, <3>2 DEF Run
  <2>b. ~Moved(n, [r EXCEPT !.at = "emergency"])
    BY <1>r, <2>a DEF Moved, Run
  <2>2. Moved(n, [r EXCEPT !.at = "activate", !.overtaken = Forgotten(n)])
    BY <1>4, <2>b, RecordMoves
  <2> HIDE DEF Forgotten
  <2>3. runs'[n].at = "activate" /\ runs'[n].exit = 0
    BY <1>r, <2>2 DEF Moved, Run
  <2> QED
    BY <1>r, <1>s, <1>u, <2>1, <2>3 DEF OnCourse
<1>5. CASE Emergency(n)
  BY <1>5, <1>r DEF Emergency, At
<1>6. CASE Activate(n)
  <2>1. r.at = "activate" /\ UNCHANGED <<attached, mounts, group>> /\ VGExists(s)
    BY <1>6, <1>p DEF Activate, At, OnCourse, VGExists
  <2>2. /\ active' = active \cup {d}
        /\ runs' = [runs EXCEPT ![n].at = "volumes", ![n].todo = Volumes[d]]
    BY <1>6, <1>f, <2>1 DEF Activate
  <2>3. runs'[n].at = "volumes" /\ runs'[n].exit = 0 /\ runs'[n].todo = Volumes[d]
    <3>1. runs \in Seq(Run) /\ n \in DOMAIN runs
      BY <1>r DEF HelperTypeOK, Running
    <3> QED
      BY <1>r, <2>2, <3>1 DEF Run
  <2>4. /\ d \in active' /\ runs'[n].todo \subseteq Volumes[d]
        /\ (Volumes[d] \ Unmountable) \ runs'[n].todo = {}
    BY <2>2, <2>3
  <2>5. /\ group'[d] = s /\ Layout[d] = "lvm"
        /\ ~\E m \in mounts' : m.disk = d \/ m.path = PathOf[s]
    BY <1>r, <2>1 DEF OnCourse
  <2> QED
    BY <1>r, <1>s, <1>u, <2>3, <2>4, <2>5 DEF OnCourse
<1>7. CASE MountVolume(n)
  <2>1. /\ r.at = "volumes" /\ UNCHANGED <<group, active>>
        /\ group[d] = s /\ d \in active /\ Layout[d] = "lvm" /\ r.todo \subseteq Volumes[d]
        /\ \A m \in mounts : m.disk = d => m.volume \notin r.todo
        /\ \A m \in mounts : m.path = PathOf[s] => Own(m, s)
        /\ \A u \in (Volumes[d] \ Unmountable) \ r.todo :
              r.mounted /\ \E m \in mounts : m.path = PathOf[s] /\ m.volume = u
    BY <1>7 DEF MountVolume, At, OnCourse
  <2>2. \A v \in r.todo : Own(Target(n, v), s) /\ ~NoDirectory(Target(n, v))
    BY <1>r, <2>1, NothingCovered
  <2>3. PICK v \in r.todo :
           \/ /\ mounts' = mounts \cup {Target(n, v)}
              /\ Moved(n, [r EXCEPT !.todo = @ \ {v}, !.mounted = TRUE])
           \/ /\ mounts' = mounts /\ ~Mountable(n, v)
              /\ Moved(n, [r EXCEPT !.todo = @ \ {v}])
    <3>1. faults' # faults + 1
      BY HelperAssumption DEF HelperTypeOK
    <3> QED
      BY <1>7, <2>2, <3>1, MountVolumeMoves
  <2>4. /\ runs'[n].at = "volumes" /\ runs'[n].exit = 0 /\ runs'[n].todo = r.todo \ {v}
        /\ r.mounted => runs'[n].mounted
    BY <1>r, <2>1, <2>3 DEF Moved, Run
  <2>5. /\ Target(n, v).disk = d /\ Target(n, v).volume = v
        /\ Target(n, v).path = PathOf[s] /\ Own(Target(n, v), s)
    BY <2>2 DEF Target
  <2>6. /\ \A m \in mounts' : m.disk = d => m.volume \notin r.todo \ {v}
        /\ \A m \in mounts' : m.path = PathOf[s] => Own(m, s)
    BY <2>1, <2>3, <2>5
  <2>7. ASSUME v \notin Unmountable
        PROVE  runs'[n].mounted /\ \E m \in mounts' : m.path = PathOf[s] /\ m.volume = v
    <3>1. Mountable(n, v)
      <4>1. ~\E m \in mounts : m.disk = d /\ m.volume = v
        BY <2>1
      <4> QED
        BY <1>p, <2>1, <2>5, <2>7, <4>1 DEF Mountable
    <3>2. /\ mounts' = mounts \cup {Target(n, v)}
          /\ Moved(n, [r EXCEPT !.todo = @ \ {v}, !.mounted = TRUE])
      BY <2>3, <3>1
    <3>3. runs'[n].mounted
      BY <1>r, <3>2 DEF Moved, Run
    <3> QED
      BY <2>5, <3>2, <3>3
  <2>8. mounts \subseteq mounts'
    BY <2>3
  <2>9. \A u \in (Volumes[d] \ Unmountable) \ (r.todo \ {v}) :
           runs'[n].mounted /\ \E m \in mounts' : m.path = PathOf[s] /\ m.volume = u
    BY <2>1, <2>4, <2>7, <2>8
  <2> QED
    BY <1>r, <1>s, <1>u, <2>1, <2>4, <2>6, <2>9 DEF OnCourse, Own
<1>8. CASE VolumesMounted(n)
  <2> DEFINE usable == Volumes[d] \ Unmountable
  <2>1. /\ r.at = "volumes" /\ r.todo = {} /\ Layout[d] = "lvm" /\ mounts' = mounts
        /\ \A v \in usable :
              r.mounted /\ \E m \in mounts : m.path = PathOf[s] /\ m.volume = v
        /\ \A m \in mounts : m.path = PathOf[s] => Own(m, s)
    BY <1>8 DEF VolumesMounted, At, OnCourse
  <2>2. usable # {} /\ (s \notin Manual => \E v \in usable : <<d, v>> \in HasSource)
    BY <1>r, <2>1 DEF HasWork
  <2>3. r.mounted
    BY <2>1, <2>2
  <2>4. Continue(n)
    BY <1>8, <2>3 DEF VolumesMounted
  <2>5. CASE s \in Manual
    <3>a. Moved(n, [r EXCEPT !.at = "ended", !.exit = 0])
      BY <1>r, <2>4, <2>5, ContinueMoves
    <3>1. runs'[n].at = "ended" /\ runs'[n].exit = 0
      BY <1>r, <3>a DEF Moved, Run
    <3> QED
      BY <1>r, <1>s, <1>u, <3>1 DEF OnCourse
  <2>6. CASE s \notin Manual
    <3>a. Moved(n, [r EXCEPT !.at = "copy"])
      BY <1>r, <2>4, <2>6, ContinueMoves
    <3>1. runs'[n].at = "copy" /\ runs'[n].exit = 0
      BY <1>r, <3>a DEF Moved, Run
    <3>2. PICK v \in usable : <<d, v>> \in HasSource
      BY <2>2, <2>6
    <3>3. PICK m \in mounts : m.path = PathOf[s] /\ m.volume = v
      BY <2>1, <3>2
    <3>4. Own(m, s) /\ \A o \in mounts : o.path = m.path => o.over = {}
      BY <2>1, <3>3 DEF Own
    <3>5. Sources(n) # {}
      BY <3>2, <3>3, <3>4, FindsSource DEF Own
    <3>6. Sources(n)' = Sources(n)
      BY <1>s, <2>1 DEF Sources, Top, Covered
    <3> QED
      BY <1>r, <1>s, <1>u, <3>1, <3>5, <3>6 DEF OnCourse
  <2> QED
    BY <2>5, <2>6
<1>9. CASE MountDisk(n)
  <2> DEFINE m == Target(n, None)
  <2>1. /\ r.at = "mount" /\ Layout[d] # "lvm"
        /\ ~\E o \in mounts : o.disk = d \/ o.path = PathOf[s]
    BY <1>9 DEF MountDisk, At, OnCourse
  <2>2. /\ m.disk = d /\ m.volume = None /\ m.path = PathOf[s]
        /\ m.below = Several(s) /\ ~Several(s) /\ m.over = {}
    BY <2>1 DEF Target, Several
  <2>3. Mountable(n, None)
    BY <1>p, <2>1, <2>2 DEF Mountable
  <2>4. mounts' = mounts \cup {m} /\ Continue(n)
    BY <1>9, <1>f, <2>3 DEF MountDisk
  <2> HIDE DEF m
  <2>5. CASE s \in Manual
    <3>a. Moved(n, [r EXCEPT !.at = "ended", !.exit = 0])
      BY <1>r, <2>4, <2>5, ContinueMoves
    <3>1. runs'[n].at = "ended" /\ runs'[n].exit = 0
      BY <1>r, <3>a DEF Moved, Run
    <3> QED
      BY <1>r, <1>s, <1>u, <3>1 DEF OnCourse
  <2>6. CASE s \notin Manual
    <3>a. Moved(n, [r EXCEPT !.at = "copy"])
      BY <1>r, <2>4, <2>6, ContinueMoves
    <3>1. runs'[n].at = "copy" /\ runs'[n].exit = 0
      BY <1>r, <3>a DEF Moved, Run
    <3>2. <<d, None>> \in HasSource
      BY <1>r, <2>1, <2>6 DEF HasWork
    <3>3. \A o \in mounts' : o.path = PathOf[s] => o.over = {}
      BY <2>1, <2>2, <2>4
    <3>4. m \in Sources(n)'
      BY <1>s, <2>2, <2>4, <3>2, <3>3 DEF Sources, Top, Covered
    <3> QED
      BY <1>r, <1>s, <1>u, <3>1, <3>4 DEF OnCourse
  <2> QED
    BY <2>5, <2>6
<1>10. CASE Copy(n)
  <2>1. r.at = "copy" /\ Sources(n) # {}
    BY <1>10 DEF Copy, At, OnCourse
  <2>2. PICK e \in Disks : Moved(n, [r EXCEPT !.copied = e, !.at = "look"])
    <3>1. ~(Sources(n) # {} => faults' = faults + 1)
      BY <2>1, HelperAssumption DEF HelperTypeOK
    <3> QED
      BY <1>10, <3>1, CopyMoves
  <2>3. runs'[n].at = "look" /\ runs'[n].exit = 0
    BY <1>r, <2>2 DEF Moved, Run
  <2> QED
    BY <1>r, <1>s, <1>u, <2>3 DEF OnCourse
<1>11. CASE Look(n) \/ RemoveStateFile(n) \/ Unmount(n)
  <2>1. PICK step \in {"unmount", "read", "remove", "vg", "forget"} :
           Moved(n, [r EXCEPT !.at = step])
    BY <1>11, LookMoves, ForgetMoves, UnmountMoves
  <2>2. runs'[n].at = step /\ runs'[n].exit = 0
    BY <1>r, <2>1 DEF Moved, Run
  <2> QED
    BY <1>r, <1>s, <1>u, <2>2 DEF OnCourse
<1>12. CASE ReadStateFile(n) \/ RemoveVG(n)
  <2>1. \/ \E vg : Moved(n, [r EXCEPT !.at = "unmount", !.vg = vg])
        \/ Moved(n, [r EXCEPT !.at = "forget"])
        \/ Moved(n, [r EXCEPT !.at = "remove", !.rc = 1])
    <3>1. CASE ReadStateFile(n)
      <4>1. r.exit # 1
        BY <1>r
      <4> QED
        BY <3>1, <4>1, ReadMoves
    <3>2. CASE RemoveVG(n)
      BY <3>2, RemoveVGMoves
    <3> QED BY <1>12, <3>1, <3>2
  <2>2. runs'[n].at \in {"unmount", "forget", "remove"} /\ runs'[n].exit = 0
    BY <1>r, <2>1 DEF Moved, Run
  <2> QED
    BY <1>r, <1>s, <1>u, <2>2 DEF OnCourse
<1>13. CASE RemovePath(n)
  <2>1. PICK rc \in {0, 1} :
           Moved(n, [r EXCEPT !.at = "ended", !.rc = rc,
                        !.exit = IF r.mode = "cleanup" THEN rc ELSE @])
    BY <1>13, RemovePathMoves
  <2>2. runs'[n].at = "ended" /\ runs'[n].exit = 0
    BY <1>r, <2>1 DEF Moved, Run
  <2> QED
    BY <1>r, <1>s, <1>u, <2>2 DEF OnCourse
<1> QED
  BY <1>1, <1>2, <1>3, <1>4, <1>5, <1>6, <1>7, <1>8, <1>9, <1>10, <1>11, <1>12, <1>13
     DEF Script

\* The script keeps what is known of undisturbed runs: the one that moves is alone, or
\* the others are over.
LEMMA ScriptQuiet ==
    ASSUME HelperTypeOK, QuietInv, NEW k \in 1..MaxRuns, Script(k),
           NEW n \in DOMAIN runs', Undisturbed(n)'
    PROVE  Alone(n)' /\ (Worthy(runs'[n]) => OnCourse(n)')
<1>1. /\ k \in Running /\ DOMAIN runs' = DOMAIN runs
      /\ \A j \in DOMAIN runs \ {k} : runs'[j] = runs[j]
      /\ runs'[k].orphan = runs[k].orphan /\ SameCall(runs[k], runs'[k])
  BY ScriptKeepsOrphan DEF OnlyRun
<1>2. runs'[n].since = runs[n].since /\ runs'[n].free = runs[n].free
  BY <1>1 DEF SameCall
<1>3. faults' = faults
  <2>1. runs[n].since \in Nat /\ faults \in Nat /\ runs[n].since <= faults
    BY <1>1, EachRun, HelperAssumption DEF HelperTypeOK, QuietInv, Run
  <2> QED
    BY <1>2, <2>1, FaultsStep DEF Undisturbed
<1>4. Alone(n) /\ (Worthy(runs[n]) => OnCourse(n))
  BY <1>1, <1>2, <1>3 DEF QuietInv, Undisturbed
<1>5. CASE n = k
  <2>1. Worthy(runs'[n]) => Worthy(runs[n])
    BY <1>1, <1>5 DEF Worthy, SameCall
  <2>2. Worthy(runs'[n]) => OnCourse(n)'
    BY <1>3, <1>4, <1>5, <2>1, CourseKept DEF QuietInv
  <2>3. Alone(n)'
    BY <1>1, <1>4, <1>5 DEF Alone, Running
  <2> QED
    BY <2>2, <2>3
<1>6. CASE n # k
  <2>1. runs[n].at = "ended" /\ runs'[n] = runs[n]
    BY <1>1, <1>4, <1>6 DEF Alone, Running
  <2> QED
    BY <1>4, <2>1 DEF Alone, Running, OnCourse
<1> QED
  BY <1>5, <1>6

\* A step that keeps the runs and the faults, and the disk of a run that is not over.
LEMMA IdleQuiet ==
    ASSUME QuietInv, runs' = runs, faults' = faults, NEW n \in DOMAIN runs, Undisturbed(n)',
           \/ runs[n].at = "ended"
           \/ /\ plugged' = plugged /\ UNCHANGED <<group, active, mounts>>
              /\ runs[n].serial = plugged /\ plugged \in attached => plugged \in attached'
    PROVE  Alone(n)' /\ (Worthy(runs'[n]) => OnCourse(n)')
<1>1. Alone(n) /\ (Worthy(runs[n]) => OnCourse(n))
  BY DEF QuietInv, Undisturbed
<1>2. Alone(n)'
  BY <1>1 DEF Alone, Running
<1>3. ASSUME Worthy(runs[n]), runs[n].at = "ended" PROVE OnCourse(n)'
  BY <1>1, <1>3 DEF OnCourse
<1>4. ASSUME Worthy(runs[n]), runs[n].at # "ended" PROVE OnCourse(n)'
  <2>1. /\ plugged' = plugged /\ UNCHANGED <<group, active, mounts>>
        /\ OnCourse(n) /\ plugged \in attached'
    BY <1>1, <1>4 DEF OnCourse
  <2> QED
    BY <1>4, <2>1 DEF OnCourse, Own, Sources, Top, Covered
<1> QED
  BY <1>2, <1>3, <1>4

\* Every step keeps QuietInv.
LEMMA QuietStep ==
    ASSUME HelperTypeOK, HelperTypeOK', GroupsNamed, QuietInv, [Next]_vars
    PROVE  QuietInv'
<1>a. ActiveClones'
  BY ActiveStep DEF QuietInv
<1>n. faults \in Nat /\ \A n \in DOMAIN runs : runs[n].since \in Nat
  BY EachRun, HelperAssumption DEF HelperTypeOK, Run
<1> DEFINE Good == \A n \in DOMAIN runs' :
              /\ runs'[n].since <= faults'
              /\ Undisturbed(n)' => Alone(n)' /\ (Worthy(runs'[n]) => OnCourse(n)')
<1>o. ASSUME NEW n \in DOMAIN runs, Undisturbed(n), OnlyOrphans
      PROVE  runs[n].at = "ended"
  BY <1>o DEF QuietInv, Alone, OnlyOrphans, Running
\* A step with a fault disturbs all runs.
<1>f. ASSUME faults' = faults + 1, DOMAIN runs' = DOMAIN runs,
             \A n \in DOMAIN runs : runs'[n].since = runs[n].since
      PROVE  Good
  BY <1>f, <1>n DEF QuietInv, Undisturbed
<1>1. ASSUME (\E s \in Serials : Plug(s) \/ Detach(s)) \/ Unplug PROVE Good
  <2>1. UNCHANGED <<runs, faults, active, mounts>>
    BY <1>1 DEF Plug, Detach, Unplug
  <2>2. ASSUME NEW n \in DOMAIN runs, Undisturbed(n), Worthy(runs[n]), runs[n].at # "ended"
        PROVE  /\ plugged' = plugged /\ group' = group
               /\ plugged \in attached => plugged \in attached'
    <3>1. runs[n].serial = plugged /\ plugged \in Serials /\ ~OnlyOrphans
      BY <1>o, <2>2 DEF QuietInv, OnCourse, HelperTypeOK, Run
    <3> QED
      BY <1>1, <3>1, HelperAssumption DEF Plug, Detach, Unplug
  <2>3. ASSUME NEW n \in DOMAIN runs, Undisturbed(n)'
        PROVE  Alone(n)' /\ (Worthy(runs'[n]) => OnCourse(n)')
    <3>1. Undisturbed(n)
      BY <2>1, <2>3 DEF Undisturbed
    <3>2. CASE Worthy(runs[n])
      BY <2>1, <2>2, <2>3, <3>1, <3>2, IdleQuiet
    <3>3. CASE ~Worthy(runs[n])
      BY <2>1, <3>1, <3>3 DEF QuietInv, Alone, Running
    <3> QED BY <3>2, <3>3
  <2> QED
    BY <2>1, <2>3 DEF QuietInv
<1>2. ASSUME NEW mode \in {"restore", "cleanup"}, NEW s \in Serials, Start(mode, s)
      PROVE  Good
  <2> DEFINE n == Len(runs) + 1
             q == Started(mode, s)
  <2>1. OnlyOrphans /\ UNCHANGED <<plugged, attached, group, active, mounts, faults>>
    BY <1>2 DEF Start
  <2>2. /\ n \notin DOMAIN runs /\ DOMAIN runs' = DOMAIN runs \cup {n}
        /\ \A k \in DOMAIN runs : runs'[k] = runs[k]
        /\ runs'[n] = q
    BY <1>2, StartMoves
  <2> HIDE DEF n
  <2>3. /\ ~q.orphan /\ q.since = faults /\ q.mode = mode /\ q.serial = s /\ q.exit = 0
        /\ q.at = (IF mode = "restore" THEN "find" ELSE "look")
        /\ q.free = (/\ Running = {} /\ ~InUse(DiskOf[s])
                     /\ ~\E m \in mounts : m.path = PathOf[s])
        /\ q.fresh = (Layout[DiskOf[s]] = "lvm" => group[DiskOf[s]] = "source")
    BY DEF Started
  <2> HIDE DEF q
  <2>4. ASSUME NEW k \in DOMAIN runs, Undisturbed(k)'
        PROVE  Alone(k)' /\ (Worthy(runs'[k]) => OnCourse(k)')
    <3>1. Undisturbed(k) /\ runs'[k] = runs[k]
      BY <2>1, <2>2, <2>4 DEF Undisturbed
    <3>2. runs[k].at = "ended" /\ (Worthy(runs[k]) => OnCourse(k))
      BY <1>o, <2>1, <3>1 DEF QuietInv
    <3> QED
      BY <3>1, <3>2 DEF Alone, Running, OnCourse
  <2>5. ASSUME NEW k, k = n, Undisturbed(k)'
        PROVE  Alone(k)' /\ (Worthy(runs'[k]) => OnCourse(k)')
    <3>1. q.free /\ runs'[k] = q
      BY <2>2, <2>5 DEF Undisturbed
    <3>2. /\ Running = {} /\ ~\E m \in mounts : m.disk = DiskOf[s] \/ m.path = PathOf[s]
      BY <2>3, <3>1 DEF InUse
    <3>3. Alone(k)'
      BY <2>2, <2>3, <2>5, <3>2 DEF Alone, Running
    <3>4. ASSUME Worthy(q) PROVE OnCourse(k)'
      <4>1. /\ mode = "restore" /\ q.at = "find"
            /\ Layout[DiskOf[s]] = "lvm" => group[DiskOf[s]] = "source"
        BY <2>3, <3>4 DEF Worthy
      <4>2. s = plugged /\ s \in attached
        BY <1>2, <4>1 DEF Start
      <4> QED
        BY <2>1, <2>3, <3>1, <3>2, <4>1, <4>2 DEF OnCourse
    <3> QED
      BY <3>1, <3>3, <3>4
  <2>6. \A k \in DOMAIN runs' : runs'[k].since <= faults'
    BY <1>n, <2>1, <2>2, <2>3 DEF QuietInv
  <2> QED
    BY <2>2, <2>4, <2>5, <2>6
<1>3. ASSUME NEW n \in 1..MaxRuns, Abandon(n) PROVE Good
  <2>1. faults' = faults + 1 /\ OnlyRun(n)
    BY <1>3, AbandonMoves DEF Abandon, Fault, Moved
  <2> QED
    BY <1>f, <2>1 DEF OnlyRun, SameCall
<1>d. ASSUME NEW k \in 1..MaxRuns, Die(k) PROVE Good
  <2>1. /\ k \in Running /\ runs[k].orphan /\ OnlyRun(k) /\ faults' = faults
        /\ runs'[k] = Cut(runs[k])
    BY <1>d, DieMoves DEF Die, Moved
  <2>2. DOMAIN runs' = DOMAIN runs /\ \A n \in DOMAIN runs : runs'[n].since = runs[n].since
    BY <2>1 DEF OnlyRun, SameCall
  <2>3. ASSUME NEW n \in DOMAIN runs, Undisturbed(n)'
        PROVE  Alone(n)' /\ (Worthy(runs'[n]) => OnCourse(n)')
    <3>1. Undisturbed(n)
      BY <2>1, <2>3 DEF Undisturbed, OnlyRun, SameCall
    <3>2. Alone(n) /\ (Worthy(runs[n]) => OnCourse(n))
      BY <3>1 DEF QuietInv
    <3>3. n # k /\ runs[n].at = "ended"
      BY <2>1, <3>2 DEF Alone, Running
    <3>4. runs'[n] = runs[n]
      BY <2>1, <3>3 DEF OnlyRun
    <3> QED
      BY <3>2, <3>3, <3>4 DEF Alone, Running, OnCourse
  <2> QED
    BY <2>1, <2>2, <2>3 DEF QuietInv
<1>4. ASSUME NEW k \in 1..MaxRuns, Script(k) PROVE Good
  <2>1. DOMAIN runs' = DOMAIN runs /\ \A n \in DOMAIN runs : runs'[n].since = runs[n].since
    BY <1>4, ScriptKeepsOrphan DEF OnlyRun, SameCall
  <2>2. \A n \in DOMAIN runs : runs'[n].since <= faults'
    BY <1>4, <1>n, <2>1, FaultsStep DEF QuietInv
  <2> QED
    BY <1>4, <2>1, <2>2, ScriptQuiet
<1>5. ASSUME NEW m \in held, Release(m) PROVE Good
  <2>1. UNCHANGED <<plugged, attached, group, active, mounts, runs, faults>>
    BY <1>5 DEF Release
  <2> QED
    BY <2>1, IdleQuiet DEF QuietInv
<1>6. ASSUME Reboot PROVE Good
  <2>1. \A n \in Running : Cut(runs[n]).since = runs[n].since
    BY RunningRun, CutRun DEF SameCall
  <2>2. /\ DOMAIN runs' = DOMAIN runs
        /\ \A n \in DOMAIN runs : runs'[n].since = runs[n].since
    BY <1>6, <2>1, RebootMoves
  <2> QED
    BY <1>6, <1>f, <2>2 DEF Reboot, Fault
<1>7. ASSUME UNCHANGED vars PROVE Good
  <2>1. UNCHANGED <<plugged, attached, group, active, mounts, runs, faults>>
    BY <1>7 DEF vars
  <2> QED
    BY <2>1, IdleQuiet DEF QuietInv
<1>8. Good
  <2> HIDE DEF Good
  <2> QED
    BY <1>1, <1>2, <1>3, <1>d, <1>4, <1>5, <1>6, <1>7 DEF Next
<1> QED
  BY <1>a, <1>8 DEF QuietInv

\* The guest starts quiet.
LEMMA QuietInit == Init => QuietInv
  BY DEF Init, QuietInv, ActiveClones

\* A restore of a disk in its original state that starts when nothing uses the disk or
\* the path, and has something to restore, succeeds unless something fails while it
\* runs: nothing that earlier calls, which may have failed, died or been given up, have
\* left on the disks, in state files or in the mount table stops it.
THEOREM FreshRestores == Spec => []FreshRestoreSucceeds
<1> DEFINE Inv == HelperTypeOK /\ GroupsNamed /\ QuietInv
<1>1. Init => Inv
  BY HelperInitType, QuietInit DEF Init, GroupsNamed
<1>2. Inv /\ [Next]_vars => Inv'
  BY HelperStepType, QuietStep
<1>3. Inv => FreshRestoreSucceeds
  <2> SUFFICES ASSUME Inv, NEW n \in DOMAIN runs, FailsUndisturbed(n), runs[n].fresh
               PROVE  FALSE
    BY DEF FreshRestoreSucceeds
  <2>1. Undisturbed(n) /\ Worthy(runs[n]) /\ runs[n].exit = 1
    BY DEF FailsUndisturbed, Undisturbed, Worthy
  <2> QED
    BY <2>1 DEF QuietInv, OnCourse
<1> QED
  <2> HIDE DEF Inv
  <2> QED BY <1>1, <1>2, <1>3, PTL DEF Spec
=============================================================================
