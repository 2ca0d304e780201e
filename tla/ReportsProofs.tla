--------------------------- MODULE ReportsProofs ---------------------------
(***************************************************************************)
(* What the status of a restore says is true, however old the copy was     *)
(* that a handler worked on.  A handler decides on its copy and writes the *)
(* stored object, so a report is only as good as what the copy lets one    *)
(* conclude about the stored object.  Two facts carry the proof:           *)
(*                                                                         *)
(*  - the mount path and the count of restored files, once written, stay:  *)
(*    a copy that may be acted upon is behind the stored object in both    *)
(*    (CopiesAreBehind).  That the stored object is still the one that was *)
(*    copied is what the finalizer ensures (ObjectInv);                    *)
(*  - on its way to a write the worker holds a copy that backs what it is  *)
(*    about to report (PlansAreBacked).                                    *)
(*                                                                         *)
(* Everything here holds for every set of lagging caches and faults.       *)
(***************************************************************************)
EXTENDS NoOrphansProofs

\* The worker runs a phase handler.
Working == cur # None /\ ~Finalizing /\ ~Unprotected

\* What object o has recorded, p has recorded too.
Behind(o, p) ==
    (o.mountPath => p.mountPath) /\ (o.restoredFilesCount => p.restoredFilesCount)

\* An object has recorded what its phase says has been done.
Consistent(o) ==
    /\ o.phase \notin {"New", "Failed"} => o.mountPath
    /\ o.phase \in {"Cleanup", "Succeeded"} => o.restoredFilesCount

CopiesAreBehind ==
    /\ \A r \in Restores : Acts(cvmfr[r]) => Behind(cvmfr[r], vmfr[r])
    /\ Working => Behind(loc, vmfr[cur])

AllConsistent ==
    /\ Consistent(loc)
    /\ \A r \in Restores : Consistent(vmfr[r]) /\ Consistent(cvmfr[r])

CountIsCopied ==
    /\ \A r \in Restores : vmfr[r].restoredFilesCount => r \in Automatic /\ r \in copied
    /\ helper = "ok" /\ cur \in Automatic => cur \in copied

PlansAreBacked ==
    /\ pc = "transition" =>
          /\ then \in {"Hotplugging", "WaitingForAttachment", "SSHConnecting",
                       "Restoring", "Succeeded"}
          /\ loc.mountPath
          /\ then = "Succeeded" => loc.restoredFilesCount
    /\ pc \in {"plug", "helper"} => loc.mountPath
    /\ pc = "verify" \/ then = "verify" => loc.mountPath /\ loc.restoredFilesCount

ReportInv == CopiesAreBehind /\ AllConsistent /\ CountIsCopied /\ PlansAreBacked

(***************************************************************************)
(* The updates of a restore object.                                        *)
(***************************************************************************)

\* The same is recorded, in the same phase.
SameReport(o, p) ==
    /\ o.phase = p.phase /\ o.mountPath = p.mountPath
    /\ o.restoredFilesCount = p.restoredFilesCount

\* The checks of a handler, the finalizer, a deletion and time change no report.
LEMMA UpdateReport ==
    ASSUME NEW o \in VMFR
    PROVE  /\ SameReport(Aged(o), o) /\ SameReport(WithFinalizer(o), o)
           /\ \A check \in Checks : SameReport(Stamped(o, check), o)
           /\ \A check \in Checks : SameReport(Retried(o, check), o)
           /\ \A check \in Checks : SameReport(RetriesReset(o, check), o)
           /\ o.finalizer => SameReport(Marked(o), o)
           /\ ~o.deleting => SameReport(WithoutFinalizer(o), o)
<1>1. SameReport(Aged(o), o) /\ SameReport(WithFinalizer(o), o)
  BY DEF Aged, WithFinalizer, SameReport, VMFR
<1>2. \A check \in Checks : SameReport(Stamped(o, check), o)
  BY DEF Stamped, Checks, SameReport, VMFR
<1>3. \A check \in Checks : SameReport(Retried(o, check), o)
  BY DEF Retried, Checks, SameReport, VMFR
<1>4. \A check \in Checks : SameReport(RetriesReset(o, check), o)
  BY DEF RetriesReset, Checks, SameReport, VMFR
<1>5. o.finalizer => SameReport(Marked(o), o)
  BY DEF Marked, SameReport, VMFR
<1>6. ~o.deleting => SameReport(WithoutFinalizer(o), o)
  BY DEF WithoutFinalizer, SameReport, VMFR
<1> QED
  BY <1>1, <1>2, <1>3, <1>4, <1>5, <1>6

\* The writes that do change a report.
LEMMA NewReport ==
    ASSUME NEW o \in VMFR
    PROVE  /\ WithMountPath(o).mountPath /\ WithMountPath(o).phase = o.phase
           /\ WithMountPath(o).restoredFilesCount = o.restoredFilesCount
           /\ \A phase \in Phases :
                 /\ WithPhase(o, phase).phase = phase
                 /\ WithPhase(o, phase).mountPath = o.mountPath
                 /\ WithPhase(o, phase).restoredFilesCount = o.restoredFilesCount
           /\ \A r \in Restores :
                 /\ Restored(o, r \in Automatic).mountPath = o.mountPath
                 /\ r \in Automatic =>
                       /\ Restored(o, r \in Automatic).phase = "Cleanup"
                       /\ Restored(o, r \in Automatic).restoredFilesCount
                 /\ r \notin Automatic =>
                       /\ Restored(o, r \in Automatic).phase = "VolumeReady"
                       /\ Restored(o, r \in Automatic).restoredFilesCount
                              = o.restoredFilesCount
<1>1. /\ WithMountPath(o).mountPath /\ WithMountPath(o).phase = o.phase
      /\ WithMountPath(o).restoredFilesCount = o.restoredFilesCount
  BY DEF WithMountPath, VMFR
<1>2. ASSUME NEW phase \in Phases
      PROVE  /\ WithPhase(o, phase).phase = phase
             /\ WithPhase(o, phase).mountPath = o.mountPath
             /\ WithPhase(o, phase).restoredFilesCount = o.restoredFilesCount
  BY DEF WithPhase, VMFR
<1>3. ASSUME NEW r \in Restores
      PROVE  /\ Restored(o, r \in Automatic).mountPath = o.mountPath
             /\ r \in Automatic =>
                   /\ Restored(o, r \in Automatic).phase = "Cleanup"
                   /\ Restored(o, r \in Automatic).restoredFilesCount
             /\ r \notin Automatic =>
                   /\ Restored(o, r \in Automatic).phase = "VolumeReady"
                   /\ Restored(o, r \in Automatic).restoredFilesCount = o.restoredFilesCount
  BY DEF Restored, VMFR
<1> QED
  BY <1>1, <1>2, <1>3

\* The object that is not there, and a new one, report nothing.
LEMMA BlankReport ==
    /\ Consistent(NoVMFR) /\ ~NoVMFR.restoredFilesCount
    /\ \A uid \in Nat : Consistent(Created(uid)) /\ ~Created(uid).restoredFilesCount
  BY DEF NoVMFR, Created, Consistent

(***************************************************************************)
(* The steps.                                                              *)
(***************************************************************************)

\* What a write of the worker may make of the stored object: nothing recorded is
\* lost, the phase is backed, and a count is one of files that were copied.
SoundWrite(new) ==
    /\ new \in VMFR /\ Behind(vmfr[cur], new) /\ Consistent(new)
    /\ new.restoredFilesCount => cur \in Automatic /\ cur \in copied

\* A step of a handler keeps ReportInv: it returns, or goes on with a plan that its
\* copy backs; it writes nothing, or the stored object as SoundWrite says.
LEMMA WorkerReports ==
    ASSUME TypeOK, ReportInv, cur \in Restores,
           UNCHANGED <<cvmfr, copied>>, helper' # "ok", PlansAreBacked',
           \/ vmfr' = vmfr
           \/ \E new : SoundWrite(new) /\ vmfr' = [vmfr EXCEPT ![cur] = new],
           \/ WorkerReturns
           \/ /\ cur' = cur /\ (Working' => Working)
              /\ loc' = loc \/ (SoundWrite(loc') /\ vmfr' = [vmfr EXCEPT ![cur] = loc'])
    PROVE  ReportInv'
<1>1. /\ \A r \in Restores \ {cur} : vmfr'[r] = vmfr[r]
      /\ vmfr'[cur] = vmfr[cur] \/ SoundWrite(vmfr'[cur])
  BY DEF TypeOK
<1>2. \A r \in Restores : Behind(vmfr[r], vmfr'[r]) /\ Consistent(vmfr'[r])
  BY <1>1 DEF SoundWrite, ReportInv, AllConsistent, Behind
<1>3. CopiesAreBehind'
  <2>1. \A r \in Restores : Acts(cvmfr'[r]) => Behind(cvmfr'[r], vmfr'[r])
    BY <1>2 DEF ReportInv, CopiesAreBehind, Behind
  <2>2. Working' => Behind(loc', vmfr'[cur'])
    <3>1. CASE WorkerReturns
      BY <3>1 DEF WorkerReturns, Working
    <3>2. CASE cur' = cur /\ (Working' => Working) /\ loc' = loc
      BY <1>2, <3>2 DEF ReportInv, CopiesAreBehind, Behind
    <3>3. CASE cur' = cur /\ vmfr' = [vmfr EXCEPT ![cur] = loc']
      BY <3>3 DEF TypeOK, Behind
    <3> QED BY <3>1, <3>2, <3>3
  <2> QED
    BY <2>1, <2>2 DEF CopiesAreBehind
<1>4. AllConsistent'
  BY <1>2, BlankReport DEF WorkerReturns, SoundWrite, ReportInv, AllConsistent
<1>5. CountIsCopied'
  BY <1>1 DEF SoundWrite, ReportInv, CountIsCopied
<1> QED
  BY <1>3, <1>4, <1>5 DEF ReportInv

\* The handlers, cleanup and UnplugVolume, one case per action.
LEMMA HandlerReports ==
    ASSUME TypeOK, ObjectInv, ReportInv, Step, ~AddFinalizer, ~RemoveFinalizer
    PROVE  ReportInv'
<1> DEFINE Frame == UNCHANGED <<cvmfr, copied>> /\ cur \in Restores /\ helper' # "ok"
           Goes == \/ WorkerReturns
                   \/ cur' = cur /\ (Working' => Working) /\ loc' = loc
           Writes(new) == /\ vmfr' = [vmfr EXCEPT ![cur] = new]
                          /\ \/ WorkerReturns
                             \/ cur' = cur /\ (Working' => Working) /\ loc' = new
<1>a. ASSUME Frame, PlansAreBacked', Goes, vmfr' = vmfr PROVE ReportInv'
  BY <1>a, WorkerReports
<1>b. ASSUME Frame, PlansAreBacked', NEW new, SoundWrite(new), Writes(new)
      PROVE  ReportInv'
  BY <1>b, WorkerReports
<1>c. ASSUME Working, NEW new \in VMFR, SameReport(new, vmfr[cur]) PROVE SoundWrite(new)
  BY <1>c DEF Working, TypeOK, SoundWrite, SameReport, Behind, Consistent, ReportInv,
     AllConsistent, CountIsCopied
<1>d. Working => /\ Behind(loc, vmfr[cur]) /\ vmfr[cur] \in VMFR /\ cur \in Restores
                 /\ Consistent(vmfr[cur]) /\ Consistent(loc)
                 /\ vmfr[cur].restoredFilesCount => cur \in Automatic /\ cur \in copied
  BY DEF Working, TypeOK, ReportInv, CopiesAreBehind, AllConsistent, CountIsCopied
<1> HIDE DEF Frame, Goes, Writes
<1> USE DEF Dispatched, Return, Continue, ContinueWithVM, PatchStatus, PatchFails,
        WorkerReturns, api, caches, guest
<1>1. CASE Settled
  <2>1. Frame /\ Goes /\ PlansAreBacked' /\ vmfr' = vmfr
    BY <1>1 DEF Settled, Frame, Goes, PlansAreBacked, TypeOK, ControlOK
  <2> QED BY <2>1, <1>a
<1>2. CASE HandleDeletion
  <2>1. Frame /\ Goes /\ PlansAreBacked' /\ vmfr' = vmfr
    BY <1>2 DEF HandleDeletion, Frame, Goes, PlansAreBacked, TypeOK, ControlOK, Working,
       Finalizing, Unprotected
  <2> QED BY <2>1, <1>a
<1>3. CASE TransitionPhase
  <2> DEFINE new == WithPhase(vmfr[cur], then)
  <2>1. Working
    BY <1>3 DEF TransitionPhase, TypeOK, ControlOK, Working, Finalizing, Unprotected, Phases
  <2>2. SoundWrite(new)
    <3>1. /\ new \in VMFR /\ new.phase = then /\ new.mountPath = vmfr[cur].mountPath
          /\ new.restoredFilesCount = vmfr[cur].restoredFilesCount
      BY <1>3, <1>d, <2>1, UpdateType, NewReport DEF TransitionPhase, TypeOK, ControlOK
    <3> HIDE DEF new
    <3> QED
      BY <1>3, <1>d, <2>1, <3>1 DEF TransitionPhase, ReportInv, PlansAreBacked, SoundWrite,
         Behind, Consistent
  <2> HIDE DEF new
  <2>3. Frame /\ PlansAreBacked' /\ ((Goes /\ vmfr' = vmfr) \/ Writes(new))
    BY <1>3, <1>d, <2>1 DEF TransitionPhase, Frame, Goes, Writes, PlansAreBacked, TypeOK,
       new
  <2> QED BY <2>2, <2>3, <1>a, <1>b
<1>4. CASE FailRestore
  <2> DEFINE new == WithPhase(vmfr[cur], "Failed")
  <2>1. Working
    BY <1>4 DEF FailRestore, TypeOK, ControlOK, Working, Finalizing, Unprotected
  <2>2. SoundWrite(new)
    <3>1. /\ new \in VMFR /\ new.phase = "Failed" /\ new.mountPath = vmfr[cur].mountPath
          /\ new.restoredFilesCount = vmfr[cur].restoredFilesCount
      BY <1>d, <2>1, UpdateType, NewReport DEF Phases
    <3> HIDE DEF new
    <3> QED
      BY <1>d, <2>1, <3>1 DEF SoundWrite, Behind, Consistent
  <2> HIDE DEF new
  <2>3. Frame /\ PlansAreBacked' /\ ((Goes /\ vmfr' = vmfr) \/ Writes(new))
    BY <1>4, <1>d, <2>1 DEF FailRestore, Frame, Goes, Writes, PlansAreBacked, TypeOK,
       new
  <2> QED BY <2>2, <2>3, <1>a, <1>b
<1>5. CASE HandleInit
  <2> DEFINE new == WithMountPath(vmfr[cur])
  <2>1. Working
    BY <1>5 DEF HandleInit, TypeOK, ControlOK, Working, Finalizing, Unprotected
  <2>2. SoundWrite(new) /\ new.mountPath
    <3>1. /\ new \in VMFR /\ new.phase = vmfr[cur].phase /\ new.mountPath
          /\ new.restoredFilesCount = vmfr[cur].restoredFilesCount
      BY <1>d, <2>1, UpdateType, NewReport
    <3> HIDE DEF new
    <3> QED
      BY <1>d, <2>1, <3>1 DEF SoundWrite, Behind, Consistent
  <2> HIDE DEF new
  <2>3. Frame /\ PlansAreBacked' /\ ((Goes /\ vmfr' = vmfr) \/ Writes(new))
    BY <1>5, <1>d, <2>1, <2>2 DEF HandleInit, Frame, Goes, Writes, PlansAreBacked, TypeOK,
       new
  <2> QED BY <2>2, <2>3, <1>a, <1>b
<1>6. CASE HandleHotplugging
  <2>1. Working
    BY <1>6 DEF HandleHotplugging, TypeOK, ControlOK, Working, Finalizing, Unprotected
  <2>2. loc.mountPath
    BY <1>6, <1>d, <2>1 DEF HandleHotplugging, Consistent
  <2>3. Frame /\ Goes /\ PlansAreBacked' /\ vmfr' = vmfr
    BY <1>6, <1>d, <2>1, <2>2 DEF HandleHotplugging, Frame, Goes, PlansAreBacked, TypeOK
  <2> QED BY <2>3, <1>a
<1>7. CASE HandleWaitingForAttachment
  <2> DEFINE stamped == Stamped(vmfr[cur], "attachment")
             retried == Retried(stamped, "attachment")
             reset == RetriesReset(stamped, "attachment")
  <2>1. Working
    BY <1>7 DEF HandleWaitingForAttachment, TypeOK, ControlOK, Working, Finalizing,
       Unprotected
  <2>2. stamped \in VMFR /\ SameReport(stamped, vmfr[cur])
    BY <1>d, <2>1, UpdateType, UpdateReport DEF Checks
  <2>3. /\ retried \in VMFR /\ SameReport(retried, vmfr[cur])
        /\ reset \in VMFR /\ SameReport(reset, vmfr[cur])
    <3> HIDE DEF stamped
    <3> QED
      BY <2>2, UpdateType, UpdateReport DEF Checks, SameReport
  <2>4. loc.mountPath /\ stamped.mountPath /\ reset.mountPath
    <3> HIDE DEF stamped, reset
    <3> QED
      BY <1>7, <1>d, <2>1, <2>2, <2>3 DEF HandleWaitingForAttachment, Consistent, Behind,
         SameReport
  <2> HIDE DEF stamped, retried, reset
  <2>5. Frame /\ PlansAreBacked'
    BY <1>7, <1>d, <2>1, <2>4 DEF HandleWaitingForAttachment, Frame, PlansAreBacked, TypeOK,
       stamped, reset
  <2>6. (Goes /\ vmfr' = vmfr) \/ \E new \in {stamped, retried, reset} : Writes(new)
    BY <1>7, <2>1 DEF HandleWaitingForAttachment, Goes, Writes, stamped, retried, reset
  <2> QED BY <2>1, <2>2, <2>3, <2>5, <2>6, <1>a, <1>b, <1>c
<1>8. CASE HandleSSHConnecting
  <2> DEFINE stamped == Stamped(vmfr[cur], "ssh")
             retried == Retried(stamped, "ssh")
             reset == RetriesReset(stamped, "ssh")
  <2>1. Working
    BY <1>8 DEF HandleSSHConnecting, TypeOK, ControlOK, Working, Finalizing, Unprotected
  <2>2. stamped \in VMFR /\ SameReport(stamped, vmfr[cur])
    BY <1>d, <2>1, UpdateType, UpdateReport DEF Checks
  <2>3. /\ retried \in VMFR /\ SameReport(retried, vmfr[cur])
        /\ reset \in VMFR /\ SameReport(reset, vmfr[cur])
    <3> HIDE DEF stamped
    <3> QED
      BY <2>2, UpdateType, UpdateReport DEF Checks, SameReport
  <2>4. loc.mountPath /\ stamped.mountPath /\ reset.mountPath
    <3> HIDE DEF stamped, reset
    <3> QED
      BY <1>8, <1>d, <2>1, <2>2, <2>3 DEF HandleSSHConnecting, Consistent, Behind,
         SameReport
  <2> HIDE DEF stamped, retried, reset
  <2>5. Frame /\ PlansAreBacked'
    BY <1>8, <1>d, <2>1, <2>4 DEF HandleSSHConnecting, Frame, PlansAreBacked, TypeOK,
       stamped, reset
  <2>6. (Goes /\ vmfr' = vmfr) \/ \E new \in {stamped, retried, reset} : Writes(new)
    BY <1>8, <2>1 DEF HandleSSHConnecting, Goes, Writes, stamped, retried, reset
  <2> QED BY <2>1, <2>2, <2>3, <2>5, <2>6, <1>a, <1>b, <1>c
<1>9. CASE HandleRestoring
  <2>1. Working
    BY <1>9 DEF HandleRestoring, TypeOK, ControlOK, Working, Finalizing, Unprotected
  <2>2. loc.mountPath
    BY <1>9, <1>d, <2>1 DEF HandleRestoring, Consistent
  <2>3. Frame /\ Goes /\ PlansAreBacked' /\ vmfr' = vmfr
    BY <1>9, <1>d, <2>1, <2>2 DEF HandleRestoring, Frame, Goes, PlansAreBacked, TypeOK
  <2> QED BY <2>3, <1>a
<1>10. CASE RestoreDone
  <2> DEFINE new == Restored(vmfr[cur], cur \in Automatic)
  <2>1. Working
    BY <1>10 DEF RestoreDone, TypeOK, ControlOK, Working, Finalizing, Unprotected
  <2>2. helper = "ok" => SoundWrite(new)
    <3>1. /\ new \in VMFR /\ new.mountPath = vmfr[cur].mountPath
          /\ cur \in Automatic => new.phase = "Cleanup" /\ new.restoredFilesCount
          /\ cur \notin Automatic =>
                /\ new.phase = "VolumeReady"
                /\ new.restoredFilesCount = vmfr[cur].restoredFilesCount
      BY <1>d, <2>1, UpdateType, NewReport
    <3>2. vmfr[cur].mountPath
      BY <1>10, <1>d, <2>1 DEF RestoreDone, ReportInv, PlansAreBacked, Behind
    <3>3. helper = "ok" /\ cur \in Automatic => cur \in copied
      BY DEF ReportInv, CountIsCopied
    <3> HIDE DEF new
    <3> QED
      BY <1>d, <2>1, <3>1, <3>2, <3>3 DEF SoundWrite, Behind, Consistent
  <2> HIDE DEF new
  <2>3. Frame /\ PlansAreBacked' /\ ((Goes /\ vmfr' = vmfr) \/ (helper = "ok" /\ Writes(new)))
    BY <1>10, <1>d, <2>1 DEF RestoreDone, Frame, Goes, Writes, PlansAreBacked, new
  <2> QED BY <2>2, <2>3, <1>a, <1>b
<1>11. CASE RestoreTimeout
  <2>1. Working
    BY <1>11 DEF RestoreTimeout, TypeOK, ControlOK, Working, Finalizing, Unprotected
  <2>2. Frame /\ Goes /\ PlansAreBacked' /\ vmfr' = vmfr
    BY <1>11, <1>d, <2>1 DEF RestoreTimeout, Frame, Goes, PlansAreBacked
  <2> QED BY <2>2, <1>a
<1>12. CASE HandleCleanup
  <2>1. Working
    BY <1>12 DEF HandleCleanup, TypeOK, ControlOK, Working, Finalizing, Unprotected
  <2>2. loc.mountPath /\ loc.restoredFilesCount
    BY <1>12, <1>d, <2>1 DEF HandleCleanup, Consistent
  <2>3. Frame /\ Goes /\ PlansAreBacked' /\ vmfr' = vmfr
    BY <1>12, <1>d, <2>1, <2>2 DEF HandleCleanup, Frame, Goes, PlansAreBacked, TypeOK
  <2> QED BY <2>3, <1>a
<1>13. CASE VerifyUnplug
  <2>1. Working
    BY <1>13 DEF VerifyUnplug, TypeOK, ControlOK, Working, Finalizing, Unprotected
  <2>2. loc.mountPath /\ loc.restoredFilesCount
    BY <1>13 DEF VerifyUnplug, ReportInv, PlansAreBacked
  <2>3. Frame /\ Goes /\ PlansAreBacked' /\ vmfr' = vmfr
    BY <1>13, <1>d, <2>1, <2>2 DEF VerifyUnplug, Frame, Goes, PlansAreBacked, TypeOK
  <2> QED BY <2>3, <1>a
<1>14. CASE CleanupUnmount
  <2>1. Frame /\ Goes /\ PlansAreBacked' /\ vmfr' = vmfr
    BY <1>14 DEF CleanupUnmount, Resume, Frame, Goes, PlansAreBacked, TypeOK, ControlOK,
       Working, Finalizing, Unprotected
  <2> QED BY <2>1, <1>a
<1>15. CASE UnplugVolume
  <2>1. then = "verify" => loc.mountPath /\ loc.restoredFilesCount
    BY DEF ReportInv, PlansAreBacked
  <2>2. Frame /\ Goes /\ vmfr' = vmfr
    BY <1>15 DEF UnplugVolume, Resume, ResumeAfterError, Frame, Goes, TypeOK,
       ControlOK, Working, Finalizing, Unprotected
  <2>3. PlansAreBacked'
    BY <1>15, <2>1 DEF UnplugVolume, Resume, ResumeAfterError, PlansAreBacked
  <2> QED BY <2>2, <2>3, <1>a
<1>16. CASE DeleteDataVolume
  <2>1. then = "verify" => loc.mountPath /\ loc.restoredFilesCount
    BY DEF ReportInv, PlansAreBacked
  <2>2. Frame /\ Goes /\ vmfr' = vmfr
    BY <1>16 DEF DeleteDataVolume, Resume, ResumeAfterError, Frame, Goes, TypeOK,
       ControlOK, Working, Finalizing, Unprotected
  <2>3. PlansAreBacked'
    BY <1>16, <2>1 DEF DeleteDataVolume, Resume, ResumeAfterError, PlansAreBacked
  <2> QED BY <2>2, <2>3, <1>a
<1>17. CASE HotplugVolume
  <2>1. Working /\ loc.mountPath
    BY <1>17 DEF HotplugVolume, TypeOK, ControlOK, Working, Finalizing, Unprotected,
       ReportInv, PlansAreBacked
  <2>2. Frame /\ Goes /\ PlansAreBacked' /\ vmfr' = vmfr
    BY <1>17, <1>d, <2>1 DEF HotplugVolume, Frame, Goes, PlansAreBacked, TypeOK
  <2> QED BY <2>2, <1>a
<1> QED
  BY <1>1, <1>2, <1>3, <1>4, <1>5, <1>6, <1>7, <1>8, <1>9, <1>10, <1>11, <1>12, <1>13,
     <1>14, <1>15, <1>16, <1>17 DEF Step

\* The reading of an object and the two writes of the finalizer.  The removal may
\* take the object away, but then no copy of it is acted upon (DeletionIsFinal).
LEMMA ReconcileReports ==
    ASSUME TypeOK, ObjectInv, ReportInv,
           (\E r \in Restores : Reconcile(r)) \/ AddFinalizer \/ RemoveFinalizer
    PROVE  ReportInv'
<1> USE DEF Return, WorkerReturns, api, caches, guest, worker
<1>1. ASSUME NEW r \in Restores, Reconcile(r) PROVE ReportInv'
  <2>1. UNCHANGED <<vmfr, cvmfr, copied, helper, then>> /\ pc = "idle" /\ helper = "none"
    BY <1>1 DEF Reconcile, TypeOK
  <2>2. CASE ~CachedVMFR(r).exists
    BY <1>1, <2>1, <2>2 DEF Reconcile, ReportInv, CopiesAreBehind, AllConsistent,
       CountIsCopied, PlansAreBacked, Working, Finalizing, Unprotected
  <2>3. CASE CachedVMFR(r).exists
    <3>1. pc' = "dispatch" /\ cur' = r /\ loc' = CachedVMFR(r) /\ then = "none"
      BY <1>1, <2>1, <2>3 DEF Reconcile, TypeOK, ControlOK
    <3>2. Working' => Acts(loc')
      BY <2>3, <3>1 DEF Working, Finalizing, Unprotected, Acts
    <3>3. CopiesAreBehind'
      BY <2>1, <3>1, <3>2 DEF CachedVMFR, ReportInv, CopiesAreBehind, Behind
    <3>4. AllConsistent'
      BY <2>1, <3>1 DEF CachedVMFR, ReportInv, AllConsistent
    <3>5. CountIsCopied' /\ PlansAreBacked'
      BY <2>1, <3>1 DEF ReportInv, CountIsCopied, PlansAreBacked
    <3> QED BY <3>3, <3>4, <3>5 DEF ReportInv
  <2> QED BY <2>2, <2>3
<1>2. CASE AddFinalizer
  <2>1. /\ UNCHANGED <<cvmfr, copied>> /\ cur \in Restores /\ helper' # "ok"
        /\ PlansAreBacked' /\ WorkerReturns
    BY <1>2 DEF AddFinalizer, TypeOK, ControlOK, PlansAreBacked
  <2>2. vmfr[cur] \in VMFR /\ Consistent(vmfr[cur])
           /\ (vmfr[cur].restoredFilesCount => cur \in Automatic /\ cur \in copied)
    BY <2>1 DEF TypeOK, ReportInv, AllConsistent, CountIsCopied
  <2>3. SoundWrite(WithFinalizer(vmfr[cur]))
    BY <2>2, UpdateType, UpdateReport DEF SoundWrite, SameReport, Behind, Consistent
  <2>4. vmfr' = vmfr \/ vmfr' = [vmfr EXCEPT ![cur] = WithFinalizer(vmfr[cur])]
    BY <1>2 DEF AddFinalizer
  <2> QED BY <2>1, <2>3, <2>4, WorkerReports
<1>3. CASE RemoveFinalizer
  <2>1. /\ UNCHANGED <<cvmfr, copied>> /\ cur \in Restores /\ helper' # "ok"
        /\ PlansAreBacked' /\ WorkerReturns
    BY <1>3 DEF RemoveFinalizer, PatchFails, TypeOK, ControlOK, PlansAreBacked
  <2>2. vmfr[cur] \in VMFR /\ Consistent(vmfr[cur]) /\ ~Acts(cvmfr[cur])
    BY <1>3, <2>1, ConstantsAssumption DEF RemoveFinalizer, TypeOK, ReportInv,
       AllConsistent, ObjectInv, DeletionIsFinal, Finalizing
  <2>3. /\ \A r \in Restores \ {cur} : vmfr'[r] = vmfr[r]
        /\ \/ vmfr'[cur] = vmfr[cur] \/ vmfr'[cur] = NoVMFR
           \/ SameReport(vmfr'[cur], vmfr[cur])
    BY <1>3, <2>1, <2>2, UpdateReport, WithoutFinalizerKey DEF RemoveFinalizer, TypeOK
  <2>4. CopiesAreBehind'
    BY <2>1, <2>2, <2>3 DEF ReportInv, CopiesAreBehind, Working
  <2>5. AllConsistent'
    BY <2>1, <2>2, <2>3, BlankReport DEF ReportInv, AllConsistent, Consistent, SameReport
  <2>6. CountIsCopied'
    BY <2>1, <2>3, BlankReport DEF ReportInv, CountIsCopied, SameReport
  <2> QED BY <2>1, <2>4, <2>5, <2>6 DEF ReportInv
<1> QED
  BY <1>1, <1>2, <1>3

\* Users, crashes, watch events and the passing of time.
LEMMA ObjectReports ==
    ASSUME TypeOK, ObjectInv, ReportInv,
           \/ \E r \in Restores : \/ UserCreate(r) \/ UserDelete(r)
                                  \/ SyncVMFR(r) \/ TimePasses(r)
           \/ Crash
    PROVE  ReportInv'
<1> USE DEF api, caches, guest, worker
<1>0. Working => cur \in Restores /\ Anchored(cur)
  BY DEF Working, TypeOK, ObjectInv, WorkIsAnchored
<1>1. ASSUME NEW r \in Restores, UserCreate(r) PROVE ReportInv'
  <2>1. UNCHANGED <<cvmfr, pc, cur, then, loc, helper>> /\ creates + 1 \in Nat
    BY <1>1 DEF UserCreate, TypeOK
  <2>2. /\ ~vmfr[r].exists /\ copied' = copied \ {r}
        /\ \A s \in Restores \ {r} : vmfr'[s] = vmfr[s]
        /\ vmfr'[r] = Created(creates + 1)
    BY <1>1 DEF UserCreate, TypeOK
  <2>3. ~Acts(cvmfr[r]) /\ ~(Working /\ cur = r)
    BY <1>0, <2>2 DEF ObjectInv, CachedIsAnchored, Anchored
  <2>4. Working' <=> Working
    BY <2>1 DEF Working, Finalizing, Unprotected
  <2>5. CopiesAreBehind'
    BY <1>0, <2>1, <2>2, <2>3, <2>4 DEF ReportInv, CopiesAreBehind
  <2>6. AllConsistent'
    BY <2>1, <2>2, BlankReport DEF ReportInv, AllConsistent
  <2>7. helper = "ok" => cur # r
    BY <2>3 DEF TypeOK, ControlOK, Working, Finalizing, Unprotected
  <2>8. CountIsCopied' /\ PlansAreBacked'
    BY <2>1, <2>2, <2>7, BlankReport DEF ReportInv, CountIsCopied, PlansAreBacked
  <2> QED BY <2>5, <2>6, <2>8 DEF ReportInv
<1>2. ASSUME NEW r \in Restores, UserDelete(r) PROVE ReportInv'
  <2>1. UNCHANGED <<cvmfr, pc, cur, then, loc, helper, copied>>
    BY <1>2 DEF UserDelete
  <2>2. /\ \A s \in Restores \ {r} : vmfr'[s] = vmfr[s]
        /\ vmfr'[r] = Marked(vmfr[r]) /\ vmfr[r] \in VMFR
    BY <1>2 DEF UserDelete, TypeOK
  <2>3. /\ vmfr[r].finalizer => SameReport(vmfr'[r], vmfr[r])
        /\ ~vmfr[r].finalizer => vmfr'[r] = NoVMFR
    BY <2>2, UpdateReport, MarkedKey
  <2>4. ~vmfr[r].finalizer => ~Acts(cvmfr[r]) /\ ~(Working /\ cur = r)
    BY <1>0 DEF ObjectInv, CachedIsAnchored, Anchored
  <2>5. Working' <=> Working
    BY <2>1 DEF Working, Finalizing, Unprotected
  <2>6. CopiesAreBehind'
    BY <1>0, <2>1, <2>2, <2>3, <2>4, <2>5 DEF ReportInv, CopiesAreBehind, Behind, SameReport
  <2>7. AllConsistent' /\ CountIsCopied' /\ PlansAreBacked'
    BY <2>1, <2>2, <2>3, BlankReport DEF ReportInv, AllConsistent, CountIsCopied,
       PlansAreBacked, Consistent, SameReport
  <2> QED BY <2>6, <2>7 DEF ReportInv
<1>3. ASSUME NEW r \in Restores, SyncVMFR(r) PROVE ReportInv'
  <2>1. UNCHANGED <<vmfr, pc, cur, then, loc, helper, copied>>
    BY <1>3 DEF SyncVMFR
  <2>2. /\ \A s \in Restores \ {r} : cvmfr'[s] = cvmfr[s]
        /\ cvmfr'[r] = vmfr[r]
    BY <1>3 DEF SyncVMFR, TypeOK
  <2>3. CopiesAreBehind'
    BY <2>1, <2>2 DEF ReportInv, CopiesAreBehind, Behind, Working, Finalizing, Unprotected
  <2>4. AllConsistent' /\ CountIsCopied' /\ PlansAreBacked'
    BY <2>1, <2>2 DEF ReportInv, AllConsistent, CountIsCopied, PlansAreBacked
  <2> QED BY <2>3, <2>4 DEF ReportInv
<1>4. ASSUME NEW r \in Restores, TimePasses(r) PROVE ReportInv'
  <2>1. UNCHANGED <<pc, cur, then, helper, copied>>
    BY <1>4 DEF TimePasses
  <2>2. \A s \in Restores : /\ SameReport(vmfr'[s], vmfr[s]) /\ SameKey(vmfr'[s], vmfr[s])
                            /\ SameReport(cvmfr'[s], cvmfr[s]) /\ SameKey(cvmfr'[s], cvmfr[s])
    <3>1. \A s \in Restores : vmfr'[s] \in {vmfr[s], Aged(vmfr[s])}
                           /\ cvmfr'[s] \in {cvmfr[s], Aged(cvmfr[s])}
                           /\ vmfr[s] \in VMFR /\ cvmfr[s] \in VMFR
      BY <1>4 DEF TimePasses, TypeOK
    <3> QED
      BY <3>1, UpdateReport, UpdateKey DEF SameReport, SameKey
  <2>3. SameReport(loc', loc) /\ SameKey(loc', loc)
    BY <1>4, UpdateReport, UpdateKey DEF TimePasses, TypeOK, SameReport, SameKey
  <2>4. (Working' <=> Working) /\ \A s \in Restores : Acts(cvmfr'[s]) <=> Acts(cvmfr[s])
    BY <2>1, <2>2, <2>3 DEF Working, Finalizing, Unprotected, Acts, SameKey
  <2>5. CopiesAreBehind'
    BY <1>0, <2>1, <2>2, <2>3, <2>4 DEF ReportInv, CopiesAreBehind, Behind, SameReport
  <2>6. AllConsistent' /\ CountIsCopied' /\ PlansAreBacked'
    BY <2>1, <2>2, <2>3 DEF ReportInv, AllConsistent, CountIsCopied, PlansAreBacked,
       Consistent, SameReport
  <2> QED BY <2>5, <2>6 DEF ReportInv
<1>5. CASE Crash
  <2>1. UNCHANGED <<vmfr, copied>> /\ WorkerReturns /\ helper' = "none"
    BY <1>5 DEF Crash, WorkerReturns
  <2>2. cvmfr' = IF "vmfr" \in Lagging THEN vmfr ELSE cvmfr
    BY <1>5 DEF Crash
  <2>3. CopiesAreBehind'
    BY <2>1, <2>2 DEF ReportInv, CopiesAreBehind, Behind, Working, WorkerReturns
  <2>4. AllConsistent' /\ CountIsCopied' /\ PlansAreBacked'
    BY <2>1, <2>2, BlankReport DEF ReportInv, AllConsistent, CountIsCopied, PlansAreBacked,
       WorkerReturns
  <2> QED BY <2>3, <2>4 DEF ReportInv
<1> QED
  BY <1>1, <1>2, <1>3, <1>4, <1>5

\* The other steps write no object; the guest reports success only for a manual
\* restore or after the copy.
LEMMA OtherReports ==
    ASSUME TypeOK, ReportInv,
           \/ UserEditVM \/ StopVMI \/ DeleteVM \/ StartVMI
           \/ \E r \in Restores : \/ Attach(r) \/ Detach(r) \/ ProvisionDV(r)
                                  \/ OrphanMount(r) \/ OrphanCopy(r) \/ OrphanDies(r)
           \/ HelperMount \/ HelperCopy \/ SyncVM \/ SyncVMI
           \/ UNCHANGED vars
    PROVE  ReportInv'
<1>1. UNCHANGED <<vmfr, cvmfr, pc, cur, then, loc>>
  BY DEF UserEditVM, DeleteVM, ProvisionDV, StopVMI, GuestGone, StartVMI, Attach, Detach,
     OrphanMount, OrphanCopy, OrphanDies, HelperMount, HelperCopy, SyncVM, SyncVMI, vars,
     api, caches, worker
<1>2. copied \subseteq copied'
  BY DEF UserEditVM, DeleteVM, ProvisionDV, StopVMI, GuestGone, StartVMI, Attach, Detach,
     OrphanMount, OrphanCopy, OrphanDies, HelperMount, HelperCopy, SyncVM, SyncVMI, vars,
     guest
<1>3. helper' = "ok" /\ cur \in Automatic => helper = "ok" \/ cur \in copied'
  BY DEF UserEditVM, DeleteVM, ProvisionDV, StopVMI, GuestGone, StartVMI, Attach, Detach,
     OrphanMount, OrphanCopy, OrphanDies, HelperMount, HelperCopy, SyncVM, SyncVMI, vars,
     guest
<1>4. CopiesAreBehind' /\ AllConsistent' /\ PlansAreBacked'
  BY <1>1 DEF ReportInv, CopiesAreBehind, AllConsistent, PlansAreBacked, Working,
     Finalizing, Unprotected
<1>5. CountIsCopied'
  BY <1>1, <1>2, <1>3 DEF ReportInv, CountIsCopied
<1> QED
  BY <1>4, <1>5 DEF ReportInv

\* ReportInv holds at every moment.
LEMMA AlwaysReports == Spec => []ReportInv
<1>1. Init => ReportInv
  BY BlankReport DEF Init, ReportInv, CopiesAreBehind, AllConsistent, CountIsCopied,
     PlansAreBacked, Behind, Working
<1>2. TypeOK /\ ObjectInv /\ ReportInv /\ [Next]_vars => ReportInv'
  BY HandlerReports, ReconcileReports, ObjectReports, OtherReports
     DEF Next, Disturbance, Environment
<1> QED
  BY <1>1, <1>2, TypeCorrect, AlwaysObjects, PTL DEF Spec

\* Every restore in a phase after New has its mount path recorded, and the restore
\* command is only built with one (BuildSSHCommand panics on an empty path), also
\* when the handler works on an old copy of the object.
THEOREM MountPathAlwaysKnown == Spec => []MountPathKnown
<1>1. ReportInv => MountPathKnown
  BY DEF ReportInv, PlansAreBacked, AllConsistent, Consistent, MountPathKnown
<1> QED
  BY <1>1, AlwaysReports, PTL

\* Succeeded is only reported for an automatic restore whose files the guest helper
\* has copied: through stale copies of the object, of the VM and of the VMI, failed
\* writes, crashes between any two steps, lost sessions, restarts and the deletion
\* of the VM, and for objects created again under the same name.
THEOREM SucceededOnlyRestored == Spec => []SucceededIsRestored
<1>1. ReportInv => SucceededIsRestored
  BY DEF ReportInv, CountIsCopied, AllConsistent, Consistent, SucceededIsRestored
<1> QED
  BY <1>1, AlwaysReports, PTL
=============================================================================
