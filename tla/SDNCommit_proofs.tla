-------------------------- MODULE SDNCommit_proofs --------------------------
(***************************************************************************)
(* Type correctness of SDNCommit for every set of configurations and       *)
(* stanzas, every bound, and under all operations and faults.              *)
(***************************************************************************)
EXTENDS SDNCommit, TLAPS

(* Steps of an apply that come before the marker is written.               *)
EarlyPC == {"unit", "state", "check", "revertpoint", "applying", "mark"}

(* A job that will use its change id has one.                              *)
JobOK ==
    /\ job \in Job
    /\ job.mode = "confirm" => job.id \in Id
    /\ job # NoJob /\ job.pc \in EarlyPC => job.id \in Id

TypeInv == DiskOK /\ KernelOK /\ ProcessOK /\ JobOK

(* Parts of the state an action leaves alone keep their type.              *)
LEMMA DiskFrame == ASSUME DiskOK, UNCHANGED disk PROVE DiskOK'
  BY DEF DiskOK, disk, feature, marker, snapshots

LEMMA KernelFrame == ASSUME KernelOK, UNCHANGED kernel PROVE KernelOK'
  BY DEF KernelOK, kernel

LEMMA ProcessFrame == ASSUME ProcessOK, UNCHANGED <<others, history>> PROVE ProcessOK'
  BY DEF ProcessOK, others, history

LEMMA NoJobOK == NoJob \in Job /\ NoJob.mode # "confirm"
  BY ConfigAssumption, BoundAssumption DEF NoJob, Job, PCs, Modes

LEMMA JobFields == ASSUME JobOK
                   PROVE  /\ job.from \in Config /\ job.to \in Config
                          /\ job.mode \in Modes /\ job.pc \in PCs
                          /\ job.id \in 0..MaxApplies
  BY DEF JobOK, Job

LEMMA GotoOK == ASSUME JobOK, NEW pc \in PCs, Goto(pc),
                       pc \in EarlyPC => job # NoJob /\ job.pc \in EarlyPC
                PROVE  JobOK'
  BY DEF JobOK, Goto, Job

LEMMA UnlockOK == ASSUME Unlock PROVE JobOK'
  BY NoJobOK DEF JobOK, Unlock

LEMMA RollbackOK == ASSUME JobOK, Rollback PROVE JobOK'
<1> DEFINE pc == IF job.auto THEN "stop" ELSE "down"
<1>1. pc \in PCs /\ pc \notin EarlyPC
  BY DEF PCs, EarlyPC
<1>2. "undo" \in Modes
  BY DEF Modes
<1> HIDE DEF pc
<1>3. job' = [job EXCEPT !.mode = "undo", !.from = job.to, !.to = job.from, !.pc = pc]
  BY DEF Rollback, pc
<1> QED BY <1>1, <1>2, <1>3 DEF JobOK, Job

LEMMA ApplyFailedOK == ASSUME JobOK, ApplyFailed PROVE JobOK'
<1>1. CASE Rollback BY <1>1, RollbackOK
<1>2. CASE Goto("clear") BY <1>2, GotoOK DEF PCs, EarlyPC
<1>3. CASE Unlock BY <1>3, UnlockOK
<1>4. CASE job' = [job EXCEPT !.pc = "safe", !.err = TRUE]
  BY <1>4 DEF JobOK, Job, PCs, EarlyPC
<1> QED BY <1>1, <1>2, <1>3, <1>4 DEF ApplyFailed

LEMMA PreSDNReturnsOK == ASSUME JobOK, NEW f \in BOOLEAN, PreSDNReturns(f) PROVE JobOK'
<1>1. CASE job' = [job EXCEPT !.pc = "outcome", !.err = f]
  BY <1>1 DEF JobOK, Job, PCs, EarlyPC
<1>2. CASE Goto("resave") BY <1>2, GotoOK DEF PCs, EarlyPC
<1>3. CASE Unlock BY <1>3, UnlockOK
<1> QED BY <1>1, <1>2, <1>3 DEF PreSDNReturns

LEMMA BeginOK == ASSUME DiskOK, NEW op \in {"disable", "revert", "confirm"},
                        NEW who \in {"portal", "service", "boot"}, NEW mode \in Modes,
                        NEW pc \in PCs \ EarlyPC,
                        mode = "confirm" => pending # NoMark,
                        Begin(op, who, mode, pc)
                 PROVE  JobOK'
<1> DEFINE i == IF pending = NoMark THEN 0 ELSE pending.applied
<1>1. i \in 0..MaxApplies /\ (mode = "confirm" => i \in Id)
  BY BoundAssumption DEF DiskOK, Marker, Id
<1>2. job' = [NoJob EXCEPT !.op = op, !.who = who, !.mode = mode, !.pc = pc, !.id = i]
  BY DEF Begin
<1> HIDE DEF i
<1>3. job' \in Job
  BY <1>1, <1>2, ConfigAssumption DEF NoJob, Job
<1>4. job'.mode = mode /\ job'.id = i /\ job'.pc = pc
  BY <1>2 DEF NoJob
<1> QED BY <1>1, <1>3, <1>4 DEF JobOK

LEMMA SetModeOK == ASSUME JobOK, NEW m \in Modes \ {"confirm"}, NEW pc \in PCs \ EarlyPC,
                          job' = [job EXCEPT !.mode = m, !.pc = pc]
                   PROVE  JobOK'
  BY DEF JobOK, Job

LEMMA NotStartedOK == ASSUME JobOK, NotStarted PROVE JobOK'
  BY SetModeOK, UnlockOK DEF NotStarted, Modes, PCs, EarlyPC

LEMMA NotArmedOK == ASSUME JobOK, NotArmed PROVE JobOK'
  BY SetModeOK DEF NotArmed, Modes, PCs, EarlyPC

----------------------------------------------------------------------------
(* Type correctness: requests. *)

LEMMA TypeHandleSDNDisable == ASSUME TypeInv, HandleSDNDisable PROVE TypeInv'
<1>1. JobOK'
  BY BeginOK DEF HandleSDNDisable, PortalFree, PCs, EarlyPC, Modes, JobOK, TypeInv
<1>2. DiskOK' /\ KernelOK' /\ ProcessOK'
  BY DiskFrame, KernelFrame, ProcessFrame DEF HandleSDNDisable, TypeInv
<1> QED BY <1>1, <1>2 DEF TypeInv

LEMMA TypeHandleSDNConfirm == ASSUME TypeInv, HandleSDNConfirm PROVE TypeInv'
<1>1. JobOK'
  BY BeginOK DEF HandleSDNConfirm, PortalFree, PCs, EarlyPC, Modes, JobOK, TypeInv
<1>2. DiskOK' /\ KernelOK' /\ ProcessOK'
  BY DiskFrame, KernelFrame, ProcessFrame DEF HandleSDNConfirm, TypeInv
<1> QED BY <1>1, <1>2 DEF TypeInv

LEMMA TypeHandleSDNRevertNow == ASSUME TypeInv, HandleSDNRevertNow PROVE TypeInv'
<1>1. JobOK'
  BY BeginOK DEF HandleSDNRevertNow, PortalFree, PCs, EarlyPC, Modes, JobOK, TypeInv
<1>2. DiskOK' /\ KernelOK' /\ ProcessOK'
  BY DiskFrame, KernelFrame, ProcessFrame DEF HandleSDNRevertNow, TypeInv
<1> QED BY <1>1, <1>2 DEF TypeInv

LEMMA TypeInstanceForwardsActive == ASSUME TypeInv, InstanceForwardsActive PROVE TypeInv'
<1>1. JobOK'
  BY DEF InstanceForwardsActive, EarlyPC, JobOK, TypeInv
<1>2. ProcessOK'
  BY JobFields, BoundAssumption DEF InstanceForwardsActive, history, ProcessOK,
                                    DiskOK, File, JobOK, TypeInv
<1>3. DiskOK' /\ KernelOK'
  BY DiskFrame, KernelFrame DEF InstanceForwardsActive, TypeInv
<1> QED BY <1>1, <1>2, <1>3 DEF TypeInv

----------------------------------------------------------------------------
(* Type correctness: steps of sdnApplyConfig. *)

LEMMA TypeInstallUnit == ASSUME TypeInv, InstallUnit PROVE TypeInv'
<1>1. JobOK'
  <2>1. CASE Goto("state")
    BY <2>1, GotoOK DEF InstallUnit, At, PCs, EarlyPC, TypeInv
  <2>2. CASE Unlock
    BY <2>2, UnlockOK DEF TypeInv
  <2> QED BY <2>1, <2>2 DEF InstallUnit
<1>2. DiskOK'
  BY JobFields, ConfigAssumption DEF InstallUnit, At, marker, snapshots, DiskOK,
                                     Marker, File, Outcomes, JobOK, EarlyPC, Id,
                                     TypeInv
<1>3. KernelOK' /\ ProcessOK'
  BY KernelFrame, ProcessFrame DEF InstallUnit, TypeInv
<1> QED BY <1>1, <1>2, <1>3 DEF TypeInv

LEMMA TypeSaveEnabled == ASSUME TypeInv, SaveEnabled PROVE TypeInv'
<1>1. JobOK'
  <2>1. CASE Goto("check")
    BY <2>1, GotoOK DEF SaveEnabled, At, PCs, EarlyPC, TypeInv
  <2>2. CASE Unlock
    BY <2>2, UnlockOK DEF TypeInv
  <2> QED BY <2>1, <2>2 DEF SaveEnabled
<1>2. DiskOK'
  BY JobFields, ConfigAssumption DEF SaveEnabled, At, marker, snapshots, DiskOK,
                                     Marker, File, Outcomes, JobOK, EarlyPC, Id,
                                     TypeInv
<1>3. KernelOK' /\ ProcessOK'
  BY KernelFrame, ProcessFrame DEF SaveEnabled, TypeInv
<1> QED BY <1>1, <1>2, <1>3 DEF TypeInv

LEMMA TypeEnableCheck == ASSUME TypeInv, EnableCheck PROVE TypeInv'
<1>1. JobOK'
  <2>1. CASE Goto("revertpoint")
    BY <2>1, GotoOK DEF EnableCheck, At, PCs, EarlyPC, TypeInv
  <2>2. CASE NotStarted
    BY <2>2, NotStartedOK DEF TypeInv
  <2> QED BY <2>1, <2>2 DEF EnableCheck
<1>2. DiskOK' /\ KernelOK' /\ ProcessOK'
  BY DiskFrame, KernelFrame, ProcessFrame DEF EnableCheck, TypeInv
<1> QED BY <1>1, <1>2 DEF TypeInv

LEMMA TypeSaveRevertPoint == ASSUME TypeInv, SaveRevertPoint PROVE TypeInv'
<1>1. JobOK'
  <2>1. CASE Goto("applying")
    BY <2>1, GotoOK DEF SaveRevertPoint, At, PCs, EarlyPC, TypeInv
  <2>2. CASE NotStarted
    BY <2>2, NotStartedOK DEF TypeInv
  <2> QED BY <2>1, <2>2 DEF SaveRevertPoint
<1>2. DiskOK'
  BY JobFields, ConfigAssumption DEF SaveRevertPoint, At, feature, marker, snapshots,
                                     DiskOK, Marker, File, Outcomes, JobOK, EarlyPC,
                                     Id, TypeInv
<1>3. KernelOK' /\ ProcessOK'
  BY KernelFrame, ProcessFrame DEF SaveRevertPoint, TypeInv
<1> QED BY <1>1, <1>2, <1>3 DEF TypeInv

LEMMA TypeSaveApplying == ASSUME TypeInv, SaveApplying PROVE TypeInv'
<1>1. JobOK'
  <2>1. CASE Goto(IF job.auto THEN "mark" ELSE "down")
    BY <2>1, GotoOK DEF SaveApplying, At, PCs, EarlyPC, TypeInv
  <2>2. CASE NotStarted
    BY <2>2, NotStartedOK DEF TypeInv
  <2> QED BY <2>1, <2>2 DEF SaveApplying
<1>2. DiskOK'
  BY JobFields, ConfigAssumption DEF SaveApplying, At, feature, marker, snapshots,
                                     DiskOK, Marker, File, Outcomes, JobOK, EarlyPC,
                                     Id, TypeInv
<1>3. KernelOK' /\ ProcessOK'
  BY KernelFrame, ProcessFrame DEF SaveApplying, TypeInv
<1> QED BY <1>1, <1>2, <1>3 DEF TypeInv

LEMMA TypeWritePending == ASSUME TypeInv, WritePending PROVE TypeInv'
<1>1. JobOK'
  <2>1. CASE Goto("arm")
    BY <2>1, GotoOK DEF WritePending, At, PCs, EarlyPC, TypeInv
  <2>2. CASE NotArmed
    BY <2>2, NotArmedOK DEF TypeInv
  <2> QED BY <2>1, <2>2 DEF WritePending
<1>2. DiskOK'
  BY JobFields, ConfigAssumption DEF WritePending, SetMark, Target, At, feature, marker,
                                     snapshots, DiskOK, Marker, File, Outcomes,
                                     JobOK, EarlyPC, Id, TypeInv
<1>3. KernelOK' /\ ProcessOK'
  BY KernelFrame, ProcessFrame DEF WritePending, TypeInv
<1> QED BY <1>1, <1>2, <1>3 DEF TypeInv

LEMMA TypeArmRevert == ASSUME TypeInv, ArmRevert PROVE TypeInv'
<1>1. JobOK'
  <2>1. CASE Goto("down")
    BY <2>1, GotoOK DEF ArmRevert, At, PCs, EarlyPC, TypeInv
  <2>2. CASE NotArmed
    BY <2>2, NotArmedOK DEF TypeInv
  <2> QED BY <2>1, <2>2 DEF ArmRevert
<1>2. DiskOK'
  BY JobFields, ConfigAssumption DEF ArmRevert, SetMark, Target, At, feature, marker,
                                     snapshots, DiskOK, Marker, File, Outcomes,
                                     JobOK, EarlyPC, Id, TypeInv
<1>3. ProcessOK'
  BY JobFields, BoundAssumption DEF ArmRevert, Target, history, ProcessOK, DiskOK,
                                    File, JobOK, TypeInv
<1>4. KernelOK'
  BY KernelFrame DEF ArmRevert, TypeInv
<1> QED BY <1>1, <1>2, <1>3, <1>4 DEF TypeInv

LEMMA TypeSaveConfirmed == ASSUME TypeInv, SaveConfirmed PROVE TypeInv'
<1>1. JobOK'
  BY GotoOK, UnlockOK, RollbackOK DEF SaveConfirmed, At, PCs, EarlyPC, Modes, JobOK,
                                      TypeInv
<1>2. DiskOK'
  BY JobFields, ConfigAssumption DEF SaveConfirmed, At, feature, marker, snapshots,
                                     DiskOK, Marker, File, Outcomes, JobOK, EarlyPC,
                                     Id, TypeInv
<1>3. KernelOK' /\ ProcessOK'
  BY KernelFrame, ProcessFrame DEF SaveConfirmed, TypeInv
<1> QED BY <1>1, <1>2, <1>3 DEF TypeInv

LEMMA TypeClearApplying == ASSUME TypeInv, ClearApplying PROVE TypeInv'
<1>1. JobOK'
  BY GotoOK, UnlockOK DEF ClearApplying, At, PCs, EarlyPC, Modes, JobOK, TypeInv
<1>2. DiskOK'
  BY JobFields, ConfigAssumption DEF ClearApplying, At, feature, marker, snapshots,
                                     DiskOK, Marker, File, Outcomes, JobOK, EarlyPC,
                                     Id, TypeInv
<1>3. KernelOK' /\ ProcessOK'
  BY KernelFrame, ProcessFrame DEF ClearApplying, TypeInv
<1> QED BY <1>1, <1>2, <1>3 DEF TypeInv

LEMMA TypeAddSnapshot == ASSUME TypeInv, AddSnapshot PROVE TypeInv'
<1>1. JobOK'
  BY UnlockOK DEF AddSnapshot, At, PCs, EarlyPC, Modes, JobOK, TypeInv
<1>2. DiskOK'
  BY JobFields, ConfigAssumption DEF AddSnapshot, At, feature, marker, DiskOK,
                                     Marker, File, Outcomes, JobOK, EarlyPC, Id,
                                     TypeInv
<1>3. KernelOK' /\ ProcessOK'
  BY KernelFrame, ProcessFrame DEF AddSnapshot, TypeInv
<1> QED BY <1>1, <1>2, <1>3 DEF TypeInv

----------------------------------------------------------------------------
(* Type correctness: steps of SDNApply. *)

LEMMA TypeIfDown == ASSUME TypeInv, IfDown PROVE TypeInv'
<1>1. JobOK'
  BY GotoOK, ApplyFailedOK DEF IfDown, At, PCs, EarlyPC, Modes, JobOK, TypeInv
<1>2. KernelOK'
  BY JobFields, ConfigAssumption DEF IfDown, KernelOK, DiskOK, File, TypeInv
<1>3. DiskOK' /\ ProcessOK'
  BY DiskFrame, ProcessFrame DEF IfDown, TypeInv
<1> QED BY <1>1, <1>2, <1>3 DEF TypeInv

LEMMA TypeSpliceOwned == ASSUME TypeInv, SpliceOwned PROVE TypeInv'
<1>1. JobOK'
  BY GotoOK, ApplyFailedOK DEF SpliceOwned, At, AfterSplice, PCs, EarlyPC, Modes,
                               JobOK, TypeInv
<1>2. DiskOK'
  BY JobFields, ConfigAssumption DEF SpliceOwned, At, feature, marker, snapshots,
                                     DiskOK, Marker, File, Outcomes, JobOK, EarlyPC,
                                     Id, TypeInv
<1>3. KernelOK' /\ ProcessOK'
  BY KernelFrame, ProcessFrame DEF SpliceOwned, TypeInv
<1> QED BY <1>1, <1>2, <1>3 DEF TypeInv

LEMMA TypeIfUp == ASSUME TypeInv, IfUp PROVE TypeInv'
<1>1. JobOK'
  BY GotoOK, ApplyFailedOK DEF IfUp, At, PCs, EarlyPC, Modes, JobOK, TypeInv
<1>2. KernelOK'
  BY JobFields, ConfigAssumption DEF IfUp, OwnedIn, KernelOK, DiskOK, File, TypeInv
<1>3. DiskOK' /\ ProcessOK'
  BY DiskFrame, ProcessFrame DEF IfUp, TypeInv
<1> QED BY <1>1, <1>2, <1>3 DEF TypeInv

LEMMA TypeLoadRuleset == ASSUME TypeInv, LoadRuleset PROVE TypeInv'
<1>1. JobOK'
  BY GotoOK, ApplyFailedOK DEF LoadRuleset, At, AfterNft, PCs, EarlyPC, Modes, JobOK,
                               TypeInv
<1>2. KernelOK'
  BY JobFields, ConfigAssumption DEF LoadRuleset, KernelOK, DiskOK, File, TypeInv
<1>3. DiskOK' /\ ProcessOK'
  BY DiskFrame, ProcessFrame DEF LoadRuleset, TypeInv
<1> QED BY <1>1, <1>2, <1>3 DEF TypeInv

----------------------------------------------------------------------------
(* Type correctness: steps of a revert. *)

LEMMA TypeStopService == ASSUME TypeInv, StopService PROVE TypeInv'
<1>1. JobOK'
  BY GotoOK DEF StopService, At, PCs, EarlyPC, Modes, JobOK, TypeInv
<1>2. ProcessOK'
  BY JobFields, BoundAssumption DEF StopService, history, ProcessOK, DiskOK, File,
                                    JobOK, TypeInv
<1>3. DiskOK' /\ KernelOK'
  BY DiskFrame, KernelFrame DEF StopService, TypeInv
<1> QED BY <1>1, <1>2, <1>3 DEF TypeInv

LEMMA TypeLoadTarget == ASSUME TypeInv, LoadTarget PROVE TypeInv'
<1>1. JobOK'
  <2>1. CASE Unlock BY <2>1, UnlockOK
  <2>2. CASE Goto("predown") BY <2>2, GotoOK DEF PCs, EarlyPC, TypeInv
  <2>3. CASE job' = [job EXCEPT !.pc = "outcome", !.err = TRUE]
    BY <2>3 DEF TypeInv, JobOK, Job, PCs, EarlyPC
  <2>4. CASE /\ revert # NoFile
             /\ job' = [job EXCEPT !.from = RevertFrom, !.to = revert, !.pc = "down"]
    <3>1. RevertFrom \in Config /\ revert \in Config
      BY <2>4, ConfigAssumption DEF RevertFrom, LoadConfirmed, TypeInv, DiskOK, File
    <3>2. "down" \in PCs \ EarlyPC
      BY DEF PCs, EarlyPC
    <3> QED BY <2>4, <3>1, <3>2 DEF TypeInv, JobOK, Job
  <2> QED BY <2>1, <2>2, <2>3, <2>4 DEF LoadTarget
<1>2. DiskOK'
  BY JobFields, ConfigAssumption DEF LoadTarget, RevertFrom, LoadConfirmed, At,
                                     feature, marker, snapshots, DiskOK, Marker,
                                     File, Outcomes, JobOK, EarlyPC, Id, TypeInv
<1>3. KernelOK' /\ ProcessOK'
  BY KernelFrame, ProcessFrame DEF LoadTarget, TypeInv
<1> QED BY <1>1, <1>2, <1>3 DEF TypeInv

LEMMA TypeRevertSafeMode == ASSUME TypeInv, RevertSafeMode PROVE TypeInv'
<1>1. JobOK'
  BY GotoOK DEF RevertSafeMode, At, PCs, EarlyPC, Modes, JobOK, TypeInv
<1>2. KernelOK'
  BY JobFields, ConfigAssumption DEF RevertSafeMode, EnterSafeMode, KernelOK, DiskOK,
                                     File, TypeInv
<1>3. DiskOK' /\ ProcessOK'
  BY DiskFrame, ProcessFrame DEF RevertSafeMode, TypeInv
<1> QED BY <1>1, <1>2, <1>3 DEF TypeInv

LEMMA TypeSetOutcome == ASSUME TypeInv, SetOutcome PROVE TypeInv'
<1>1. JobOK'
  BY GotoOK, UnlockOK DEF SetOutcome, At, PCs, EarlyPC, Modes, JobOK, TypeInv
<1>2. DiskOK'
  BY JobFields, ConfigAssumption DEF SetOutcome, At, feature, marker, DiskOK, Marker,
                                     File, Outcomes, JobOK, EarlyPC, Id, TypeInv
<1>3. KernelOK' /\ ProcessOK'
  BY KernelFrame, ProcessFrame DEF SetOutcome, TypeInv
<1> QED BY <1>1, <1>2, <1>3 DEF TypeInv

LEMMA TypeRemovePending == ASSUME TypeInv, RemovePending PROVE TypeInv'
<1>1. JobOK'
  BY GotoOK, UnlockOK DEF RemovePending, At, PCs, EarlyPC, Modes, JobOK, TypeInv
<1>2. DiskOK'
  BY JobFields, ConfigAssumption DEF RemovePending, SetMark, EnterSafeMode, At,
                                     feature, snapshots, DiskOK, Marker, File,
                                     Outcomes, JobOK, EarlyPC, Id, TypeInv
<1>3. KernelOK'
  BY JobFields, ConfigAssumption DEF RemovePending, EnterSafeMode, KernelOK, DiskOK,
                                     File, TypeInv
<1>4. ProcessOK'
  BY JobFields, BoundAssumption DEF RemovePending, others, ProcessOK, DiskOK, File,
                                    JobOK, TypeInv
<1> QED BY <1>1, <1>2, <1>3, <1>4 DEF TypeInv

----------------------------------------------------------------------------
(* Type correctness: steps of SDNRestorePreSDN. *)

LEMMA TypePreSDNDown == ASSUME TypeInv, PreSDNDown PROVE TypeInv'
<1>1. JobOK'
  BY GotoOK DEF PreSDNDown, At, PCs, EarlyPC, Modes, JobOK, TypeInv
<1>2. KernelOK'
  BY JobFields, ConfigAssumption DEF PreSDNDown, OwnedIn, KernelOK, DiskOK, File,
                                     TypeInv
<1>3. DiskOK' /\ ProcessOK'
  BY DiskFrame, ProcessFrame DEF PreSDNDown, TypeInv
<1> QED BY <1>1, <1>2, <1>3 DEF TypeInv

LEMMA TypePreSDNInterfaces == ASSUME TypeInv, PreSDNInterfaces PROVE TypeInv'
<1>1. JobOK'
  BY GotoOK, PreSDNReturnsOK DEF PreSDNInterfaces, At, PCs, EarlyPC, Modes, JobOK,
                                 TypeInv
<1>2. DiskOK'
  BY JobFields, ConfigAssumption DEF PreSDNInterfaces, At, feature, marker,
                                     snapshots, DiskOK, Marker, File, Outcomes,
                                     JobOK, EarlyPC, Id, TypeInv
<1>3. KernelOK' /\ ProcessOK'
  BY KernelFrame, ProcessFrame DEF PreSDNInterfaces, TypeInv
<1> QED BY <1>1, <1>2, <1>3 DEF TypeInv

LEMMA TypeDeleteTable == ASSUME TypeInv, DeleteTable PROVE TypeInv'
<1>1. JobOK'
  BY GotoOK DEF DeleteTable, At, PCs, EarlyPC, Modes, JobOK, TypeInv
<1>2. KernelOK'
  BY JobFields, ConfigAssumption DEF DeleteTable, KernelOK, DiskOK, File, TypeInv
<1>3. DiskOK' /\ ProcessOK'
  BY DiskFrame, ProcessFrame DEF DeleteTable, TypeInv
<1> QED BY <1>1, <1>2, <1>3 DEF TypeInv

LEMMA TypeSDNRemoveUnit == ASSUME TypeInv, SDNRemoveUnit PROVE TypeInv'
<1>1. JobOK'
  BY GotoOK, PreSDNReturnsOK DEF SDNRemoveUnit, At, PCs, EarlyPC, Modes, JobOK,
                                 TypeInv
<1>2. DiskOK'
  BY JobFields, ConfigAssumption DEF SDNRemoveUnit, At, marker, snapshots, DiskOK,
                                     Marker, File, Outcomes, JobOK, EarlyPC, Id,
                                     TypeInv
<1>3. KernelOK' /\ ProcessOK'
  BY KernelFrame, ProcessFrame DEF SDNRemoveUnit, TypeInv
<1> QED BY <1>1, <1>2, <1>3 DEF TypeInv

LEMMA TypeSaveDisabled == ASSUME TypeInv, SaveDisabled PROVE TypeInv'
<1>1. JobOK'
  BY PreSDNReturnsOK DEF SaveDisabled, At, PCs, EarlyPC, Modes, JobOK, TypeInv
<1>2. DiskOK'
  BY JobFields, ConfigAssumption DEF SaveDisabled, At, marker, snapshots, DiskOK,
                                     Marker, File, Outcomes, JobOK, EarlyPC, Id,
                                     TypeInv
<1>3. KernelOK' /\ ProcessOK'
  BY KernelFrame, ProcessFrame DEF SaveDisabled, TypeInv
<1> QED BY <1>1, <1>2, <1>3 DEF TypeInv

LEMMA TypeResaveConfirmed == ASSUME TypeInv, ResaveConfirmed PROVE TypeInv'
<1>1. JobOK'
  BY UnlockOK DEF ResaveConfirmed, At, PCs, EarlyPC, Modes, JobOK, TypeInv
<1>2. DiskOK'
  BY JobFields, ConfigAssumption DEF ResaveConfirmed, LoadConfirmed, At, feature,
                                     marker, snapshots, DiskOK, Marker, File,
                                     Outcomes, JobOK, EarlyPC, Id, TypeInv
<1>3. KernelOK' /\ ProcessOK'
  BY KernelFrame, ProcessFrame DEF ResaveConfirmed, TypeInv
<1> QED BY <1>1, <1>2, <1>3 DEF TypeInv

----------------------------------------------------------------------------
(* Type correctness: the background. *)

LEMMA TypeRevertServiceFires == ASSUME TypeInv, RevertServiceFires PROVE TypeInv'
<1>1. JobOK'
  BY BeginOK DEF RevertServiceFires, PCs, EarlyPC, Modes, JobOK, TypeInv
<1>2. ProcessOK'
  BY JobFields, BoundAssumption DEF RevertServiceFires, history, ProcessOK, DiskOK,
                                    File, JobOK, TypeInv
<1>3. DiskOK' /\ KernelOK'
  BY DiskFrame, KernelFrame DEF RevertServiceFires, TypeInv
<1> QED BY <1>1, <1>2, <1>3 DEF TypeInv

LEMMA TypeSDNBoot == ASSUME TypeInv, SDNBoot PROVE TypeInv'
<1>1. JobOK'
  BY BeginOK DEF SDNBoot, PCs, EarlyPC, Modes, JobOK, TypeInv
<1>2. KernelOK'
  BY JobFields, ConfigAssumption DEF SDNBoot, EnterSafeMode, KernelOK, DiskOK, File,
                                     TypeInv
<1>3. ProcessOK'
  BY JobFields, BoundAssumption DEF SDNBoot, history, ProcessOK, DiskOK, File, JobOK,
                                    TypeInv
<1>4. DiskOK'
  BY DiskFrame DEF SDNBoot, TypeInv
<1> QED BY <1>1, <1>2, <1>3, <1>4 DEF TypeInv

LEMMA TypeNetworkUp == ASSUME TypeInv, NetworkUp PROVE TypeInv'
<1>1. JobOK'
  BY DEF NetworkUp, EarlyPC, JobOK, TypeInv
<1>2. KernelOK'
  BY JobFields, ConfigAssumption DEF NetworkUp, OwnedIn, KernelOK, DiskOK, File,
                                     TypeInv
<1>3. ProcessOK'
  BY JobFields, BoundAssumption DEF NetworkUp, history, ProcessOK, DiskOK, File,
                                    JobOK, TypeInv
<1>4. DiskOK'
  BY DiskFrame DEF NetworkUp, TypeInv
<1> QED BY <1>1, <1>2, <1>3, <1>4 DEF TypeInv

LEMMA TypeRefreshUnit == ASSUME TypeInv, RefreshUnit PROVE TypeInv'
<1>1. JobOK'
  BY DEF RefreshUnit, TypeInv, JobOK
<1>2. DiskOK'
  <2>1. bootunit' \in BOOLEAN
    BY Zenon DEF RefreshUnit
  <2> QED BY <2>1 DEF RefreshUnit, marker, snapshots, TypeInv, DiskOK
<1>3. ProcessOK'
  BY DEF RefreshUnit, history, TypeInv, ProcessOK
<1>4. KernelOK'
  BY KernelFrame DEF RefreshUnit, TypeInv
<1> QED BY <1>1, <1>2, <1>3, <1>4 DEF TypeInv

LEMMA TypeRefreshRead == ASSUME TypeInv, RefreshRead PROVE TypeInv'
<1>1. JobOK'
  BY DEF RefreshRead, EarlyPC, JobOK, TypeInv
<1>2. ProcessOK'
  BY ConfigAssumption DEF RefreshRead, LoadConfirmed, history, ProcessOK, DiskOK,
                          File, JobOK, TypeInv
<1>3. DiskOK' /\ KernelOK'
  BY DiskFrame, KernelFrame DEF RefreshRead, TypeInv
<1> QED BY <1>1, <1>2, <1>3 DEF TypeInv

LEMMA TypeRefreshLoad == ASSUME TypeInv, RefreshLoad PROVE TypeInv'
<1>1. JobOK'
  BY DEF RefreshLoad, EarlyPC, JobOK, TypeInv
<1>2. KernelOK'
  BY JobFields, ConfigAssumption DEF RefreshLoad, KernelOK, DiskOK, File, TypeInv
<1>3. ProcessOK'
  BY JobFields, BoundAssumption DEF RefreshLoad, history, ProcessOK, DiskOK, File,
                                    JobOK, TypeInv
<1>4. DiskOK'
  BY DiskFrame DEF RefreshLoad, TypeInv
<1> QED BY <1>1, <1>2, <1>3, <1>4 DEF TypeInv

----------------------------------------------------------------------------
(* Type correctness: crashes. *)

LEMMA TypePortalCrash == ASSUME TypeInv, PortalCrash PROVE TypeInv'
<1>1. JobOK'
  BY NoJobOK DEF PortalCrash, PCs, EarlyPC, Modes, JobOK, TypeInv
<1>2. ProcessOK'
  <2>1. crashes' \in 0..MaxCrashes
    BY BoundAssumption DEF PortalCrash, TypeInv, ProcessOK
  <2>2. /\ refresh' \in {"none", "todo"} /\ inst' = FALSE
        /\ svc' \in {"none", svc} /\ phase' \in {"boot", phase} /\ accepted' = accepted
    BY DEF PortalCrash
  <2> QED BY <2>1, <2>2 DEF TypeInv, ProcessOK
<1>3. DiskOK' /\ KernelOK'
  BY DiskFrame, KernelFrame DEF PortalCrash, TypeInv
<1> QED BY <1>1, <1>2, <1>3 DEF TypeInv

LEMMA TypeReboot == ASSUME TypeInv, Reboot PROVE TypeInv'
<1>1. JobOK'
  BY NoJobOK DEF Reboot, Restart, PCs, EarlyPC, Modes, JobOK, TypeInv
<1>2. DiskOK'
  BY JobFields, ConfigAssumption DEF Reboot, Restart, feature, snapshots, DiskOK,
                                     Marker, File, Outcomes, JobOK, EarlyPC, Id,
                                     TypeInv
<1>3. KernelOK'
  BY JobFields, ConfigAssumption DEF Reboot, Restart, KernelOK, DiskOK, File, TypeInv
<1>4. ProcessOK'
  <2>1. crashes' \in 0..MaxCrashes
    BY BoundAssumption DEF Reboot, Restart, TypeInv, ProcessOK
  <2>2. /\ refresh' \in {"none", "todo"} /\ inst' = FALSE
        /\ svc' \in {"none", svc} /\ phase' \in {"boot", phase} /\ accepted' = accepted
    BY DEF Reboot, Restart
  <2> QED BY <2>1, <2>2 DEF TypeInv, ProcessOK
<1> QED BY <1>1, <1>2, <1>3, <1>4 DEF TypeInv

LEMMA TypePowerCut == ASSUME TypeInv, PowerCut PROVE TypeInv'
<1>1. JobOK'
  BY NoJobOK DEF PowerCut, Restart, PCs, EarlyPC, Modes, JobOK, TypeInv
<1>2. DiskOK'
  BY JobFields, ConfigAssumption DEF PowerCut, Restart, feature, snapshots, DiskOK,
                                     Marker, File, Outcomes, JobOK, EarlyPC, Id,
                                     TypeInv
<1>3. KernelOK'
  BY JobFields, ConfigAssumption DEF PowerCut, Restart, KernelOK, DiskOK, File,
                                     TypeInv
<1>4. ProcessOK'
  <2>1. crashes' \in 0..MaxCrashes
    BY BoundAssumption DEF PowerCut, Restart, TypeInv, ProcessOK
  <2>2. /\ refresh' \in {"none", "todo"} /\ inst' = FALSE
        /\ svc' \in {"none", svc} /\ phase' \in {"boot", phase} /\ accepted' = accepted
    BY DEF PowerCut, Restart
  <2> QED BY <2>1, <2>2 DEF TypeInv, ProcessOK
<1> QED BY <1>1, <1>2, <1>3, <1>4 DEF TypeInv

LEMMA TypeFlush == ASSUME TypeInv, Flush PROVE TypeInv'
<1>1. JobOK'
  BY DEF Flush, EarlyPC, JobOK, TypeInv
<1>2. DiskOK'
  BY JobFields, ConfigAssumption DEF Flush, feature, snapshots, DiskOK, Marker, File,
                                     Outcomes, JobOK, EarlyPC, Id, TypeInv
<1>3. KernelOK' /\ ProcessOK'
  BY KernelFrame, ProcessFrame DEF Flush, TypeInv
<1> QED BY <1>1, <1>2, <1>3 DEF TypeInv

----------------------------------------------------------------------------
(* Type correctness: the requests that take an input. *)

LEMMA BeginApplyOK ==
    ASSUME TypeInv, NEW op \in {"apply", "enable"}, NEW pc \in PCs,
           NEW c \in Config, NEW d \in Config, NEW a \in BOOLEAN,
           BeginApply(op, pc, c, d, a), accepted' \subseteq Config
    PROVE  TypeInv'
<1>1. last + 1 \in Id /\ last' = last + 1
  BY BoundAssumption DEF TypeInv, DiskOK, BeginApply, Id
<1>2. JobOK'
  <2>1. job' = [op |-> op, who |-> "portal", mode |-> "apply", pc |-> pc,
                from |-> c, to |-> d, auto |-> a, id |-> last + 1, err |-> FALSE]
    BY DEF BeginApply
  <2>2. job' \in Job
    BY <1>1, <2>1, BoundAssumption DEF Job, Modes, Id
  <2> QED BY <1>1, <2>1, <2>2 DEF JobOK
<1>3. hist' \in [Id -> [cfg : Config, outcome : Outcomes]]
  BY <1>1 DEF TypeInv, DiskOK, BeginApply
<1>4. DiskOK'
  BY <1>1, <1>3, BoundAssumption DEF TypeInv, DiskOK, BeginApply, feature, marker, Id
<1>5. KernelOK'
  BY KernelFrame DEF TypeInv, BeginApply
<1>6. ProcessOK'
  BY DEF TypeInv, ProcessOK, BeginApply, others
<1> QED BY <1>2, <1>4, <1>5, <1>6 DEF TypeInv

LEMMA LoadConfirmedOK == ASSUME TypeInv PROVE LoadConfirmed \in Config
  BY ConfigAssumption DEF TypeInv, DiskOK, File, LoadConfirmed

LEMMA AcceptOK == ASSUME TypeInv, NEW c \in Config, NEW a \in BOOLEAN, AcceptOnApply(c, a)
                  PROVE  accepted' \subseteq Config
  BY DEF TypeInv, ProcessOK, AcceptOnApply

LEMMA TypeHandleSDNApply ==
    ASSUME TypeInv, NEW c \in Config, NEW a \in AutoChoices, HandleSDNApply(c, a)
    PROVE  TypeInv'
<1>1. a \in BOOLEAN /\ "revertpoint" \in PCs
  BY BoundAssumption DEF PCs
<1>2. accepted' \subseteq Config
  BY <1>1, AcceptOK DEF HandleSDNApply
<1> QED BY <1>1, <1>2, BeginApplyOK, LoadConfirmedOK DEF HandleSDNApply

LEMMA TypeHandleSDNRestore ==
    ASSUME TypeInv, NEW i \in Id, NEW a \in AutoChoices, HandleSDNRestore(i, a)
    PROVE  TypeInv'
<1>1. a \in BOOLEAN /\ "revertpoint" \in PCs
  BY BoundAssumption DEF PCs
<1>2. hist[i].cfg \in Config
  BY DEF TypeInv, DiskOK
<1>3. accepted' \subseteq Config
  BY <1>1, <1>2, AcceptOK DEF HandleSDNRestore
<1> QED BY <1>1, <1>2, <1>3, BeginApplyOK, LoadConfirmedOK DEF HandleSDNRestore

LEMMA TypeHandleSDNEnable ==
    ASSUME TypeInv, NEW c \in Config, HandleSDNEnable(c) PROVE TypeInv'
<1>1. "unit" \in PCs
  BY DEF PCs
<1>2. accepted' \subseteq Config
  BY DEF HandleSDNEnable
<1> QED BY <1>1, <1>2, BeginApplyOK, ConfigAssumption DEF HandleSDNEnable

LEMMA TypeSDNInstanceChange ==
    ASSUME TypeInv, NEW c \in Config, SDNInstanceChange(c) PROVE TypeInv'
<1>1. last + 1 \in Id /\ last' = last + 1
  BY BoundAssumption DEF TypeInv, DiskOK, SDNInstanceChange, Id
<1>2. JobOK'
  <2> DEFINE pc == IF safemode THEN "save" ELSE "nft"
  <2>1. pc \in PCs /\ pc \notin EarlyPC
    BY DEF PCs, EarlyPC
  <2>2. job' = [op |-> "instance", who |-> "portal", mode |-> "instance", pc |-> pc,
                from |-> LoadConfirmed, to |-> c, auto |-> FALSE, id |-> last + 1,
                err |-> FALSE]
    BY DEF SDNInstanceChange, pc
  <2> HIDE DEF pc
  <2>3. job' \in Job
    BY <1>1, <2>1, <2>2, BoundAssumption, LoadConfirmedOK DEF Job, Modes, Id
  <2> QED BY <1>1, <2>1, <2>2, <2>3 DEF JobOK
<1>3. hist' \in [Id -> [cfg : Config, outcome : Outcomes]]
  BY <1>1 DEF TypeInv, DiskOK, SDNInstanceChange
<1>4. DiskOK'
  BY <1>1, <1>3, BoundAssumption DEF TypeInv, DiskOK, SDNInstanceChange, feature, marker, Id
<1>5. KernelOK'
  BY KernelFrame DEF TypeInv, SDNInstanceChange
<1>6. ProcessOK'
  BY AcceptOK DEF TypeInv, ProcessOK, SDNInstanceChange
<1> QED BY <1>2, <1>4, <1>5, <1>6 DEF TypeInv

----------------------------------------------------------------------------
(* Type correctness of the specification. *)

LEMMA TypeInit == ASSUME Init PROVE TypeInv
<1>1. DiskOK
  <2>1. hist \in [Id -> [cfg : Config, outcome : Outcomes]]
    BY ConfigAssumption DEF Init, Outcomes
  <2>2. enabled \in BOOLEAN /\ bootunit \in BOOLEAN
    BY Zenon DEF Init
  <2>3. config \in File /\ ifaces \in Config \cup {PreSDN} /\ last \in 0..MaxApplies
    BY BoundAssumption DEF Init, File
  <2> QED BY <2>1, <2>2, <2>3 DEF Init, DiskOK, File
<1>2. KernelOK
  BY ConfigAssumption DEF Init, KernelOK, OwnedIn
<1>3. ProcessOK
  <2>1. accepted \subseteq Config
    BY DEF Init
  <2>2. crashes \in 0..MaxCrashes
    BY BoundAssumption DEF Init
  <2> QED BY <2>1, <2>2 DEF Init, ProcessOK
<1>4. JobOK
  BY NoJobOK DEF Init, JobOK
<1> QED BY <1>1, <1>2, <1>3, <1>4 DEF TypeInv

LEMMA TypeNext == ASSUME TypeInv, [Next]_vars PROVE TypeInv'
<1>1. CASE Request
  BY <1>1, TypeHandleSDNApply, TypeHandleSDNRestore, TypeHandleSDNEnable,
     TypeHandleSDNDisable, TypeHandleSDNConfirm, TypeHandleSDNRevertNow,
     TypeInstanceForwardsActive, TypeSDNInstanceChange DEF Request
<1>2. CASE JobStep
  BY <1>2, TypeInstallUnit, TypeSaveEnabled, TypeEnableCheck, TypeSaveRevertPoint,
     TypeSaveApplying, TypeWritePending, TypeArmRevert, TypeSaveConfirmed,
     TypeClearApplying, TypeAddSnapshot, TypeIfDown, TypeSpliceOwned, TypeIfUp,
     TypeLoadRuleset, TypeStopService, TypeLoadTarget, TypeRevertSafeMode,
     TypeSetOutcome, TypeRemovePending, TypePreSDNDown, TypePreSDNInterfaces,
     TypeDeleteTable, TypeSDNRemoveUnit, TypeSaveDisabled, TypeResaveConfirmed
     DEF JobStep
<1>3. CASE Background
  BY <1>3, TypeRevertServiceFires, TypeSDNBoot, TypeNetworkUp, TypeRefreshUnit,
     TypeRefreshRead, TypeRefreshLoad DEF Background
<1>4. CASE Crash
  BY <1>4, TypePortalCrash, TypeReboot, TypePowerCut DEF Crash
<1>5. CASE Flush
  BY <1>5, TypeFlush
<1>6. CASE UNCHANGED vars
  BY <1>6, DiskFrame, KernelFrame, ProcessFrame DEF TypeInv, JobOK, vars
<1> QED BY <1>1, <1>2, <1>3, <1>4, <1>5, <1>6 DEF Next

(* Every reachable state has the types TypeOK gives it, under every         *)
(* operation, every fault and every crash.                                  *)
THEOREM TypeCorrect == Spec => []TypeOK
<1>1. Spec => []TypeInv
  BY TypeInit, TypeNext, PTL DEF Spec
<1>2. TypeInv => TypeOK
  BY DEF TypeInv, TypeOK, JobOK
<1> QED BY <1>1, <1>2, PTL

=============================================================================
