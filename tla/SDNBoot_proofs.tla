--------------------------- MODULE SDNBoot_proofs ---------------------------
(***************************************************************************)
(* BootsAccepted for every set of configurations, every bound and every    *)
(* interleaving: whatever step a portal crash or a reboot interrupts, what *)
(* the boot unit would load is a configuration the admin accepted.         *)
(*                                                                         *)
(* The invariant relates the files (MarkInv) and says, for each kind of    *)
(* lock holder, what its next steps rely on (JobInv).  One lemma per       *)
(* action; those that change none of the files of `core' only move the     *)
(* lock holder.                                                            *)
(*                                                                         *)
(* On top of it: rules that nobody accepted run only under the guard of a  *)
(* marker or an operation; and, where the portal dies only with the        *)
(* machine (Whole), the files implement the trial of SDNTrial.             *)
(***************************************************************************)
EXTENDS SDNCommit_proofs

(* The runs the theorem is about.  With an enable, a failing SaveConfirmed  *)
(* or a power cut the property fails: see section 6 of the README.          *)
Scope == "enable" \notin Ops /\ "save" \notin Faults /\ "powercut" \notin Faults

(* IInv of SDNCommit, with the type facts about the change id of a job.     *)
Inv == TypeInv /\ MarkInv /\ JobInv

(* What MarkInv speaks about. *)
core == <<config, pending, revert, hist, accepted>>

(* A step that leaves the files of `core' alone keeps MarkInv ... *)
LEMMA MarkFrame == ASSUME MarkInv, UNCHANGED core PROVE MarkInv'
  BY DEF MarkInv, core, LoadConfirmed

(* ... and JobInv, when the lock holder does not move either. *)
LEMMA JobFrame == ASSUME JobInv, UNCHANGED <<core, job>> PROVE JobInv'
  BY DEF JobInv, ApplyInv, UndoInv, RevertInv, ConfirmInv, InstanceInv, core, LoadConfirmed

(* Releasing the lock establishes JobInv. *)
LEMMA NoJobInv == ASSUME job' = NoJob PROVE JobInv'
  BY DEF JobInv, NoJob

(* A lock holder runs one of the operations in scope. *)
LEMMA NoneIsNoJob == ASSUME Inv, job # NoJob PROVE job.op \in {"apply", "revert", "confirm", "instance", "disable"}
  BY DEF Inv, TypeInv, JobOK, Job, JobInv

(* Goto changes the control point only. *)
LEMMA GotoFields == ASSUME Inv, NEW pc \in PCs, Goto(pc)
                    PROVE  /\ job'.pc = pc
                           /\ job'.op = job.op /\ job'.mode = job.mode /\ job'.auto = job.auto
                           /\ job'.from = job.from /\ job'.to = job.to /\ job'.id = job.id
                           /\ job'.who = job.who
  BY DEF Inv, TypeInv, JobOK, Job, Goto

(* The steps of SDNApply that follow each other. *)
LEMMA SDNApplyGoto ==
    ASSUME Inv, job # NoJob, job.pc \in {"down", "splice", "up"},
           NEW pc \in {"splice", "up", "nft"}, Goto(pc), UNCHANGED core
    PROVE  JobInv'
<1>0. pc \in PCs
  BY DEF PCs
<1>1. job.op \in {"apply", "revert"}
  BY NoneIsNoJob DEF Inv, JobInv, ConfirmInv, InstanceInv
<1>2. CASE job.op = "apply"
  BY <1>0, <1>2, GotoFields DEF Inv, JobInv, ApplyInv, UndoInv, core, LoadConfirmed
<1>3. CASE job.op = "revert"
  BY <1>0, <1>3, GotoFields DEF Inv, JobInv, RevertInv, core, LoadConfirmed
<1> QED BY <1>1, <1>2, <1>3

(* Where a failed SDNApply leaves each of its callers. *)
LEMMA SDNApplyFails ==
    ASSUME Inv, job # NoJob, job.pc \in {"down", "splice", "up", "nft"}, ApplyFailed, UNCHANGED core
    PROVE  JobInv'
<1>1. CASE job.mode = "apply"
  <2>1. job.op = "apply" /\ ApplyInv
    BY <1>1, NoneIsNoJob DEF Inv, JobInv
  <2>2. Rollback
    BY <1>1 DEF ApplyFailed
  <2>3. job'.op = "apply" /\ job'.mode = "undo" /\ job'.pc \in {"stop", "down"}
    BY <2>1, <2>2 DEF Rollback, Inv, TypeInv, JobOK, Job
  <2>4. LoadConfirmed \in accepted
    BY <2>1 DEF ApplyInv, Inv, MarkInv
  <2> QED BY <2>3, <2>4 DEF JobInv, UndoInv, core, LoadConfirmed
<1>2. CASE job.mode = "undo"
  <2>1. job.op = "apply" /\ UndoInv /\ Goto("clear") /\ "clear" \in PCs
    BY <1>2, NoneIsNoJob DEF Inv, JobInv, ApplyFailed, PCs
  <2> QED BY <1>2, <2>1, GotoFields DEF JobInv, UndoInv, core, LoadConfirmed
<1>3. CASE job.mode = "revert"
  <2>1. job.op = "revert" /\ RevertInv
    BY <1>3, NoneIsNoJob DEF Inv, JobInv
  <2>2. job' = [job EXCEPT !.pc = "safe", !.err = TRUE]
    BY <1>3 DEF ApplyFailed
  <2> QED BY <1>3, <2>1, <2>2 DEF Inv, TypeInv, JobOK, Job, JobInv, RevertInv, core, LoadConfirmed
<1>4. CASE job.mode = "instance"
  BY <1>4, NoJobInv DEF ApplyFailed, Unlock
<1> QED BY <1>1, <1>2, <1>3, <1>4 DEF ApplyFailed

(* SDNApply, interfaces down. *)
LEMMA InvIfDown == ASSUME Scope, Inv, IfDown PROVE MarkInv' /\ JobInv'
<1>1. UNCHANGED core
  BY DEF IfDown, core, disk, snapshots, marker, history
<1>2. job # NoJob /\ job.pc = "down" /\ (Goto("splice") \/ ApplyFailed)
  BY DEF IfDown, At
<1> QED BY <1>1, <1>2, MarkFrame, SDNApplyGoto, SDNApplyFails DEF Inv

(* SDNApply, the interfaces file. *)
LEMMA InvSpliceOwned == ASSUME Scope, Inv, SpliceOwned PROVE MarkInv' /\ JobInv'
<1>1. UNCHANGED core
  BY DEF SpliceOwned, core, snapshots, marker, history
<1>2. job # NoJob /\ job.pc = "splice" /\ (Goto("nft") \/ Goto("up") \/ ApplyFailed)
  BY DEF SpliceOwned, At, AfterSplice
<1> QED BY <1>1, <1>2, MarkFrame, SDNApplyGoto, SDNApplyFails DEF Inv

(* SDNApply, interfaces up. *)
LEMMA InvIfUp == ASSUME Scope, Inv, IfUp PROVE MarkInv' /\ JobInv'
<1>1. UNCHANGED core
  BY DEF IfUp, core, disk, snapshots, marker, history
<1>2. job # NoJob /\ job.pc = "up" /\ (Goto("nft") \/ ApplyFailed)
  BY DEF IfUp, At
<1> QED BY <1>1, <1>2, MarkFrame, SDNApplyGoto, SDNApplyFails DEF Inv

(* SDNApply, the ruleset. *)
LEMMA InvLoadRuleset == ASSUME Scope, Inv, LoadRuleset PROVE MarkInv' /\ JobInv'
<1>1. UNCHANGED core
  BY DEF LoadRuleset, core, disk, snapshots, marker, history
<1>2. /\ job # NoJob /\ job.pc = "nft"
      /\ \/ job.mode = "undo" /\ Goto("clear")
         \/ job.mode # "undo" /\ Goto("save")
         \/ ApplyFailed
  BY DEF LoadRuleset, At, AfterNft
<1>3. CASE job.mode = "undo" /\ Goto("clear")
  <2>1. job.op = "apply" /\ UndoInv
    BY <1>2, <1>3, NoneIsNoJob DEF Inv, JobInv
  <2>2. "clear" \in PCs
    BY DEF PCs
  <2> QED BY <1>1, <1>3, <2>1, <2>2, MarkFrame, GotoFields
          DEF Inv, JobInv, UndoInv, core, LoadConfirmed
<1>4. CASE job.mode # "undo" /\ Goto("save")
  <2>1. "save" \in PCs
    BY DEF PCs
  <2>2. job.op \in {"apply", "revert", "instance"}
    BY <1>2, NoneIsNoJob DEF Inv, JobInv, ConfirmInv
  <2>3. CASE job.op = "apply"
    BY <1>1, <1>2, <1>4, <2>1, <2>3, GotoFields, MarkFrame
       DEF Inv, JobInv, ApplyInv, core, LoadConfirmed
  <2>4. CASE job.op = "revert"
    BY <1>1, <1>2, <1>4, <2>1, <2>4, GotoFields, MarkFrame
       DEF Inv, JobInv, RevertInv, core, LoadConfirmed
  <2>5. CASE job.op = "instance"
    BY <1>1, <1>2, <1>4, <2>1, <2>5, GotoFields, MarkFrame
       DEF Inv, JobInv, InstanceInv, core
  <2> QED BY <2>2, <2>3, <2>4, <2>5
<1> QED BY <1>1, <1>2, <1>3, <1>4, MarkFrame, SDNApplyFails DEF Inv

(* An apply that could not be armed has nothing to undo. *)
LEMMA NotArmedInv ==
    ASSUME Inv, job.op = "apply", NotArmed, LoadConfirmed' \in accepted'
    PROVE  JobInv'
<1>1. job'.op = "apply" /\ job'.mode = "undo" /\ job'.pc = "clear"
  BY DEF NotArmed, Inv, TypeInv, JobOK, Job
<1> QED BY <1>1 DEF JobInv, UndoInv

(* Arming: the marker is kept, or removed before anything was touched. *)
LEMMA InvArmRevert == ASSUME Scope, Inv, ArmRevert PROVE MarkInv' /\ JobInv'
<1>1. job # NoJob /\ job.pc = "arm"
  BY DEF ArmRevert, At
<1>2. job.op = "apply" /\ job.mode = "apply" /\ ApplyInv /\ job.auto
  BY <1>1, NoneIsNoJob DEF Inv, JobInv, UndoInv, RevertInv, ConfirmInv, InstanceInv, ApplyInv
<1>3. LoadConfirmed \in accepted /\ LoadConfirmed' = LoadConfirmed /\ accepted' = accepted
  BY <1>1, <1>2 DEF ApplyInv, Inv, MarkInv, ArmRevert, LoadConfirmed, history
<1>4. CASE Goto("down") /\ UNCHANGED marker
  <2>1. UNCHANGED core /\ "down" \in PCs
    BY <1>4 DEF ArmRevert, core, marker, snapshots, history, PCs
  <2>2. JobInv'
    BY <1>1, <1>2, <1>4, <2>1, GotoFields DEF JobInv, ApplyInv, core, LoadConfirmed
  <2> QED BY <2>1, <2>2, MarkFrame DEF Inv
<1>5. CASE SetMark(NoMark) /\ NotArmed
  <2>1. pending' = NoMark
    BY <1>5 DEF SetMark
  <2> QED BY <1>2, <1>3, <1>5, <2>1, NotArmedInv DEF MarkInv
<1> QED BY <1>4, <1>5 DEF ArmRevert

(* A revert finds its target in revert.json, which is accepted. *)
LEMMA InvLoadTarget == ASSUME Scope, Inv, LoadTarget PROVE MarkInv' /\ JobInv'
<1>1. UNCHANGED core
  BY DEF LoadTarget, core, marker, snapshots, history
<1>2. MarkInv'
  BY <1>1, MarkFrame DEF Inv
<1>3. CASE pending = NoMark
  BY <1>2, <1>3, NoJobInv DEF LoadTarget, Unlock
<1>4. CASE pending # NoMark
  <2>1. job.op = "revert" /\ job.mode = "revert" /\ RevertInv
    BY NoneIsNoJob DEF LoadTarget, At, Inv, JobInv, ApplyInv, UndoInv, ConfirmInv, InstanceInv
  <2>2. pending.target = "previous" /\ revert \in accepted /\ revert # NoFile /\ pending.applied \in Id
    BY <1>4, SpecialAssumption DEF Inv, MarkInv, TypeInv, ProcessOK, DiskOK, Marker
  <2>3. job' = [job EXCEPT !.from = RevertFrom, !.to = revert, !.pc = "down"]
    BY <1>4, <2>2 DEF LoadTarget
  <2>4. /\ job'.op = "revert" /\ job'.mode = "revert" /\ job'.to = revert /\ job'.id = job.id
        /\ job'.pc = "down"
    BY <2>1, <2>3 DEF Inv, TypeInv, JobOK, Job
  <2>5. RevertInv'
    BY <1>1, <1>4, <2>1, <2>2, <2>4 DEF RevertInv, core
  <2> QED BY <1>2, <2>4, <2>5 DEF JobInv
<1> QED BY <1>3, <1>4

(* A revert starts from nothing but the marker. *)
LEMMA BeginRevert ==
    ASSUME Inv, NEW who, NEW pc \in {"stop", "load"}, Begin("revert", who, "revert", pc), UNCHANGED core
    PROVE  MarkInv' /\ JobInv'
<1>1. /\ job'.op = "revert" /\ job'.mode = "revert" /\ job'.pc = pc
      /\ pending # NoMark => job'.id = pending.applied
  BY DEF Begin, NoJob
<1> QED BY <1>1, MarkFrame DEF Inv, JobInv, RevertInv, core

(* The revert service. *)
LEMMA InvRevertServiceFires == ASSUME Scope, Inv, RevertServiceFires PROVE MarkInv' /\ JobInv'
<1>1. UNCHANGED core
  BY DEF RevertServiceFires, core, disk, marker, snapshots, history
<1>2. Begin("revert", "service", "revert", "load") \/ UNCHANGED job
  BY DEF RevertServiceFires
<1> QED BY <1>1, <1>2, BeginRevert, MarkFrame, JobFrame DEF Inv

(* The boot unit. *)
LEMMA InvSDNBoot == ASSUME Scope, Inv, SDNBoot PROVE MarkInv' /\ JobInv'
<1>1. UNCHANGED core
  BY DEF SDNBoot, core, disk, marker, snapshots, history
<1>2. Begin("revert", "boot", "revert", "load") \/ UNCHANGED job
  BY DEF SDNBoot
<1> QED BY <1>1, <1>2, BeginRevert, MarkFrame, JobFrame DEF Inv


(* An apply starts from the confirmed configuration, with no marker. *)
LEMMA BeginApplyInv ==
    ASSUME Inv, NEW c \in Config, NEW a \in BOOLEAN, pending = NoMark,
           BeginApply("apply", "revertpoint", LoadConfirmed, c, a), AcceptOnApply(c, a)
    PROVE  MarkInv' /\ JobInv'
<1>1. /\ last + 1 \in Id /\ hist' = [hist EXCEPT ![last + 1].cfg = c]
      /\ UNCHANGED <<pending, config>> /\ LoadConfirmed' = LoadConfirmed
  BY BoundAssumption DEF BeginApply, Inv, TypeInv, DiskOK, Id, marker, LoadConfirmed
<1>2. LoadConfirmed \in accepted' /\ (~a => c \in accepted')
  BY DEF AcceptOnApply, Inv, MarkInv
<1>3. MarkInv'
  BY <1>1, <1>2 DEF MarkInv
<1>4. job' = [op |-> "apply", who |-> "portal", mode |-> "apply", pc |-> "revertpoint",
              from |-> LoadConfirmed, to |-> c, auto |-> a, id |-> last + 1, err |-> FALSE]
  BY DEF BeginApply
<1>5. hist'[last + 1].cfg = c
  BY <1>1 DEF Inv, TypeInv, DiskOK
<1> QED BY <1>1, <1>2, <1>3, <1>4, <1>5 DEF JobInv, ApplyInv

(* Apply. *)
LEMMA InvHandleSDNApply ==
    ASSUME Inv, NEW c \in Config, NEW a \in AutoChoices, HandleSDNApply(c, a)
    PROVE  MarkInv' /\ JobInv'
  BY BeginApplyInv, BoundAssumption DEF HandleSDNApply, CanApply

(* Restore of a history entry. *)
LEMMA InvHandleSDNRestore ==
    ASSUME Inv, NEW i \in Id, NEW a \in AutoChoices, HandleSDNRestore(i, a)
    PROVE  MarkInv' /\ JobInv'
<1>1. hist[i].cfg \in Config
  BY DEF Inv, TypeInv, DiskOK
<1> QED BY <1>1, BeginApplyInv, BoundAssumption DEF HandleSDNRestore, CanApply

(* No enable in scope. *)
LEMMA InvHandleSDNEnable == ASSUME Scope, NEW c \in Config PROVE ~HandleSDNEnable(c)
  BY DEF Scope, HandleSDNEnable

(* Disable. *)
LEMMA InvHandleSDNDisable == ASSUME Inv, HandleSDNDisable PROVE MarkInv' /\ JobInv'
<1>1. UNCHANGED core
  BY DEF HandleSDNDisable, core, disk, snapshots, marker, history
<1>2. job'.op = "disable" /\ job'.mode = "disable" /\ job'.pc = "predown"
  BY DEF HandleSDNDisable, Begin, NoJob
<1> QED BY <1>1, <1>2, MarkFrame DEF Inv, JobInv

(* Confirm. *)
LEMMA InvHandleSDNConfirm == ASSUME Inv, HandleSDNConfirm PROVE MarkInv' /\ JobInv'
<1>1. UNCHANGED core /\ pending # NoMark
  BY DEF HandleSDNConfirm, core, disk, snapshots, marker, history
<1>2. /\ job'.op = "confirm" /\ job'.mode = "confirm" /\ job'.pc = "stop"
      /\ job'.id = pending.applied
  BY <1>1 DEF HandleSDNConfirm, Begin, NoJob
<1>3. pending.applied \in Id
  BY <1>1 DEF Inv, TypeInv, DiskOK, Marker
<1> QED BY <1>1, <1>2, <1>3, MarkFrame DEF Inv, JobInv, ConfirmInv, core

(* Revert now. *)
LEMMA InvHandleSDNRevertNow == ASSUME Inv, HandleSDNRevertNow PROVE MarkInv' /\ JobInv'
<1>1. UNCHANGED core
  BY DEF HandleSDNRevertNow, core, disk, snapshots, marker, history
<1> QED BY <1>1, BeginRevert DEF HandleSDNRevertNow

(* A change of instance forwards. *)
LEMMA InvSDNInstanceChange ==
    ASSUME Inv, NEW c \in Config, SDNInstanceChange(c) PROVE MarkInv' /\ JobInv'
<1>1. /\ last + 1 \in Id /\ pending' = NoMark /\ pending = NoMark
      /\ LoadConfirmed' = LoadConfirmed
  BY BoundAssumption DEF SDNInstanceChange, Inv, TypeInv, DiskOK, Id, marker, LoadConfirmed
<1>2. LoadConfirmed \in accepted' /\ c \in accepted'
  BY <1>1 DEF SDNInstanceChange, AcceptOnApply, Inv, MarkInv
<1>3. /\ job'.op = "instance" /\ job'.mode = "instance" /\ job'.to = c
      /\ job'.pc \in {"nft", "save"} /\ job'.id = last + 1
  BY DEF SDNInstanceChange
<1> QED BY <1>1, <1>2, <1>3 DEF MarkInv, JobInv, InstanceInv

(* The steps only an enable takes. *)
LEMMA EnableStepsOff ==
    ASSUME Inv PROVE ~InstallUnit /\ ~SaveEnabled /\ ~EnableCheck /\ ~ResaveConfirmed
  BY NoneIsNoJob DEF Inv, JobInv, ApplyInv, UndoInv, RevertInv, ConfirmInv, InstanceInv,
                     InstallUnit, SaveEnabled, EnableCheck, ResaveConfirmed, At

(* Before the marker is written only an apply is at work, and nothing is pending. *)
LEMMA InApply ==
    ASSUME Inv, job # NoJob, job.pc \in {"revertpoint", "applying", "mark"}
    PROVE  job.op = "apply" /\ job.mode = "apply" /\ ApplyInv /\ pending = NoMark
  BY NoneIsNoJob DEF Inv, JobInv, ApplyInv, UndoInv, RevertInv, ConfirmInv, InstanceInv

(* An apply that fails before it is armed lets the lock go. *)
LEMMA InvNotStarted ==
    ASSUME Inv, job.op = "apply", NotStarted, MarkInv' PROVE MarkInv' /\ JobInv'
  BY NoJobInv DEF NotStarted, Unlock

(* The revert point is the confirmed configuration. *)
LEMMA InvSaveRevertPoint == ASSUME Inv, SaveRevertPoint PROVE MarkInv' /\ JobInv'
<1>1. job # NoJob /\ job.pc = "revertpoint" /\ "applying" \in PCs
  BY DEF SaveRevertPoint, At, PCs
<1>2. UNCHANGED <<config, pending, hist, accepted>>
  BY DEF SaveRevertPoint, marker, snapshots, history
<1>3. MarkInv'
  BY <1>1, <1>2, InApply DEF Inv, MarkInv, LoadConfirmed
<1>4. CASE revert' = job.from /\ Goto("applying")
  BY <1>1, <1>2, <1>3, <1>4, InApply, GotoFields DEF JobInv, ApplyInv, LoadConfirmed
<1>5. CASE NotStarted
  BY <1>1, <1>3, <1>5, InApply, InvNotStarted
<1> QED BY <1>4, <1>5 DEF SaveRevertPoint

(* applying.json. *)
LEMMA InvSaveApplying == ASSUME Inv, SaveApplying PROVE MarkInv' /\ JobInv'
<1>1. job # NoJob /\ job.pc = "applying" /\ "mark" \in PCs /\ "down" \in PCs
  BY DEF SaveApplying, At, PCs
<1>2. \/ job.auto /\ Goto("mark")
      \/ ~job.auto /\ Goto("down")
      \/ NotStarted
  BY DEF SaveApplying
<1>3. UNCHANGED core
  BY DEF SaveApplying, core, marker, snapshots, history
<1>4. CASE job.auto /\ Goto("mark")
  BY <1>1, <1>3, <1>4, InApply, GotoFields, MarkFrame
     DEF Inv, JobInv, ApplyInv, core, LoadConfirmed
<1>5. CASE ~job.auto /\ Goto("down")
  BY <1>1, <1>3, <1>5, InApply, GotoFields, MarkFrame
     DEF Inv, JobInv, ApplyInv, core, LoadConfirmed
<1>6. CASE NotStarted
  BY <1>1, <1>3, <1>6, InApply, MarkFrame, InvNotStarted DEF Inv
<1> QED BY <1>2, <1>4, <1>5, <1>6

(* The marker: its revert point is accepted already. *)
LEMMA InvWritePending == ASSUME Inv, WritePending PROVE MarkInv' /\ JobInv'
<1>1. job # NoJob /\ job.pc = "mark" /\ "arm" \in PCs
  BY DEF WritePending, At, PCs
<1>2. job.op = "apply" /\ job.mode = "apply" /\ ApplyInv /\ job.auto /\ pending = NoMark
  BY <1>1, InApply DEF ApplyInv
<1>3. UNCHANGED <<config, revert, hist, accepted>>
  BY DEF WritePending, snapshots, history
<1>4. CASE SetMark([target |-> Target, applied |-> job.id]) /\ Goto("arm")
  <2>1. pending' = [target |-> "previous", applied |-> job.id]
    BY <1>2, <1>4 DEF SetMark, Target
  <2>2. pending' # NoMark
    BY <1>2, <2>1, SpecialAssumption, BoundAssumption DEF ApplyInv, Id
  <2>3. MarkInv'
    BY <1>1, <1>2, <1>3, <2>1, <2>2 DEF Inv, MarkInv, ApplyInv, LoadConfirmed
  <2> QED BY <1>1, <1>2, <1>3, <1>4, <2>1, <2>2, <2>3, GotoFields
          DEF JobInv, ApplyInv, LoadConfirmed
<1>5. CASE UNCHANGED marker /\ NotArmed
  <2>1. UNCHANGED core /\ LoadConfirmed' = LoadConfirmed
    BY <1>3, <1>5 DEF core, marker, LoadConfirmed
  <2>2. LoadConfirmed' \in accepted'
    BY <1>2, <2>1 DEF Inv, MarkInv, core
  <2> QED BY <1>2, <1>5, <2>1, <2>2, MarkFrame, NotArmedInv DEF Inv
<1> QED BY <1>4, <1>5 DEF WritePending

(* config.json: guarded by the marker, or of an accepted configuration. *)
LEMMA InvSaveConfirmed == ASSUME Scope, Inv, SaveConfirmed PROVE MarkInv' /\ JobInv'
<1>1. job # NoJob /\ job.pc = "save" /\ config' = job.to
  BY DEF SaveConfirmed, At, Scope
<1>2. UNCHANGED <<pending, revert, hist, accepted>>
  BY DEF SaveConfirmed, marker, snapshots, history
<1>3. job.to \in Config /\ job.to # NoFile /\ LoadConfirmed' = job.to
  BY <1>1, SpecialAssumption DEF Inv, TypeInv, JobOK, Job, LoadConfirmed
<1>4. {"clear", "outcome", "record"} \subseteq PCs
  BY DEF PCs
<1>5. CASE job.mode = "apply" /\ Goto("clear")
  <2>1. job.op = "apply" /\ ApplyInv
    BY <1>1, <1>5, NoneIsNoJob DEF Inv, JobInv
  <2>2. MarkInv'
    BY <1>1, <1>2, <1>3, <2>1 DEF Inv, MarkInv, ApplyInv
  <2> QED BY <1>1, <1>2, <1>4, <1>5, <2>1, <2>2, GotoFields DEF JobInv, ApplyInv
<1>6. CASE job.mode = "revert" /\ Goto("outcome")
  <2>1. job.op = "revert" /\ RevertInv
    BY <1>1, <1>6, NoneIsNoJob DEF Inv, JobInv
  <2>2. MarkInv' /\ LoadConfirmed' \in accepted'
    BY <1>1, <1>2, <1>3, <2>1 DEF Inv, MarkInv, RevertInv
  <2> QED BY <1>1, <1>2, <1>4, <1>6, <2>1, <2>2, GotoFields DEF JobInv, RevertInv
<1>7. CASE job.mode = "instance" /\ Goto("record")
  <2>1. job.op = "instance" /\ InstanceInv
    BY <1>1, <1>7, NoneIsNoJob DEF Inv, JobInv
  <2>2. MarkInv'
    BY <1>2, <1>3, <2>1 DEF MarkInv, InstanceInv
  <2> QED BY <1>2, <1>4, <1>7, <2>1, <2>2, GotoFields DEF JobInv, InstanceInv
<1> QED BY <1>5, <1>6, <1>7 DEF SaveConfirmed, Scope

(* The end of applying.json. *)
LEMMA InvClearApplying == ASSUME Inv, ClearApplying PROVE MarkInv' /\ JobInv'
<1>1. job # NoJob /\ job.pc = "clear" /\ {"record", "unmark"} \subseteq PCs
  BY DEF ClearApplying, At, PCs
<1>2. UNCHANGED core
  BY DEF ClearApplying, core, marker, snapshots, history
<1>3. MarkInv'
  BY <1>2, MarkFrame DEF Inv
<1>4. CASE job.mode = "apply" /\ Goto("record")
  BY <1>1, <1>2, <1>3, <1>4, NoneIsNoJob, GotoFields
     DEF Inv, JobInv, ApplyInv, core, LoadConfirmed
<1>5. CASE job.mode = "revert" /\ Goto("unmark")
  BY <1>1, <1>2, <1>3, <1>5, NoneIsNoJob, GotoFields
     DEF Inv, JobInv, RevertInv, core, LoadConfirmed
<1>6. CASE job.mode = "undo" /\ Unlock
  BY <1>3, <1>6, NoJobInv DEF Unlock
<1> QED BY <1>1, <1>4, <1>5, <1>6 DEF ClearApplying, Inv, JobInv

(* Recording an outcome changes no configuration of the history. *)
LEMMA OutcomeKeepsMark ==
    ASSUME Inv, UNCHANGED <<config, pending, revert, accepted>>,
           \A i \in Id : hist'[i].cfg = hist[i].cfg
    PROVE  MarkInv'
  BY DEF Inv, TypeInv, DiskOK, Marker, MarkInv, LoadConfirmed

(* The history entry. *)
LEMMA InvAddSnapshot == ASSUME Inv, AddSnapshot PROVE MarkInv' /\ JobInv'
<1>1. UNCHANGED <<config, pending, revert, accepted>>
  BY DEF AddSnapshot, marker, history
<1>2. \A i \in Id : hist'[i].cfg = hist[i].cfg
  BY DEF AddSnapshot, Inv, TypeInv, DiskOK
<1> QED BY <1>1, <1>2, OutcomeKeepsMark, NoJobInv DEF AddSnapshot, Unlock

(* The outcome of a history entry. *)
LEMMA InvSetOutcome == ASSUME Inv, SetOutcome PROVE MarkInv' /\ JobInv'
<1>1. UNCHANGED <<config, pending, revert, accepted>> /\ LoadConfirmed' = LoadConfirmed
  BY DEF SetOutcome, marker, history, LoadConfirmed
<1>2. \A i \in Id : hist'[i].cfg = hist[i].cfg
  BY DEF SetOutcome, Inv, TypeInv, DiskOK
<1>3. MarkInv'
  BY <1>1, <1>2, OutcomeKeepsMark
<1>4. CASE job.op = "confirm"
  BY <1>3, <1>4, NoJobInv DEF SetOutcome, Unlock
<1>5. CASE job.op # "confirm"
  <2>1. job.pc = "outcome" /\ Goto("clear") /\ "clear" \in PCs
    BY <1>5 DEF SetOutcome, At, PCs
  <2>2. job.op = "revert" /\ job.mode = "revert" /\ RevertInv
    BY <1>5, <2>1, NoneIsNoJob DEF SetOutcome, At, Inv, JobInv, ApplyInv, UndoInv, InstanceInv
  <2> QED BY <1>1, <1>3, <2>1, <2>2, GotoFields DEF JobInv, RevertInv
<1> QED BY <1>4, <1>5

(* Stopping the revert service. *)
LEMMA InvStopService == ASSUME Inv, StopService PROVE MarkInv' /\ JobInv'
<1>1. job # NoJob /\ job.pc = "stop" /\ {"load", "unmark"} \subseteq PCs
  BY DEF StopService, At, PCs
<1>2. UNCHANGED core
  BY DEF StopService, core, disk, marker, snapshots, history
<1>3. \/ job.mode = "revert" /\ Goto("load")
      \/ job.mode # "revert" /\ Goto("unmark")
  BY DEF StopService
<1>4. CASE job.mode = "revert" /\ Goto("load")
  BY <1>1, <1>2, <1>4, NoneIsNoJob, GotoFields, MarkFrame
     DEF Inv, JobInv, RevertInv, core, LoadConfirmed
<1>5. CASE job.mode # "revert" /\ Goto("unmark")
  <2>1. \/ job.op = "apply" /\ job.mode = "undo" /\ UndoInv
        \/ job.op = "confirm" /\ job.mode = "confirm" /\ ConfirmInv
    BY <1>1, <1>5, NoneIsNoJob DEF Inv, JobInv, ApplyInv, InstanceInv
  <2> QED BY <1>1, <1>2, <1>5, <2>1, GotoFields, MarkFrame
          DEF Inv, JobInv, UndoInv, ConfirmInv, core, LoadConfirmed
<1> QED BY <1>3, <1>4, <1>5

(* A revert that falls back to the safe-mode ruleset. *)
LEMMA InvRevertSafeMode == ASSUME Inv, RevertSafeMode PROVE MarkInv' /\ JobInv'
<1>1. job # NoJob /\ job.pc = "safe" /\ Goto("save") /\ "save" \in PCs
  BY DEF RevertSafeMode, At, PCs
<1>2. UNCHANGED core
  BY DEF RevertSafeMode, core, disk, marker, snapshots, history
<1>3. job.op = "revert" /\ job.mode = "revert" /\ RevertInv
  BY <1>1, NoneIsNoJob DEF Inv, JobInv, ApplyInv, UndoInv, ConfirmInv, InstanceInv
<1> QED BY <1>1, <1>2, <1>3, GotoFields, MarkFrame DEF Inv, JobInv, RevertInv, core, LoadConfirmed

(* Removing the marker: config.json is accepted by then. *)
LEMMA InvRemovePending == ASSUME Inv, RemovePending PROVE MarkInv' /\ JobInv'
<1>1. job # NoJob /\ job.pc = "unmark" /\ pending' = NoMark /\ {"down", "outcome"} \subseteq PCs
  BY DEF RemovePending, At, SetMark, PCs
<1>2. UNCHANGED <<config, revert, hist>> /\ LoadConfirmed' = LoadConfirmed
  BY DEF RemovePending, snapshots, LoadConfirmed
<1>3. CASE job.mode = "undo" /\ Goto("down")
  <2>1. job.op = "apply" /\ UndoInv /\ accepted' = accepted
    BY <1>1, <1>3, NoneIsNoJob DEF Inv, JobInv, RemovePending
  <2> QED BY <1>1, <1>2, <1>3, <2>1, GotoFields DEF MarkInv, JobInv, UndoInv
<1>4. CASE job.mode = "confirm" /\ Goto("outcome")
  <2>1. job.op = "confirm" /\ ConfirmInv /\ accepted' = accepted \cup {hist[job.id].cfg}
    BY <1>1, <1>4, NoneIsNoJob DEF Inv, JobInv, RemovePending
  <2>2. LoadConfirmed \in accepted'
    BY <1>1, <2>1 DEF Inv, MarkInv, ConfirmInv
  <2> QED BY <1>1, <1>2, <1>4, <2>1, <2>2, GotoFields DEF MarkInv, JobInv, ConfirmInv
<1>5. CASE job.mode = "revert" /\ Unlock
  <2>1. job.op = "revert" /\ RevertInv /\ accepted' = accepted
    BY <1>1, <1>5, NoneIsNoJob DEF Inv, JobInv, RemovePending
  <2> QED BY <1>1, <1>2, <1>5, <2>1, NoJobInv DEF MarkInv, RevertInv, Unlock
<1> QED BY <1>3, <1>4, <1>5 DEF RemovePending

(* SDNRestorePreSDN runs only for Disable here: no marker targets it.       *)
LEMMA PreSDNStep ==
    ASSUME Inv, job # NoJob,
           job.pc \in {"predown", "preifaces", "prerules", "preunit", "prestate"},
           UNCHANGED core,
           \/ \E pc \in {"preifaces", "prerules", "preunit", "prestate"} : Goto(pc)
           \/ PreSDNReturns(TRUE) \/ PreSDNReturns(FALSE)
    PROVE  MarkInv' /\ JobInv'
<1>1. job.op = "disable" /\ job.mode = "disable"
  BY NoneIsNoJob DEF Inv, JobInv, ApplyInv, UndoInv, RevertInv, ConfirmInv, InstanceInv
<1>2. CASE Unlock
  BY <1>2, MarkFrame, NoJobInv DEF Inv, Unlock
<1>3. ASSUME NEW pc \in {"preifaces", "prerules", "preunit", "prestate"}, Goto(pc)
      PROVE  MarkInv' /\ JobInv'
  <2>1. pc \in PCs
    BY DEF PCs
  <2> QED BY <1>1, <1>3, <2>1, GotoFields, MarkFrame DEF Inv, JobInv
<1> QED BY <1>1, <1>2, <1>3 DEF PreSDNReturns

(* Disable. *)
LEMMA InvPreSDN ==
    ASSUME Inv, PreSDNDown \/ PreSDNInterfaces \/ DeleteTable \/ SDNRemoveUnit \/ SaveDisabled
    PROVE  MarkInv' /\ JobInv'
<1>1. UNCHANGED core
  BY DEF PreSDNDown, PreSDNInterfaces, DeleteTable, SDNRemoveUnit, SaveDisabled,
         core, disk, marker, snapshots, history
<1> QED BY <1>1, PreSDNStep
        DEF PreSDNDown, PreSDNInterfaces, DeleteTable, SDNRemoveUnit, SaveDisabled, At

(* Steps of other processes that touch none of the files; crashes. *)
LEMMA InvBystander ==
    ASSUME Inv, \/ InstanceForwardsActive \/ NetworkUp \/ RefreshUnit
           \/ RefreshRead \/ RefreshLoad \/ Flush
    PROVE  MarkInv' /\ JobInv'
<1>1. UNCHANGED <<core, job>>
  BY DEF InstanceForwardsActive, NetworkUp, RefreshUnit, RefreshRead, RefreshLoad, Flush,
         core, disk, marker, snapshots, history
<1> QED BY <1>1, MarkFrame, JobFrame DEF Inv

(* Crashes lose the lock holder, never a file. *)
LEMMA InvCrash == ASSUME Scope, Inv, Crash PROVE MarkInv' /\ JobInv'
<1>1. UNCHANGED core
  BY DEF Scope, Crash, PortalCrash, Reboot, PowerCut, Restart, core, disk, marker,
         snapshots, history
<1>2. job' = NoJob \/ job' = job
  BY DEF Scope, Crash, PortalCrash, Reboot, PowerCut, Restart
<1> QED BY <1>1, <1>2, MarkFrame, JobFrame, NoJobInv DEF Inv

(* Every step preserves the invariant. *)
LEMMA InvNext == ASSUME Scope, Inv, [Next]_vars PROVE Inv'
<1>1. TypeInv'
  BY TypeNext DEF Inv
<1>2. CASE Request
  BY <1>2, InvHandleSDNApply, InvHandleSDNRestore, InvHandleSDNEnable, InvHandleSDNDisable,
     InvHandleSDNConfirm, InvHandleSDNRevertNow, InvBystander, InvSDNInstanceChange,
     <1>1 DEF Request, Inv
<1>3. CASE JobStep
  BY <1>1, <1>3, EnableStepsOff, InvSaveRevertPoint, InvSaveApplying, InvWritePending,
     InvArmRevert, InvSaveConfirmed, InvClearApplying, InvAddSnapshot, InvIfDown,
     InvSpliceOwned, InvIfUp, InvLoadRuleset, InvStopService, InvLoadTarget,
     InvRevertSafeMode, InvSetOutcome, InvRemovePending, InvPreSDN DEF JobStep, Inv
<1>4. CASE Background
  BY <1>1, <1>4, InvRevertServiceFires, InvSDNBoot, InvBystander DEF Background, Inv
<1>5. CASE Crash
  BY <1>1, <1>5, InvCrash DEF Inv
<1>6. CASE Flush
  BY <1>1, <1>6, InvBystander DEF Inv
<1>7. CASE UNCHANGED vars
  <2>1. UNCHANGED <<core, job>>
    BY <1>7 DEF vars, core, disk, marker, snapshots, history
  <2> QED BY <1>1, <2>1, MarkFrame, JobFrame DEF Inv
<1> QED BY <1>2, <1>3, <1>4, <1>5, <1>6, <1>7 DEF Next

(* It holds initially. *)
LEMMA InvInit == ASSUME Scope, Init PROVE Inv
<1>1. config \in Config /\ accepted = {config} /\ pending = NoMark /\ job = NoJob
  BY DEF Scope, Init
<1>2. MarkInv
  BY <1>1, SpecialAssumption DEF MarkInv, LoadConfirmed
<1>3. JobInv
  BY <1>1 DEF JobInv, NoJob
<1> QED BY <1>2, <1>3, TypeInit DEF Inv

(* In scope, the invariant holds in every reachable state ...               *)
THEOREM BootInvariant == Scope => (Spec => []IInv)
<1> SUFFICES ASSUME Scope PROVE Spec => []IInv
  OBVIOUS
<1>1. Init => Inv
  BY InvInit
<1>2. Inv /\ [Next]_vars => Inv'
  BY InvNext
<1>3. Inv => IInv
  BY DEF Inv, IInv, TypeInv, TypeOK, JobOK
<1> QED BY <1>1, <1>2, <1>3, PTL DEF Spec

(* ... and so a reboot at any moment brings up a configuration the admin    *)
(* accepted.                                                                *)
THEOREM BootSafe == Scope => (Spec => []BootsAccepted)
<1>1. IInv => BootsAccepted
  BY DEF IInv, MarkInv, BootsAccepted
<1> QED BY <1>1, BootInvariant, PTL

(***************************************************************************)
(* The files and the rules of a trial. TrialInv and RulesInv, on top of    *)
(* Inv, carry the refinement of SDNTrial and RulesGuarded. Most steps only *)
(* move the lock holder: OnwardSteps shows that at once, and each          *)
(* invariant has a lemma for the others.                                   *)
(***************************************************************************)
(* Control points of a revert that has saved its target. *)
Saved == {"outcome", "clear", "unmark"}

(* What config.json holds besides what MarkInv says: the change that is tried or what it *)
(* would go back to; the latter while a failed apply is undone and once a revert has     *)
(* saved it.                                                                             *)
TrialInv ==
    /\ pending # NoMark => LoadConfirmed \in {revert, hist[pending.applied].cfg}
    /\ pending # NoMark /\ job.mode = "undo" => LoadConfirmed = revert
    /\ job.mode = "revert" /\ job.pc \in Saved => LoadConfirmed = revert

(* Rules that may run with nothing pending. *)
Fine == accepted \cup {Off, Safe}

(* Control points at which an apply has loaded its rules. *)
Late == {"save", "clear", "record"}

(* The rules that run are accepted, those of safe mode or none, or the ones on trial; an *)
(* apply loads its own after the marker is there, an undo and a revert go back to        *)
(* accepted ones.                                                                        *)
RulesInv ==
    /\ rules \in Fine \/ (pending # NoMark /\ rules = hist[pending.applied].cfg)
    /\ job # NoJob /\ job.mode = "apply" /\ job.pc \notin Late => rules \in Fine
    /\ job.mode = "undo" => rules \in Fine /\ (job.pc # "clear" => job.to \in accepted)
    /\ job.mode = "revert" /\ job.pc \in Saved \cup {"save"} => rules \in Fine
    /\ refresh = "none"

(* How a step that writes no file of a change moves the lock holder: it returns or goes *)
(* on, reaching no point at which the two invariants ask for more.                      *)
Forward ==
    /\ job # NoJob
    /\ \/ job' = NoJob
       \/ /\ job'.mode = job.mode
          /\ job.mode = "apply" => job'.pc \in Late \/ job.pc \notin Late
          /\ job.mode = "undo" => job'.to = job.to /\ job.pc # "clear"
          /\ job.mode = "revert" => /\ job'.pc \in Saved => job.pc \in Saved
                                    /\ job'.pc # "save"

(* The files that say what is tried. *)
files == <<config, pending, revert>>

(* The history keeps its configurations. *)
SameCfg == \A i \in Id : hist'[i].cfg = hist[i].cfg

(* The marker names a change. *)
LEMMA MarkId == ASSUME Inv, pending # NoMark PROVE pending.applied \in Id
  BY DEF Inv, TypeInv, DiskOK, Marker

(* TrialInv is about these files, the history and the lock holder. *)
LEMMA TrialFrame ==
  ASSUME Inv, TrialInv, UNCHANGED files, SameCfg, Forward \/ job' = job \/ job' = NoJob
  PROVE  TrialInv'
<1>1. LoadConfirmed' = LoadConfirmed
      /\ (pending # NoMark => hist'[pending.applied].cfg = hist[pending.applied].cfg)
  BY MarkId DEF files, LoadConfirmed, SameCfg
<1>2. CASE job' = NoJob
  BY <1>1, <1>2 DEF TrialInv, NoJob, files
<1>3. CASE job' # NoJob
  BY <1>1, <1>3 DEF TrialInv, Forward, files
<1> QED BY <1>2, <1>3

(* RulesInv is about these and the rules. *)
LEMMA RulesFrame ==
    ASSUME Inv, RulesInv, UNCHANGED <<files, accepted, rules>>, SameCfg,
           Forward \/ job' = job \/ job' = NoJob,
           refresh' = "none" PROVE RulesInv'
<1>1. (pending # NoMark => hist'[pending.applied].cfg = hist[pending.applied].cfg)
      /\ Fine' = Fine
  BY MarkId DEF SameCfg, Fine
<1>2. CASE job' = NoJob
  BY <1>1, <1>2 DEF RulesInv, NoJob, files
<1>3. CASE job' # NoJob
  BY <1>1, <1>3 DEF RulesInv, Forward, files
<1> QED BY <1>2, <1>3

(* The confirmed configuration is accepted while an apply has not saved it. *)
LEMMA FromAccepted ==
  ASSUME Inv, job # NoJob, job.mode = "apply", job.pc \notin {"clear", "record"}
   PROVE job.from = LoadConfirmed /\ job.from \in accepted
  BY NoneIsNoJob DEF Inv, JobInv, ApplyInv, MarkInv

(* A failing step of sdnApply goes on, or turns an apply to undo what it did. *)
LEMMA Failed ==
    ASSUME Inv, TrialInv, job # NoJob, job.pc \in {"down", "splice", "up", "nft"},
           ApplyFailed
    PROVE  \/ Forward
           \/ /\ job.mode = "apply" /\ job'.mode = "undo" /\ job'.pc # "clear"
              /\ job'.to = job.from
              /\ job'.op = "apply"
<1>1. CASE job.mode = "apply"
  BY <1>1 DEF ApplyFailed, Rollback, Inv, TypeInv, JobOK, Job, JobInv
<1>2. CASE job.mode = "undo"
  BY <1>2 DEF ApplyFailed, Goto, Inv, TypeInv, JobOK, Job, Forward
<1>3. CASE job.mode = "revert"
  BY <1>3 DEF ApplyFailed, Inv, TypeInv, JobOK, Job, Forward, Saved
<1>4. CASE job.mode = "instance"
  BY <1>4 DEF ApplyFailed, Unlock, Forward
<1> QED BY <1>1, <1>2, <1>3, <1>4 DEF ApplyFailed

(* It keeps TrialInv ... *)
LEMMA TrialFailed ==
    ASSUME Inv, TrialInv, job # NoJob, job.pc \in {"down", "splice", "up", "nft"},
           ApplyFailed, UNCHANGED files, SameCfg
    PROVE TrialInv'
<1>1. CASE job.mode = "apply" /\ job'.mode = "undo"
  <2>1. pending # NoMark => LoadConfirmed = revert
    BY <1>1, NoneIsNoJob DEF Inv, JobInv, ApplyInv
  <2>2. LoadConfirmed' = LoadConfirmed
        /\ (pending # NoMark => hist'[pending.applied].cfg = hist[pending.applied].cfg)
    BY MarkId DEF files, LoadConfirmed, SameCfg
  <2> QED BY <1>1, <2>1, <2>2 DEF TrialInv, files
<1> QED BY <1>1, Failed, TrialFrame

(* ... and RulesInv. *)
LEMMA RulesFailed ==
    ASSUME Inv, TrialInv, RulesInv, job # NoJob, job.pc \in {"down", "splice", "up", "nft"},
           ApplyFailed,
           UNCHANGED <<files, accepted, rules>>, SameCfg, refresh' = "none"
    PROVE RulesInv'
<1>1. CASE job.mode = "apply" /\ job'.mode = "undo" /\ job'.to = job.from
  <2>1. rules \in Fine /\ job'.to \in accepted
    BY <1>1, FromAccepted DEF RulesInv, Late
  <2>2. Fine' = Fine
    BY DEF Fine
  <2> QED BY <2>1, <2>2 DEF RulesInv
<1> QED BY <1>1, Failed, RulesFrame

(***************************************************************************)
(* Steps that only move the lock holder.                                   *)
(***************************************************************************)
(* The steps of sdnApply that may fail. *)
SDNApplyPC == {"down", "splice", "up", "nft"}

(* Goto moves forward unless it enters a point that the invariants are about. *)
LEMMA GotoForward ==
    ASSUME Inv, job # NoJob, NEW pc, Goto(pc),
           job.mode = "apply" => pc \in Late \/ job.pc \notin Late,
           job.mode = "undo" => job.pc # "clear",
           job.mode = "revert" => (pc \in Saved => job.pc \in Saved) /\ pc # "save"
    PROVE  Forward
  BY DEF Goto, Forward

(* A step forward, or a failing one. *)
Onward == Forward \/ (job # NoJob /\ job.pc \in SDNApplyPC /\ ApplyFailed)

(* All but eight steps of the lock holder only move it onward. *)
LEMMA OnwardSteps ==
    ASSUME Inv, JobStep, ~SaveRevertPoint, ~WritePending, ~ArmRevert, ~SaveConfirmed,
           ~LoadRuleset,
           ~RevertSafeMode, ~RemovePending, ~DeleteTable
    PROVE  Onward /\ UNCHANGED <<files, accepted, rules, refresh>> /\ SameCfg
<1>1. CASE SaveApplying
  <2>1. job.mode = "apply"
    BY <1>1, InApply DEF SaveApplying, At
  <2>2. Onward
    BY <1>1, <2>1, InApply, GotoForward DEF SaveApplying, At, Late, Onward, Forward,
       NotStarted, Unlock
  <2> QED BY <1>1, <2>2 DEF SaveApplying, files, marker, snapshots, kernel, others, history,
             SameCfg
<1>2. CASE ClearApplying
  <2>1. Onward
    BY <1>2, GotoForward DEF ClearApplying, At, Late, Saved, Onward, Forward, Unlock, Inv,
       JobInv
  <2> QED BY <1>2, <2>1 DEF ClearApplying, files, marker, snapshots, kernel, others,
             history, SameCfg
<1>3. CASE AddSnapshot
  <2>1. Onward
    BY <1>3 DEF AddSnapshot, At, Onward, Forward, Unlock
  <2>2. SameCfg
    BY <1>3 DEF AddSnapshot, SameCfg, Inv, TypeInv, DiskOK
  <2> QED BY <1>3, <2>1, <2>2 DEF AddSnapshot, files, marker, kernel, others, history
<1>4. CASE IfDown
  <2>1. Onward
    BY <1>4, GotoForward DEF IfDown, At, Late, Saved, Onward, SDNApplyPC
  <2> QED BY <1>4, <2>1 DEF IfDown, files, disk, marker, snapshots, others, history, SameCfg
<1>5. CASE SpliceOwned
  <2>1. Onward
    BY <1>5, GotoForward DEF SpliceOwned, AfterSplice, At, Late, Saved, Onward, SDNApplyPC
  <2> QED BY <1>5, <2>1 DEF SpliceOwned, files, marker, snapshots, kernel, others, history,
             SameCfg
<1>6. CASE IfUp
  <2>1. Onward
    BY <1>6, GotoForward DEF IfUp, At, Late, Saved, Onward, SDNApplyPC
  <2> QED BY <1>6, <2>1 DEF IfUp, files, disk, marker, snapshots, others, history, SameCfg
<1>7. CASE StopService
  <2>1. job.mode \in {"undo", "confirm", "revert"}
    BY <1>7, NoneIsNoJob DEF StopService, At, Inv, JobInv, ApplyInv, InstanceInv
  <2>2. Onward
    BY <1>7, <2>1, GotoForward DEF StopService, At, Saved, Onward
  <2> QED BY <1>7, <2>2 DEF StopService, files, disk, marker, snapshots, kernel, history,
             SameCfg
<1>8. CASE LoadTarget
  <2>1. job # NoJob /\ job.pc = "load" /\ job.op = "revert" /\ job.mode = "revert"
    BY <1>8, NoneIsNoJob DEF LoadTarget, At, Inv, JobInv, ApplyInv, UndoInv, ConfirmInv,
       InstanceInv
  <2>2. pending # NoMark => pending.target = "previous" /\ revert # NoFile
    BY SpecialAssumption DEF Inv, MarkInv, TypeInv, ProcessOK
  <2>3. \/ job' = NoJob
        \/ job' = [job EXCEPT !.from = RevertFrom, !.to = revert, !.pc = "down"]
    BY <1>8, <2>2 DEF LoadTarget, Unlock
  <2>4. Onward
    BY <2>1, <2>3 DEF Inv, TypeInv, JobOK, Job, Onward, Forward, Saved
  <2> QED BY <1>8, <2>4 DEF LoadTarget, files, marker, snapshots, kernel, others, history,
             SameCfg
<1>9. CASE SetOutcome
  <2>1. job.mode \in {"revert", "confirm"} /\ job # NoJob /\ job.pc = "outcome"
    BY <1>9, NoneIsNoJob DEF SetOutcome, At, Inv, JobInv, ApplyInv, UndoInv, InstanceInv
  <2>2. Onward
    BY <1>9, <2>1, GotoForward DEF SetOutcome, Unlock, Forward, Saved, Onward
  <2>3. SameCfg
    BY <1>9 DEF SetOutcome, SameCfg, Inv, TypeInv, DiskOK
  <2> QED BY <1>9, <2>2, <2>3 DEF SetOutcome, files, marker, kernel, others, history
<1>10. CASE PreSDNDown \/ PreSDNInterfaces \/ SDNRemoveUnit \/ SaveDisabled
  <2>1. job # NoJob /\ job.op = "disable" /\ job.mode = "disable"
    BY <1>10, NoneIsNoJob DEF PreSDNDown, PreSDNInterfaces, SDNRemoveUnit, SaveDisabled, At,
       Inv, JobInv, ApplyInv, UndoInv, RevertInv, ConfirmInv, InstanceInv
  <2>2. Onward
    BY <1>10, <2>1, GotoForward DEF PreSDNDown, PreSDNInterfaces, SDNRemoveUnit,
       SaveDisabled, PreSDNReturns, Unlock, Forward, Onward
  <2> QED BY <1>10, <2>2 DEF PreSDNDown, PreSDNInterfaces, SDNRemoveUnit, SaveDisabled,
             files, disk, marker, snapshots, kernel, others, history, SameCfg
<1> QED BY <1>1, <1>2, <1>3, <1>4, <1>5, <1>6, <1>7, <1>8, <1>9, <1>10, EnableStepsOff
           DEF JobStep

(* Such steps keep both invariants. *)
LEMMA OnwardInv ==
    ASSUME Inv, TrialInv, Onward, UNCHANGED <<files, accepted, rules, refresh>>, SameCfg
    PROVE TrialInv' /\ (RulesInv => RulesInv')
<1>1. RulesInv => refresh' = "none"
  BY DEF RulesInv
<1> QED BY <1>1, TrialFrame, TrialFailed, RulesFrame, RulesFailed DEF Onward, SDNApplyPC

(***************************************************************************)
(* TrialInv.                                                               *)
(***************************************************************************)
(* The eight steps left: loading the rules. *)
LEMMA TrialLoadRuleset == ASSUME Scope, Inv, TrialInv, LoadRuleset PROVE TrialInv'
<1>1. UNCHANGED files /\ SameCfg
  BY DEF LoadRuleset, files, disk, marker, snapshots, SameCfg
<1>2. job # NoJob /\ job.pc = "nft" /\ (Goto(AfterNft) \/ ApplyFailed)
  BY DEF LoadRuleset, At
<1>3. CASE Goto(AfterNft)
  <2>1. job'.mode = job.mode /\ job'.pc \in {"clear", "save"}
    BY <1>3 DEF Goto, AfterNft
  <2>2. job.mode = "revert" => job'.pc = "save"
    BY <1>3 DEF Goto, AfterNft
  <2>3. LoadConfirmed' = LoadConfirmed
        /\ (pending # NoMark => hist'[pending.applied].cfg = hist[pending.applied].cfg)
    BY <1>1, MarkId DEF files, LoadConfirmed, SameCfg
  <2> QED BY <1>1, <2>1, <2>2, <2>3 DEF TrialInv, Saved, files
<1> QED BY <1>1, <1>2, <1>3, TrialFailed

(* The revert point, while nothing is tried. *)
LEMMA TrialSaveRevertPoint == ASSUME Inv, TrialInv, SaveRevertPoint PROVE TrialInv'
<1>1. job.mode = "apply" /\ pending = NoMark /\ pending' = NoMark
  BY InApply DEF SaveRevertPoint, At, marker
<1>2. job'.mode = "apply"
  <2>1. job.op = "apply"
    BY InApply DEF SaveRevertPoint, At
  <2>2. CASE Goto("applying")
    BY <1>1, <2>2 DEF Goto
  <2>3. CASE NotStarted
    BY <2>1, <2>3 DEF NotStarted, Unlock, NoJob
  <2> QED BY <2>2, <2>3 DEF SaveRevertPoint
<1> QED BY <1>1, <1>2 DEF TrialInv

(* The marker: a trial of the new configuration begins, or the marker cannot be written. *)
LEMMA TrialWritePending == ASSUME Inv, TrialInv, WritePending
   PROVE  /\ TrialInv' /\ pending = NoMark /\ UNCHANGED <<config, hist>>
          /\ \/ /\ pending' # NoMark /\ pending'.applied = job.id
                /\ hist'[job.id].cfg = job.to /\ job.to \in Config /\ revert' = LoadConfirmed
                /\ job'.mode = "apply"
             \/ pending' = NoMark
<1>1. job # NoJob /\ job.mode = "apply" /\ ApplyInv /\ pending = NoMark /\ job.pc = "mark"
      /\ job.op = "apply"
  BY InApply DEF WritePending, At
<1>2. UNCHANGED <<config, revert, hist>>
  BY DEF WritePending, snapshots
<1>3. CASE SetMark([target |-> Target, applied |-> job.id]) /\ Goto("arm")
  <2>1. job'.mode = "apply"
    BY <1>1, <1>3 DEF Goto
  <2>2. pending' = [target |-> "previous", applied |-> job.id]
    BY <1>1, <1>3 DEF SetMark, Target
  <2>3. pending' # NoMark /\ pending'.applied = job.id
    BY <1>1, <2>2, SpecialAssumption DEF ApplyInv, Id
  <2>4. revert' = LoadConfirmed /\ LoadConfirmed' = LoadConfirmed
        /\ hist[job.id].cfg = job.to /\ job.to \in Config
    BY <1>1, <1>2 DEF ApplyInv, LoadConfirmed, Inv, TypeInv, JobOK, Job
  <2> QED BY <1>1, <1>2, <2>1, <2>3, <2>4 DEF TrialInv
<1>4. CASE UNCHANGED marker /\ NotArmed
  <2>1. pending' = NoMark /\ job'.mode = "undo"
    BY <1>1, <1>4 DEF marker, NotArmed, Inv, TypeInv, JobOK, Job
  <2> QED BY <1>1, <1>2, <2>1 DEF TrialInv
<1> QED BY <1>3, <1>4 DEF WritePending

(* The timer: when it cannot be armed the trial ends where it began. *)
LEMMA TrialArmRevert == ASSUME Inv, TrialInv, ArmRevert
   PROVE TrialInv' /\ UNCHANGED <<config, revert>> /\ SameCfg
   /\ (pending' = pending \/ (pending # NoMark /\ pending' = NoMark
   /\ LoadConfirmed' = revert))
<1>1. job # NoJob /\ job.pc = "arm" /\ UNCHANGED <<config, revert>> /\ SameCfg
  BY DEF ArmRevert, At, snapshots, SameCfg
<1>2. job.op = "apply" /\ job.mode = "apply" /\ ApplyInv /\ job.auto
  BY <1>1, NoneIsNoJob DEF Inv, JobInv, UndoInv, RevertInv, ConfirmInv, InstanceInv,
     ApplyInv
<1>3. pending # NoMark /\ LoadConfirmed = revert /\ LoadConfirmed' = LoadConfirmed
  BY <1>1, <1>2 DEF ApplyInv, LoadConfirmed
<1>4. CASE Goto("down") /\ UNCHANGED marker
  <2>1. Forward
    BY <1>1, <1>2, <1>4, GotoForward DEF Late
  <2> QED BY <1>1, <1>4, <2>1, TrialFrame DEF files, marker
<1>5. CASE SetMark(NoMark) /\ NotArmed
  <2>1. pending' = NoMark /\ job'.mode = "undo"
    BY <1>5 DEF SetMark, NotArmed, Inv, TypeInv, JobOK, Job
  <2> QED BY <1>1, <1>3, <2>1 DEF TrialInv
<1> QED BY <1>4, <1>5 DEF ArmRevert

(* config.json: of the change that is tried, of the revert point or, with nothing tried, *)
(* of a change made without a trial.                                                     *)
LEMMA TrialSaveConfirmed == ASSUME Scope, Inv, TrialInv, SaveConfirmed
   PROVE TrialInv' /\ UNCHANGED <<pending, revert>> /\ SameCfg /\ LoadConfirmed' \in Config
<1>1. job # NoJob /\ job.pc = "save" /\ config' = job.to /\ UNCHANGED <<pending, revert>>
      /\ hist' = hist
  BY DEF SaveConfirmed, At, Scope, marker, snapshots
<1>2. LoadConfirmed' = job.to /\ job.to \in Config
  BY <1>1, SpecialAssumption DEF Inv, TypeInv, JobOK, Job, LoadConfirmed
<1>3. CASE job.mode = "apply" /\ Goto("clear")
  <2>1. pending # NoMark => hist[pending.applied].cfg = job.to
    BY <1>1, <1>3, NoneIsNoJob DEF Inv, JobInv, ApplyInv
  <2>2. job'.mode = "apply"
    BY <1>3 DEF Goto
  <2> QED BY <1>1, <1>2, <2>1, <2>2 DEF TrialInv, SameCfg
<1>4. CASE job.mode = "revert" /\ Goto("outcome")
  <2>1. job.to = revert
    BY <1>1, <1>4, NoneIsNoJob DEF Inv, JobInv, RevertInv
  <2> QED BY <1>1, <1>2, <2>1 DEF TrialInv, SameCfg
<1>5. CASE job.mode = "instance" /\ Goto("record")
  <2>1. pending = NoMark
    BY <1>1, <1>5, NoneIsNoJob DEF Inv, JobInv, InstanceInv
  <2>2. job'.mode = "instance"
    BY <1>5 DEF Goto
  <2> QED BY <1>1, <1>2, <2>1, <2>2 DEF TrialInv, SameCfg
<1> QED BY <1>3, <1>4, <1>5 DEF SaveConfirmed, Scope

(* The marker goes: the trial is over. *)
LEMMA TrialRemovePending == ASSUME Inv, TrialInv, RemovePending
   PROVE TrialInv' /\ pending' = NoMark /\ UNCHANGED <<config, revert>> /\ hist' = hist
<1>1. job # NoJob /\ job.pc = "unmark" /\ pending' = NoMark /\ UNCHANGED <<config, revert>>
      /\ hist' = hist
  BY DEF RemovePending, At, SetMark, snapshots
<1>2. job' = NoJob \/ job'.mode \in {"undo", "confirm"}
  BY DEF RemovePending, Goto, Unlock, Inv, TypeInv, JobOK, Job
<1>3. job'.mode # "revert"
  BY <1>2 DEF NoJob
<1> QED BY <1>1, <1>3 DEF TrialInv

(* Safe mode and the deleted table touch none of the files. *)
LEMMA TrialRest == ASSUME Inv, TrialInv, RevertSafeMode \/ DeleteTable
   PROVE TrialInv' /\ UNCHANGED files /\ SameCfg
<1>1. UNCHANGED files /\ SameCfg
  BY DEF RevertSafeMode, DeleteTable, files, disk, marker, snapshots, SameCfg
<1>2. job'.mode = job.mode /\ job'.pc \in {"save", "preunit"}
  BY DEF RevertSafeMode, DeleteTable, Goto, Inv, TypeInv, JobOK, Job
<1>3. LoadConfirmed' = LoadConfirmed
      /\ (pending # NoMark => hist'[pending.applied].cfg = hist[pending.applied].cfg)
  BY <1>1, MarkId DEF files, LoadConfirmed, SameCfg
<1> QED BY <1>1, <1>2, <1>3 DEF TrialInv, Saved, files

(* An apply or a change of instance forwards starts without a marker *)
LEMMA TrialBeginApply ==
    ASSUME Inv, TrialInv, pending = NoMark, pending' = NoMark,
           job'.mode \in {"apply", "instance"}
    PROVE  TrialInv'
  BY DEF TrialInv

(* The other requests leave the files alone. *)
LEMMA TrialBegin ==
    ASSUME Inv, TrialInv, UNCHANGED files, SameCfg,
           NEW op \in {"disable", "revert", "confirm"}, NEW who, NEW pc,
           pc \notin Saved, Begin(op, who, op, pc)
    PROVE  TrialInv'
<1>1. job'.mode = op /\ job'.pc = pc
  BY DEF Begin
<1>2. LoadConfirmed' = LoadConfirmed
      /\ (pending # NoMark => hist'[pending.applied].cfg = hist[pending.applied].cfg)
  BY MarkId DEF files, LoadConfirmed, SameCfg
<1> QED BY <1>1, <1>2 DEF TrialInv, files

(* A request changes none of the files; it draws a history entry only when nothing is *)
(* tried.                                                                             *)
LEMMA TrialRequest == ASSUME Scope, Inv, TrialInv, Request
   PROVE TrialInv' /\ UNCHANGED files /\ (SameCfg \/ pending = NoMark)
<1>1. ASSUME NEW c, NEW a, HandleSDNApply(c, a)
      PROVE  TrialInv' /\ UNCHANGED files /\ pending = NoMark
  <2>1. UNCHANGED files /\ pending = NoMark /\ job'.mode = "apply"
    BY <1>1 DEF HandleSDNApply, CanApply, BeginApply, files, marker
  <2> QED BY <2>1, TrialBeginApply DEF files
<1>2. ASSUME NEW i, NEW a, HandleSDNRestore(i, a)
      PROVE  TrialInv' /\ UNCHANGED files /\ pending = NoMark
  <2>1. UNCHANGED files /\ pending = NoMark /\ job'.mode = "apply"
    BY <1>2 DEF HandleSDNRestore, CanApply, BeginApply, files, marker
  <2> QED BY <2>1, TrialBeginApply DEF files
<1>3. ASSUME NEW c, SDNInstanceChange(c)
      PROVE  TrialInv' /\ UNCHANGED files /\ pending = NoMark
  <2>1. UNCHANGED files /\ pending = NoMark /\ job'.mode = "instance"
    BY <1>3 DEF SDNInstanceChange, files, marker
  <2> QED BY <2>1, TrialBeginApply DEF files
<1>4. CASE HandleSDNDisable \/ HandleSDNConfirm \/ HandleSDNRevertNow
  <2>1. UNCHANGED files /\ SameCfg
    BY <1>4 DEF HandleSDNDisable, HandleSDNConfirm, HandleSDNRevertNow, files, disk, marker,
       snapshots, SameCfg
  <2> QED BY <1>4, <2>1, TrialBegin DEF HandleSDNDisable, HandleSDNConfirm,
             HandleSDNRevertNow, Saved
<1>5. CASE InstanceForwardsActive
  <2>1. UNCHANGED files /\ SameCfg /\ job' = job
    BY <1>5 DEF InstanceForwardsActive, files, disk, marker, snapshots, SameCfg
  <2> QED BY <2>1, TrialFrame
<1> QED BY <1>1, <1>2, <1>3, <1>4, <1>5, InvHandleSDNEnable DEF Request

(* Neither does the timer, the boot or a crash. *)
LEMMA TrialOther ==
  ASSUME Scope, Inv, TrialInv, Background \/ Crash \/ Flush \/ UNCHANGED vars
   PROVE TrialInv' /\ UNCHANGED files /\ SameCfg
<1>1. UNCHANGED files /\ SameCfg
  BY DEF Background, RevertServiceFires, SDNBoot, NetworkUp, RefreshUnit, RefreshRead,
     RefreshLoad, Crash, PortalCrash, Reboot, PowerCut, Restart, Flush, Scope, vars, files,
     disk, marker, snapshots, SameCfg
<1>2. \/ job' = job \/ job' = NoJob
      \/ Begin("revert", "service", "revert", "load") \/ Begin("revert", "boot", "revert",
            "load")
  BY DEF Background, RevertServiceFires, SDNBoot, NetworkUp, RefreshUnit, RefreshRead,
     RefreshLoad, Crash, PortalCrash, Reboot, PowerCut, Restart, Flush, vars
<1> QED BY <1>1, <1>2, TrialFrame, TrialBegin DEF Saved

(* Every step of the lock holder keeps TrialInv. *)
LEMMA TrialStep == ASSUME Scope, Inv, TrialInv, JobStep PROVE TrialInv'
<1>1. CASE ~SaveRevertPoint /\ ~WritePending /\ ~ArmRevert /\ ~SaveConfirmed /\ ~LoadRuleset
           /\ ~RevertSafeMode /\ ~RemovePending /\ ~DeleteTable
  BY <1>1, OnwardSteps, OnwardInv
<1> QED BY <1>1, TrialSaveRevertPoint, TrialWritePending, TrialArmRevert,
           TrialSaveConfirmed, TrialLoadRuleset, TrialRemovePending, TrialRest

(* So does every step. *)
LEMMA TrialNext == ASSUME Scope, Inv, TrialInv, [Next]_vars PROVE TrialInv'
  BY TrialStep, TrialRequest, TrialOther DEF Next

(* TrialInv holds initially. *)
LEMMA TrialInit == ASSUME Init PROVE TrialInv
<1>1. pending = NoMark /\ job.mode = "apply"
  BY DEF Init, NoJob
<1> QED BY <1>1 DEF TrialInv

(***************************************************************************)
(* SDNTrial is implemented.                                                *)
(***************************************************************************)
(* The runs the theorem is about.  A portal that dies inside an apply       *)
(* leaves a marker without the configuration it announces, and so does the  *)
(* restore of a history entry on a disabled firewall, which no boot         *)
(* reverts: confirming either keeps what there was before.                  *)
Whole == Scope /\ "portal" \notin Faults /\ "disable" \notin Ops

(* The firewall stays enabled, and the boot undoes a trial before anybody   *)
(* else gets the lock.                                                      *)
PhaseInv ==
    /\ enabled /\ bootunit /\ config # NoFile /\ job.op # "disable"
    /\ phase # "up" => job.op \in {"none", "revert"}
    /\ phase = "boot" => job = NoJob

(* When the admin can confirm the change on trial, does so, or soon will.   *)
Confirmable ==
    \/ job = NoJob /\ phase = "up"
    \/ job.mode = "confirm"
    \/ job # NoJob /\ job.mode = "apply" /\ job.pc \in {"clear", "record"}

(* Then config.json holds it; a failed apply takes its marker away before   *)
(* it goes on, and a boot does not hand over with one.                      *)
HeldInv ==
    pending # NoMark =>
      /\ phase = "net" => job # NoJob
      /\ job.mode = "undo" => job.pc \in {"stop", "unmark"}
      /\ Confirmable => LoadConfirmed = hist[pending.applied].cfg

WholeInv == PhaseInv /\ HeldInv

(* A lock holder does not become another one. *)
LEMMA PhaseJob ==
    ASSUME Inv, PhaseInv, UNCHANGED <<feature, phase>>, config' # NoFile,
           job # NoJob, job' = NoJob \/ job'.op = job.op
    PROVE  PhaseInv'
  BY DEF PhaseInv, feature, NoJob

(* Steps of the lock holder. *)
LEMMA PhaseStep == ASSUME Whole, Inv, PhaseInv, JobStep PROVE PhaseInv'
<1>1. job.op \in {"apply", "revert", "confirm", "instance"} /\ job # NoJob
  <2>1. job # NoJob
    BY EnableStepsOff DEF JobStep, SaveRevertPoint, SaveApplying, WritePending, ArmRevert,
       SaveConfirmed, ClearApplying, AddSnapshot, IfDown, SpliceOwned, IfUp, LoadRuleset,
       StopService, LoadTarget, RevertSafeMode, SetOutcome, RemovePending, PreSDNDown,
       PreSDNInterfaces, DeleteTable, SDNRemoveUnit, SaveDisabled, At
  <2> QED BY <2>1, NoneIsNoJob DEF PhaseInv
<1>2. /\ job \in Job /\ job.pc \notin {"predown", "preifaces", "prerules", "preunit", "prestate"}
      /\ job.to # NoFile /\ job.from \in Config
  BY <1>1, SpecialAssumption DEF Inv, TypeInv, JobOK, Job, JobInv, ApplyInv, UndoInv,
     RevertInv, ConfirmInv, InstanceInv
<1>3. CASE SaveRevertPoint \/ SaveApplying \/ WritePending \/ ArmRevert
  <2>1. job.op = "apply"
    BY <1>1, <1>3, NoneIsNoJob DEF SaveRevertPoint, SaveApplying, WritePending, ArmRevert,
       At, Inv, JobInv, RevertInv, ConfirmInv, InstanceInv
  <2>2. job' = NoJob \/ job'.op = job.op
    BY <1>2, <1>3, <2>1 DEF SaveRevertPoint, SaveApplying, WritePending, ArmRevert, Goto,
       NotStarted, NotArmed, Unlock, Job
  <2> QED BY <1>1, <1>3, <2>2, PhaseJob DEF SaveRevertPoint, SaveApplying, WritePending,
          ArmRevert, others, PhaseInv
<1>4. CASE SaveConfirmed \/ ClearApplying \/ AddSnapshot
  <2>1. job' = NoJob \/ job'.op = job.op
    BY <1>1, <1>2, <1>4 DEF SaveConfirmed, ClearApplying, AddSnapshot, Goto, Unlock,
       Rollback, Job
  <2> QED BY <1>1, <1>2, <1>4, <2>1, PhaseJob DEF SaveConfirmed, ClearApplying,
          AddSnapshot, others, PhaseInv
<1>5. CASE IfDown \/ SpliceOwned \/ IfUp \/ LoadRuleset
  <2>1. job' = NoJob \/ job'.op = job.op
    BY <1>1, <1>2, <1>5 DEF IfDown, SpliceOwned, IfUp, LoadRuleset, ApplyFailed, Goto,
       Unlock, Rollback, Job
  <2> QED BY <1>1, <1>5, <2>1, PhaseJob DEF IfDown, SpliceOwned, IfUp, LoadRuleset,
          disk, others, PhaseInv
<1>6. CASE StopService \/ LoadTarget \/ RevertSafeMode \/ SetOutcome \/ RemovePending
  <2>1. LoadTarget /\ pending # NoMark => pending.target = "previous"
    BY DEF Inv, MarkInv
  <2>2. job' = NoJob \/ job'.op = job.op
    BY <1>1, <1>2, <1>6, <2>1 DEF StopService, LoadTarget, RevertSafeMode, SetOutcome,
       RemovePending, Goto, Unlock, Job
  <2> QED BY <1>1, <1>6, <2>2, PhaseJob DEF StopService, LoadTarget, RevertSafeMode,
          SetOutcome, RemovePending, disk, others, PhaseInv
<1>7. ~(PreSDNDown \/ PreSDNInterfaces \/ DeleteTable \/ SDNRemoveUnit \/ SaveDisabled)
  BY <1>2 DEF PreSDNDown, PreSDNInterfaces, DeleteTable, SDNRemoveUnit, SaveDisabled, At
<1> QED BY <1>3, <1>4, <1>5, <1>6, <1>7, EnableStepsOff DEF JobStep

(* All other steps. *)
LEMMA PhaseOther ==
    ASSUME Whole, Inv, PhaseInv,
           Request \/ Background \/ Crash \/ Flush \/ UNCHANGED vars
    PROVE  PhaseInv'
<1>1. CASE Request
  <2>1. ASSUME NEW c, NEW a, HandleSDNApply(c, a) PROVE PhaseInv'
    BY <2>1 DEF HandleSDNApply, BeginApply, PortalFree, feature, others, PhaseInv
  <2>2. ASSUME NEW i, NEW a, HandleSDNRestore(i, a) PROVE PhaseInv'
    BY <2>2 DEF HandleSDNRestore, BeginApply, PortalFree, feature, others, PhaseInv
  <2>3. ASSUME NEW c, SDNInstanceChange(c) PROVE PhaseInv'
    BY <2>3 DEF SDNInstanceChange, PortalFree, feature, PhaseInv
  <2>4. CASE HandleSDNConfirm \/ HandleSDNRevertNow \/ InstanceForwardsActive
    BY <2>4 DEF HandleSDNConfirm, HandleSDNRevertNow, InstanceForwardsActive, PortalFree,
       Begin, NoJob, disk, feature, others, PhaseInv
  <2> QED BY <1>1, <2>1, <2>2, <2>3, <2>4, InvHandleSDNEnable
          DEF Request, HandleSDNDisable, Whole
<1>2. CASE Background
  <2>1. CASE RevertServiceFires \/ NetworkUp
    BY <2>1 DEF RevertServiceFires, NetworkUp, Begin, NoJob, disk, feature, PhaseInv
  <2>2. CASE SDNBoot
    BY <2>2 DEF SDNBoot, Begin, NoJob, disk, feature, PhaseInv
  <2>3. CASE RefreshUnit \/ RefreshRead \/ RefreshLoad
    BY <2>3 DEF RefreshUnit, RefreshRead, RefreshLoad, disk, feature, PhaseInv
  <2> QED BY <1>2, <2>1, <2>2, <2>3 DEF Background
<1>3. CASE Crash
  <2>1. phase' = "boot" /\ job' = NoJob /\ UNCHANGED <<feature, config>>
    BY <1>3 DEF Crash, PortalCrash, Reboot, PowerCut, Restart, Whole, Scope
  <2> QED BY <2>1 DEF feature, NoJob, PhaseInv
<1>4. CASE Flush \/ UNCHANGED vars
  BY <1>4 DEF Flush, vars, disk, feature, others, PhaseInv
<1> QED BY <1>1, <1>2, <1>3, <1>4

(* With nothing pending there is nothing to hold. *)
LEMMA HeldNone == ASSUME pending' = NoMark PROVE HeldInv'
  BY DEF HeldInv

(* Only an apply has the mode of an idle lock. *)
LEMMA NotIdle == ASSUME job'.mode # "apply" PROVE job' # NoJob
  BY DEF NoJob

(* A lock holder that writes no file keeps HeldInv unless it enters one of  *)
(* the points HeldInv speaks about, or releases the lock short of one.      *)
LEMMA HeldFrame ==
    ASSUME Inv, HeldInv, UNCHANGED <<files, phase>>, SameCfg,
           pending # NoMark =>
             \/ job' = job
             \/ job' = NoJob /\ Confirmable /\ phase = "up"
             \/ /\ job # NoJob /\ job' # NoJob /\ job'.mode = job.mode
                /\ job.mode = "undo" => job'.pc \in {"stop", "unmark"}
                /\ job.mode = "apply" /\ job.pc \notin {"clear", "record"}
                     => job'.pc \notin {"clear", "record"}
             \/ /\ job' # NoJob /\ job'.mode = "undo" /\ job'.pc \in {"stop", "unmark"}
    PROVE  HeldInv'
<1> SUFFICES ASSUME pending' # NoMark PROVE HeldInv'
  BY HeldNone
<1>1. pending # NoMark /\ LoadConfirmed' = LoadConfirmed /\ phase' = phase
      /\ hist'[pending'.applied].cfg = hist[pending.applied].cfg
  BY MarkId DEF files, LoadConfirmed, SameCfg
<1>2. NoJob.mode = "apply"
  BY DEF NoJob
<1> QED BY <1>1, <1>2 DEF HeldInv, Confirmable

(* The steps of SDNApply, those that fail included. *)
LEMMA HeldSDNApply ==
    ASSUME Inv, WholeInv, IfDown \/ SpliceOwned \/ IfUp \/ LoadRuleset
    PROVE  HeldInv'
<1>1. UNCHANGED <<files, phase>> /\ SameCfg
  BY DEF IfDown, SpliceOwned, IfUp, LoadRuleset, files, disk, marker, snapshots, others,
     SameCfg
<1>2. /\ job # NoJob /\ job.pc \in {"down", "splice", "up", "nft"}
      /\ \/ ApplyFailed
         \/ Goto("splice") \/ Goto("up") \/ Goto("nft")
         \/ Goto("save") /\ job.mode # "undo"
         \/ Goto("clear") /\ job.mode = "undo"
  BY DEF IfDown, SpliceOwned, IfUp, LoadRuleset, At, AfterSplice, AfterNft
<1> SUFFICES ASSUME pending # NoMark PROVE HeldInv'
  BY <1>1, HeldNone DEF files
<1>3. job.mode \in {"apply", "revert"} /\ (job.mode = "apply" => job.auto) /\ job \in Job
  BY <1>2, NoneIsNoJob DEF WholeInv, HeldInv, Inv, TypeInv, JobOK, JobInv, ApplyInv,
     UndoInv, RevertInv, ConfirmInv, InstanceInv
<1>4. CASE ApplyFailed
  <2>1. CASE job.mode = "apply"
    <3>1. Rollback
      BY <1>4, <2>1 DEF ApplyFailed
    <3>2. job'.mode = "undo" /\ job'.pc = "stop"
      BY <1>3, <2>1, <3>1 DEF Rollback, Job
    <3> QED BY <1>1, <3>2, NotIdle, HeldFrame DEF WholeInv
  <2>2. CASE job.mode = "revert"
    <3>1. job' = [job EXCEPT !.pc = "safe", !.err = TRUE]
      BY <1>4, <2>2 DEF ApplyFailed
    <3>2. job'.mode = "revert"
      BY <1>3, <2>2, <3>1 DEF Job
    <3> QED BY <1>1, <1>2, <2>2, <3>2, NotIdle, HeldFrame DEF WholeInv
  <2> QED BY <1>3, <2>1, <2>2
<1>5. CASE ~ApplyFailed
  <2>1. /\ job'.mode = job.mode /\ job' # NoJob
        /\ job'.pc \in {"splice", "up", "nft", "save"}
    BY <1>2, <1>3, <1>5 DEF Goto, Job, NoJob
  <2> QED BY <1>1, <1>2, <1>3, <2>1, HeldFrame DEF WholeInv
<1> QED BY <1>4, <1>5

(* The marker, the timer, and config.json, which holds the change from there on. *)
LEMMA HeldApply ==
    ASSUME Whole, Inv, WholeInv, TrialInv,
           SaveRevertPoint \/ SaveApplying \/ WritePending \/ ArmRevert \/ SaveConfirmed
    PROVE  HeldInv'
<1>1. CASE SaveRevertPoint \/ SaveApplying
  BY <1>1, InApply, HeldNone DEF SaveRevertPoint, SaveApplying, At, marker
<1>2. CASE WritePending
  <2>1. job # NoJob /\ job.mode = "apply" /\ pending = NoMark /\ job \in Job
    BY <1>2, InApply DEF WritePending, At, Inv, TypeInv, JobOK
  <2>2. CASE Goto("arm")
    <3>1. job'.pc = "arm" /\ job'.mode = "apply" /\ job' # NoJob /\ phase' = phase
      BY <1>2, <2>1, <2>2 DEF WritePending, Goto, Job, NoJob, others
    <3>2. phase = "up"
      BY <1>2, InApply DEF WritePending, At, WholeInv, PhaseInv
    <3> QED BY <3>1, <3>2 DEF HeldInv, Confirmable
  <2>3. CASE UNCHANGED marker
    BY <2>1, <2>3, HeldNone DEF marker
  <2> QED BY <1>2, <2>2, <2>3 DEF WritePending
<1>3. CASE ArmRevert
  <2>1. /\ job # NoJob /\ job.mode = "apply" /\ job.pc = "arm" /\ job \in Job
        /\ phase' = phase
    BY <1>3, NoneIsNoJob DEF ArmRevert, At, Inv, TypeInv, JobOK, JobInv, UndoInv,
       RevertInv, ConfirmInv, InstanceInv
  <2>2. CASE Goto("down") /\ UNCHANGED marker
    <3>1. job'.pc = "down" /\ job'.mode = "apply" /\ job' # NoJob
      BY <2>1, <2>2 DEF Goto, Job, NoJob
    <3> QED BY <1>3, <2>1, <2>2, <3>1, HeldFrame, TrialArmRevert
            DEF files, marker, WholeInv
  <2>3. CASE SetMark(NoMark)
    BY <2>3, HeldNone DEF SetMark
  <2> QED BY <1>3, <2>2, <2>3 DEF ArmRevert
<1>4. CASE SaveConfirmed
  <2>1. /\ job # NoJob /\ job \in Job /\ job.pc = "save" /\ LoadConfirmed' = job.to
        /\ UNCHANGED <<pending, hist, phase>>
    BY <1>4, SpecialAssumption DEF SaveConfirmed, At, Whole, Scope, marker, snapshots,
       others, Inv, TypeInv, JobOK, Job, LoadConfirmed
  <2>2. CASE job.mode = "apply" /\ Goto("clear")
    <3>1. job'.mode = "apply" /\ job' # NoJob
          /\ (pending # NoMark => hist[pending.applied].cfg = job.to)
      BY <2>1, <2>2, NoneIsNoJob DEF Goto, Job, NoJob, Inv, JobInv, ApplyInv
    <3> QED BY <2>1, <3>1 DEF HeldInv
  <2>3. CASE job.mode = "revert" /\ Goto("outcome")
    <3>1. job'.mode = "revert" /\ job' # NoJob
      BY <2>1, <2>3 DEF Goto, Job, NoJob
    <3> QED BY <2>1, <3>1 DEF HeldInv, Confirmable
  <2>4. CASE job.mode = "instance"
    BY <2>1, <2>4, NoneIsNoJob, HeldNone DEF Inv, JobInv, InstanceInv
  <2> QED BY <1>4, <2>2, <2>3, <2>4 DEF SaveConfirmed, Whole, Scope
<1> QED BY <1>1, <1>2, <1>3, <1>4

(* The end of an apply, the steps of a revert and of a confirmation. *)
LEMMA HeldEnd ==
    ASSUME Whole, Inv, WholeInv,
           \/ ClearApplying \/ AddSnapshot \/ StopService \/ LoadTarget \/ RevertSafeMode
           \/ SetOutcome \/ RemovePending
    PROVE  HeldInv'
<1>0. job # NoJob /\ job \in Job
  BY DEF ClearApplying, AddSnapshot, StopService, LoadTarget, RevertSafeMode, SetOutcome,
     RemovePending, At, Inv, TypeInv, JobOK
<1>1. CASE RemovePending
  BY <1>1, HeldNone DEF RemovePending, SetMark
<1>2. CASE ~RemovePending
  <2>1. UNCHANGED <<files, phase>> /\ SameCfg
    BY <1>2 DEF ClearApplying, AddSnapshot, StopService, LoadTarget, RevertSafeMode,
       SetOutcome, files, disk, marker, snapshots, others, SameCfg, Inv, TypeInv, DiskOK
  <2> SUFFICES ASSUME pending # NoMark PROVE HeldInv'
    BY <2>1, HeldNone DEF files
  <2>2. CASE ClearApplying
    <3>1. \/ job.mode = "apply" /\ Goto("record")
          \/ job.mode = "revert" /\ Goto("unmark")
      BY <2>2 DEF ClearApplying, At, WholeInv, HeldInv
    <3> QED BY <1>0, <2>1, <2>2, <3>1, HeldFrame DEF ClearApplying, At, Goto, Job, NoJob,
            WholeInv
  <2>3. CASE AddSnapshot
    <3>1. job.mode \in {"apply", "instance"} /\ job.pc = "record" /\ job' = NoJob
      BY <2>3, NoneIsNoJob DEF AddSnapshot, At, Unlock, Inv, JobInv, UndoInv, RevertInv,
         ConfirmInv
    <3>2. job.mode = "apply" /\ phase = "up"
      BY <1>0, <3>1, NoneIsNoJob DEF Inv, JobInv, InstanceInv, WholeInv, PhaseInv, RevertInv
    <3> QED BY <1>0, <2>1, <3>1, <3>2, HeldFrame DEF Confirmable, WholeInv
  <2>4. CASE StopService
    <3>1. job.mode \in {"undo", "confirm", "revert"}
      BY <2>4, NoneIsNoJob DEF StopService, At, Inv, JobInv, ApplyInv, InstanceInv
    <3>2. job' # NoJob /\ job'.mode = job.mode
          /\ job'.pc = (IF job.mode = "revert" THEN "load" ELSE "unmark")
      BY <1>0, <2>4, <3>1 DEF StopService, Goto, Job, NoJob
    <3> QED BY <1>0, <2>1, <3>1, <3>2, HeldFrame DEF WholeInv
  <2>5. CASE LoadTarget
    <3>1. job.mode = "revert" /\ pending.target = "previous" /\ revert # NoFile
      BY <2>5, NoneIsNoJob, SpecialAssumption DEF LoadTarget, At, Inv, TypeInv, ProcessOK,
         MarkInv, JobInv, ApplyInv, UndoInv, ConfirmInv, InstanceInv
    <3>2. job' # NoJob /\ job'.mode = "revert"
      <4>1. job' = [job EXCEPT !.from = RevertFrom, !.to = revert, !.pc = "down"]
        BY <2>5, <3>1 DEF LoadTarget
      <4> QED BY <1>0, <3>1, <4>1 DEF Job, NoJob
    <3> QED BY <1>0, <2>1, <3>1, <3>2, HeldFrame DEF WholeInv
  <2>6. CASE RevertSafeMode
    <3>1. job.mode = "revert"
      BY <2>6, NoneIsNoJob DEF RevertSafeMode, At, Inv, JobInv, ApplyInv, UndoInv,
         ConfirmInv, InstanceInv
    <3>2. job' # NoJob /\ job'.mode = "revert"
      BY <1>0, <2>6, <3>1 DEF RevertSafeMode, Goto, Job, NoJob
    <3> QED BY <1>0, <2>1, <3>1, <3>2, HeldFrame DEF WholeInv
  <2>7. CASE SetOutcome
    <3>1. job.op \in {"revert", "confirm"} /\ job.mode = job.op
      BY <2>7, NoneIsNoJob DEF SetOutcome, At, Inv, JobInv, ApplyInv, UndoInv, InstanceInv
    <3>2. CASE job.op = "confirm"
      BY <1>0, <2>1, <2>7, <3>1, <3>2, HeldFrame
         DEF SetOutcome, Unlock, Confirmable, WholeInv, PhaseInv
    <3>3. CASE job.op = "revert"
      <4>1. job' # NoJob /\ job'.mode = "revert"
        BY <1>0, <2>7, <3>1, <3>3 DEF SetOutcome, Goto, Job, NoJob
      <4> QED BY <1>0, <2>1, <3>1, <3>3, <4>1, HeldFrame DEF WholeInv
    <3> QED BY <3>1, <3>2, <3>3
  <2> QED BY <1>2, <2>2, <2>3, <2>4, <2>5, <2>6, <2>7
<1> QED BY <1>1, <1>2

(* All other steps: only the boot of a firewall with a marker is special. *)
LEMMA HeldOther ==
    ASSUME Whole, Inv, WholeInv, TrialInv,
           Request \/ Background \/ Crash \/ Flush \/ UNCHANGED vars
    PROVE  HeldInv'
<1>1. CASE Request
  <2>1. ASSUME NEW c, NEW a, HandleSDNApply(c, a) PROVE HeldInv'
    BY <2>1, HeldNone DEF HandleSDNApply, CanApply, BeginApply, marker
  <2>2. ASSUME NEW i, NEW a, HandleSDNRestore(i, a) PROVE HeldInv'
    BY <2>2, HeldNone DEF HandleSDNRestore, CanApply, BeginApply, marker
  <2>3. ASSUME NEW c, SDNInstanceChange(c) PROVE HeldInv'
    BY <2>3, HeldNone DEF SDNInstanceChange, marker
  <2>4. CASE HandleSDNConfirm \/ HandleSDNRevertNow \/ InstanceForwardsActive
    <3>1. UNCHANGED <<files, phase>> /\ SameCfg
      BY <2>4 DEF HandleSDNConfirm, HandleSDNRevertNow, InstanceForwardsActive, files, disk,
         marker, snapshots, others, SameCfg
    <3>2. LoadConfirmed' = LoadConfirmed
          /\ (pending # NoMark => hist'[pending.applied].cfg = hist[pending.applied].cfg)
      BY <3>1, MarkId DEF files, LoadConfirmed, SameCfg
    <3>3. \/ job' = job
          \/ job = NoJob /\ phase = "up" /\ job'.mode \in {"confirm", "revert"}
      BY <2>4 DEF HandleSDNConfirm, HandleSDNRevertNow, InstanceForwardsActive, PortalFree,
         Begin, NoJob
    <3> QED BY <3>1, <3>2, <3>3 DEF WholeInv, HeldInv, Confirmable, files
  <2> QED BY <1>1, <2>1, <2>2, <2>3, <2>4, InvHandleSDNEnable
          DEF Request, HandleSDNDisable, Whole
<1>2. CASE Background \/ Crash \/ Flush \/ UNCHANGED vars
  <2>1. UNCHANGED files /\ SameCfg
    BY <1>2, TrialOther DEF Whole
  <2>2. LoadConfirmed' = LoadConfirmed
        /\ (pending # NoMark => hist'[pending.applied].cfg = hist[pending.applied].cfg)
    BY <2>1, MarkId DEF files, LoadConfirmed, SameCfg
  <2>3. \/ UNCHANGED <<job, phase>>
        \/ phase' = "boot" /\ job' = NoJob
        \/ job'.mode = "revert" /\ job' # NoJob
        \/ pending = NoMark
    <3>1. CASE RevertServiceFires \/ RefreshUnit \/ RefreshRead \/ RefreshLoad
      BY <3>1 DEF RevertServiceFires, RefreshUnit, RefreshRead, RefreshLoad, Begin, NoJob
    <3>2. CASE SDNBoot
      <4>1. enabled /\ bootunit /\ config # NoFile
        BY DEF WholeInv, PhaseInv
      <4>2. pending = NoMark \/ Begin("revert", "boot", "revert", "load")
        BY <3>2, <4>1 DEF SDNBoot
      <4>3. Begin("revert", "boot", "revert", "load") => job'.mode = "revert"
        BY DEF Begin, NoJob
      <4> QED BY <4>2, <4>3, NotIdle
    <3>3. CASE NetworkUp
      BY <3>3 DEF NetworkUp, WholeInv, HeldInv
    <3>4. CASE Crash \/ Flush \/ UNCHANGED vars
      BY <3>4 DEF Crash, PortalCrash, Reboot, PowerCut, Restart, Flush, Whole, Scope, vars,
         others
    <3> QED BY <1>2, <3>1, <3>2, <3>3, <3>4 DEF Background
  <2>4. NoJob.mode = "apply"
    BY DEF NoJob
  <2> QED BY <2>1, <2>2, <2>3, <2>4 DEF WholeInv, HeldInv, Confirmable, files
<1> QED BY <1>1, <1>2

(* WholeInv is inductive on top of the other two. *)
LEMMA WholeNext == ASSUME Whole, Inv, TrialInv, WholeInv, [Next]_vars PROVE WholeInv'
<1>1. CASE JobStep
  <2>1. PhaseInv'
    BY <1>1, PhaseStep DEF WholeInv
  <2>2. ~PreSDNDown /\ ~PreSDNInterfaces /\ ~DeleteTable /\ ~SDNRemoveUnit /\ ~SaveDisabled
    BY NoneIsNoJob DEF PreSDNDown, PreSDNInterfaces, DeleteTable, SDNRemoveUnit,
       SaveDisabled, At, WholeInv, PhaseInv, Inv, JobInv, ApplyInv, UndoInv, RevertInv,
       ConfirmInv, InstanceInv
  <2>3. HeldInv'
    BY <1>1, <2>2, EnableStepsOff, HeldSDNApply, HeldApply, HeldEnd DEF JobStep
  <2> QED BY <2>1, <2>3 DEF WholeInv
<1>2. CASE ~JobStep
  BY <1>2, PhaseOther, HeldOther DEF Next, WholeInv
<1> QED BY <1>1, <1>2

LEMMA WholeInit == ASSUME Whole, Init PROVE WholeInv
<1>1. pending = NoMark /\ job = NoJob /\ phase = "up" /\ enabled /\ bootunit /\ config # NoFile
  BY SpecialAssumption DEF Whole, Scope, Init
<1> QED BY <1>1 DEF WholeInv, PhaseInv, HeldInv, NoJob

(* The refinement mapping: what a reboot would bring up, what is tried and  *)
(* what is being done about it.                                             *)
Kept == IF pending # NoMark THEN revert ELSE LoadConfirmed
Tried == IF pending # NoMark THEN hist[pending.applied].cfg ELSE NoMark
trialVars == <<Kept, Tried, Verdict>>

(* The steps of SDNTrial in these terms. *)
LEMMA TrialSteps ==
    Trial!Next <=>
      \/ Verdict' = "none" /\ UNCHANGED <<Kept, Tried>>
      \/ Verdict = "keep" /\ Kept' = Tried /\ Tried' = NoMark /\ Verdict' = "none"
      \/ /\ Tried # NoMark /\ Verdict # "keep"
         /\ Kept' = Kept /\ Tried' = NoMark /\ Verdict' = "none"
      \/ \E v \in {"keep", "drop"} :
            /\ Tried # NoMark /\ Verdict = "none" /\ Verdict' = v
            /\ UNCHANGED <<Kept, Tried>>
      \/ \E c \in Config :
            \/ Tried = NoMark /\ Tried' = c /\ UNCHANGED <<Kept, Verdict>>
            \/ Tried = NoMark /\ Kept' = c /\ UNCHANGED <<Tried, Verdict>>
  BY DEF Trial!Next, Trial!Forget, Trial!Keep, Trial!Drop, Trial!Decide, Trial!Try,
     Trial!Adopt, Kept, Tried

(* Nothing is done about a change before the admin, a timer or a failure asks. *)
LEMMA VerdictValues ==
    /\ Verdict \in {"none", "keep", "drop"}
    /\ pending = NoMark => Verdict = "none"
    /\ job.mode \notin {"confirm", "undo", "revert"} => Verdict = "none"
    /\ pending # NoMark /\ job.mode = "confirm" => Verdict = "keep"
    /\ pending # NoMark /\ job.mode \in {"undo", "revert"} => Verdict = "drop"
  BY DEF Verdict

(* A step that leaves the files alone stutters in SDNTrial, decides or forgets. *)
LEMMA RefineMove ==
  ASSUME Inv, UNCHANGED files, SameCfg \/ pending = NoMark,
         job' = NoJob \/ job'.mode = job.mode \/ Verdict = "none"
  PROVE  [Trial!Next]_trialVars
<1>1. LoadConfirmed' = LoadConfirmed /\ pending' = pending
  BY DEF files, LoadConfirmed
<1>2. pending # NoMark => hist'[pending.applied].cfg = hist[pending.applied].cfg
  BY MarkId DEF SameCfg
<1>3. UNCHANGED <<Kept, Tried>>
  BY <1>1, <1>2 DEF Kept, Tried, files
<1>4. pending # NoMark => Tried # NoMark
  BY MarkId, SpecialAssumption DEF Tried, Inv, TypeInv, DiskOK
<1>5. Verdict' \in {"none", "keep", "drop"} /\ (Verdict' # "none" => pending # NoMark)
      /\ (job' = NoJob => Verdict' = "none")
      /\ (job'.mode = job.mode => Verdict' = Verdict)
  BY <1>1 DEF Verdict, NoJob
<1>6. CASE Verdict' = "none"
  BY <1>3, <1>6, TrialSteps
<1>7. CASE Verdict' # "none"
  <2>1. Verdict' = Verdict \/ (Verdict = "none" /\ Verdict' \in {"keep", "drop"})
    BY <1>5, <1>7
  <2> QED BY <1>3, <1>4, <1>5, <1>7, <2>1, TrialSteps DEF trialVars
<1> QED BY <1>6, <1>7

(* A marker stands for a trial. *)
LEMMA TriedReal == ASSUME Inv, pending # NoMark PROVE Tried # NoMark
  BY MarkId, SpecialAssumption DEF Tried, Inv, TypeInv, DiskOK

(* Writing the marker is Try. *)
LEMMA RefineWritePending ==
  ASSUME Inv, TrialInv, WritePending
  PROVE  [Trial!Next]_trialVars
<1>1. pending = NoMark /\ UNCHANGED <<config, hist>> /\ LoadConfirmed' = LoadConfirmed
  BY TrialWritePending DEF LoadConfirmed
<1>2. CASE pending' = NoMark
  <2>1. UNCHANGED <<Kept, Tried>> /\ Verdict' = "none"
    BY <1>1, <1>2 DEF Kept, Tried, Verdict
  <2> QED BY <2>1, TrialSteps
<1>3. CASE /\ pending' # NoMark /\ pending'.applied = job.id
           /\ hist'[job.id].cfg = job.to /\ job.to \in Config /\ revert' = LoadConfirmed
           /\ job'.mode = "apply"
  <2>1. Tried = NoMark /\ Tried' = job.to /\ Kept' = Kept
    BY <1>1, <1>3 DEF Kept, Tried
  <2>2. Verdict = "none" /\ Verdict' = "none"
    BY <1>1, <1>3 DEF Verdict
  <2> QED BY <1>3, <2>1, <2>2, TrialSteps
<1> QED BY <1>2, <1>3, TrialWritePending

(* A timer that cannot be armed is Drop. *)
LEMMA RefineArmRevert == ASSUME Inv, TrialInv, ArmRevert PROVE [Trial!Next]_trialVars
<1>1. job.mode = "apply" /\ job \in Job
  BY NoneIsNoJob DEF ArmRevert, At, Inv, TypeInv, JobOK, JobInv, UndoInv, RevertInv,
     ConfirmInv, InstanceInv
<1>2. Verdict = "none"
  BY <1>1, VerdictValues
<1>3. CASE pending' = pending
  BY <1>2, <1>3, TrialArmRevert, RefineMove DEF files
<1>4. CASE pending # NoMark /\ pending' = NoMark /\ LoadConfirmed' = revert
  <2>1. Tried # NoMark /\ Tried' = NoMark /\ Kept' = Kept /\ Verdict' = "none"
    BY <1>4, TriedReal DEF Kept, Tried, Verdict
  <2> QED BY <1>2, <2>1, TrialSteps
<1> QED BY <1>3, <1>4, TrialArmRevert

(* Removing the marker is Keep for a confirmation, which finds the change in *)
(* config.json, and Drop for a revert or a failed apply, which find the      *)
(* revert point there.                                                       *)
LEMMA RefineRemovePending == ASSUME Inv, TrialInv, WholeInv, RemovePending
   PROVE [Trial!Next]_trialVars
<1>1. pending' = NoMark /\ UNCHANGED <<config, revert>> /\ hist' = hist
      /\ LoadConfirmed' = LoadConfirmed /\ job.pc = "unmark"
  BY TrialRemovePending DEF LoadConfirmed, RemovePending, At
<1>2. Kept' = LoadConfirmed /\ Tried' = NoMark /\ Verdict' = "none"
  BY <1>1 DEF Kept, Tried, Verdict
<1>3. CASE pending = NoMark
  <2>1. Kept = LoadConfirmed /\ Tried = NoMark
    BY <1>3 DEF Kept, Tried
  <2> QED BY <1>2, <2>1, TrialSteps
<1>4. CASE pending # NoMark /\ job.mode \in {"undo", "revert"}
  <2>1. Kept = revert /\ LoadConfirmed = revert /\ Tried # NoMark /\ Verdict # "keep"
    BY <1>1, <1>4, TriedReal DEF Kept, TrialInv, Saved, Verdict
  <2> QED BY <1>2, <2>1, TrialSteps
<1>5. CASE pending # NoMark /\ job.mode = "confirm"
  <2>1. LoadConfirmed = Tried /\ Verdict = "keep"
    BY <1>5 DEF Tried, Verdict, WholeInv, HeldInv, Confirmable
  <2> QED BY <1>2, <2>1, TrialSteps
<1> QED BY <1>3, <1>4, <1>5 DEF RemovePending

(* Saving config.json is Adopt without a marker, and a stutter with one. *)
LEMMA RefineSaveConfirmed == ASSUME Scope, Inv, TrialInv, SaveConfirmed
   PROVE [Trial!Next]_trialVars
<1>1. UNCHANGED <<pending, revert>> /\ SameCfg /\ LoadConfirmed' \in Config
  BY TrialSaveConfirmed
<1>2. Tried' = Tried
  BY <1>1, MarkId DEF Tried, SameCfg
<1>3. job'.mode = job.mode
  BY DEF SaveConfirmed, Scope, Goto, Inv, TypeInv, JobOK, Job
<1>4. Verdict' = Verdict
  BY <1>1, <1>3 DEF Verdict
<1>5. CASE pending = NoMark
  <2>1. Tried = NoMark /\ Kept' = LoadConfirmed'
    BY <1>1, <1>5 DEF Kept, Tried
  <2> QED BY <1>1, <1>2, <1>4, <2>1, TrialSteps
<1>6. CASE pending # NoMark
  BY <1>1, <1>2, <1>4, <1>6 DEF Kept, trialVars
<1> QED BY <1>5, <1>6

(* The steps of the lock holder that write no file of a change. *)
LEMMA RefineOnward == ASSUME Inv, TrialInv, Onward, UNCHANGED files, SameCfg
   PROVE [Trial!Next]_trialVars
<1>1. job' = NoJob \/ job'.mode = job.mode \/ job.mode = "apply"
  BY Failed DEF Onward, Forward, SDNApplyPC
<1> QED BY <1>1, RefineMove, VerdictValues

(* Every step is a step of SDNTrial or a stutter. *)
LEMMA RefineStep == ASSUME Whole, Inv, TrialInv, WholeInv, [Next]_vars
   PROVE [Trial!Next]_trialVars
<1>1. CASE JobStep
  <2>1. CASE ~SaveRevertPoint /\ ~WritePending /\ ~ArmRevert /\ ~SaveConfirmed
             /\ ~LoadRuleset
             /\ ~RevertSafeMode /\ ~RemovePending /\ ~DeleteTable
    BY <1>1, <2>1, OnwardSteps, RefineOnward
  <2>2. CASE LoadRuleset
    <3>1. UNCHANGED files /\ SameCfg
      BY <2>2 DEF LoadRuleset, files, disk, marker, snapshots, SameCfg
    <3>2. CASE ApplyFailed
      BY <2>2, <3>1, <3>2, RefineOnward DEF LoadRuleset, At, Onward, SDNApplyPC
    <3>3. CASE Goto(AfterNft)
      <4>1. job'.mode = job.mode
        BY <3>3 DEF Goto, Inv, TypeInv, JobOK, Job
      <4> QED BY <3>1, <4>1, RefineMove
    <3> QED BY <2>2, <3>2, <3>3 DEF LoadRuleset
  <2>3. CASE RevertSafeMode \/ DeleteTable
    <3>1. job'.mode = job.mode
      BY <2>3 DEF RevertSafeMode, DeleteTable, Goto, Inv, TypeInv, JobOK, Job
    <3> QED BY <2>3, <3>1, TrialRest, RefineMove
  <2>4. CASE SaveRevertPoint
    <3>1. pending = NoMark /\ pending' = NoMark /\ config' = config
      BY <2>4, InApply DEF SaveRevertPoint, At, marker
    <3>2. UNCHANGED <<Kept, Tried>> /\ Verdict' = "none"
      BY <3>1 DEF Kept, Tried, LoadConfirmed, Verdict
    <3> QED BY <3>2, TrialSteps
  <2> QED BY <1>1, <2>1, <2>2, <2>3, <2>4, RefineWritePending, RefineArmRevert,
          RefineSaveConfirmed, RefineRemovePending DEF Whole
<1>2. CASE Request
  <2>1. UNCHANGED files /\ (SameCfg \/ pending = NoMark)
    BY <1>2, TrialRequest DEF Whole
  <2>2. job = NoJob \/ job' = job
    BY <1>2 DEF Request, HandleSDNApply, HandleSDNRestore, HandleSDNEnable, HandleSDNDisable,
       HandleSDNConfirm, HandleSDNRevertNow, InstanceForwardsActive, SDNInstanceChange,
       PortalFree
  <2>3. job = NoJob => Verdict = "none"
    BY VerdictValues DEF NoJob
  <2> QED BY <2>1, <2>2, <2>3, RefineMove
<1>3. CASE Background \/ Crash \/ Flush \/ UNCHANGED vars
  <2>1. UNCHANGED files /\ SameCfg
    BY <1>3, TrialOther DEF Whole
  <2>2. job = NoJob \/ job' = job \/ job' = NoJob
    BY <1>3 DEF Background, RevertServiceFires, SDNBoot, NetworkUp, RefreshUnit, RefreshRead,
       RefreshLoad, Crash, PortalCrash, Reboot, PowerCut, Restart, Flush, vars, WholeInv,
       PhaseInv
  <2>3. job = NoJob => Verdict = "none"
    BY VerdictValues DEF NoJob
  <2> QED BY <2>1, <2>2, <2>3, RefineMove
<1> QED BY <1>1, <1>2, <1>3 DEF Next

(* The firewall files implement the trial of SDNTrial for every number of   *)
(* configurations, changes and reboots: what a reboot would bring up        *)
(* changes to exactly what was tried when the admin confirms, stays what it *)
(* was when the admin, the countdown, the boot or a failure reverts, and    *)
(* changes otherwise only by a change applied without auto-revert           *)
(* (sdnApplyConfig, HandleSDNConfirm, SDNRevertPendingNow, SDNBoot).        *)
THEOREM TrialRefined == ASSUME Whole PROVE Spec => ImplementsTrial
<1> DEFINE I == Inv /\ TrialInv /\ WholeInv
<1>1. Init => I
  BY InvInit, TrialInit, WholeInit DEF Whole
<1>2. I /\ [Next]_vars => I'
  BY InvNext, TrialNext, WholeNext DEF Whole
<1>3. Init => Trial!Init
  BY SpecialAssumption DEF Whole, Scope, Init, Trial!Init, LoadConfirmed, Verdict
<1>4. I /\ [Next]_vars => [Trial!Next]_trialVars
  BY RefineStep
<1> QED BY <1>1, <1>2, <1>3, <1>4, PTL DEF Spec, ImplementsTrial, Trial!Spec, Kept, Tried,
        trialVars

(***************************************************************************)
(* The rules that run.                                                     *)
(***************************************************************************)
(* The runs the next theorem is about: in addition no refresh of the rules reads a   *)
(* configuration before a change and loads it afterwards, and the rules of safe mode *)
(* load.                                                                             *)
Guarded == Scope /\ "refresh" \notin Ops /\ "safe" \notin Faults

(* The eight steps: the revert point. *)
LEMMA RulesSaveRevertPoint == ASSUME Inv, RulesInv, SaveRevertPoint PROVE RulesInv'
<1>1. /\ job # NoJob /\ job.mode = "apply" /\ job.pc = "revertpoint"
      /\ UNCHANGED <<pending, accepted, rules, refresh, hist>>
  BY InApply DEF SaveRevertPoint, At, marker, snapshots, kernel, others, history
<1>2. job'.mode = "apply"
  <2>1. job.op = "apply"
    BY InApply DEF SaveRevertPoint, At
  <2>2. CASE Goto("applying")
    BY <1>1, <2>2 DEF Goto
  <2>3. CASE NotStarted
    BY <2>1, <2>3 DEF NotStarted, Unlock, NoJob
  <2> QED BY <2>2, <2>3 DEF SaveRevertPoint
<1>3. rules \in Fine /\ Fine' = Fine
  BY <1>1 DEF RulesInv, Late, Fine
<1> QED BY <1>1, <1>2, <1>3 DEF RulesInv

(* The marker. *)
LEMMA RulesWritePending == ASSUME Inv, RulesInv, WritePending PROVE RulesInv'
<1>1. /\ job # NoJob /\ job.mode = "apply" /\ job.pc = "mark"
      /\ UNCHANGED <<accepted, rules, refresh>>
  BY InApply DEF WritePending, At, kernel, others, history
<1>2. \/ job'.mode = "apply"
      \/ job'.mode = "undo" /\ job'.pc = "clear"
  BY <1>1 DEF WritePending, Goto, NotArmed, Inv, TypeInv, JobOK, Job
<1>3. rules \in Fine /\ Fine' = Fine
  BY <1>1 DEF RulesInv, Late, Fine
<1> QED BY <1>1, <1>2, <1>3 DEF RulesInv

(* The timer. *)
LEMMA RulesArmRevert == ASSUME Inv, RulesInv, ArmRevert PROVE RulesInv'
<1>1. job # NoJob /\ job.pc = "arm" /\ UNCHANGED <<accepted, rules, refresh>>
  BY DEF ArmRevert, At, kernel, history
<1>2. job.mode = "apply"
  BY <1>1, NoneIsNoJob DEF Inv, JobInv, UndoInv, RevertInv, ConfirmInv, InstanceInv
<1>3. \/ job'.mode = "apply"
      \/ job'.mode = "undo" /\ job'.pc = "clear"
  BY <1>2 DEF ArmRevert, Goto, NotArmed, Inv, TypeInv, JobOK, Job
<1>4. rules \in Fine /\ Fine' = Fine
  BY <1>1, <1>2 DEF RulesInv, Late, Fine
<1> QED BY <1>1, <1>3, <1>4 DEF RulesInv

(* config.json. *)
LEMMA RulesSaveConfirmed == ASSUME Scope, Inv, RulesInv, SaveConfirmed PROVE RulesInv'
<1>1. job # NoJob /\ job.pc = "save"
      /\ UNCHANGED <<pending, hist, accepted, rules, refresh>>
  BY DEF SaveConfirmed, At, marker, snapshots, kernel, others, history
<1>2. \/ job'.mode = "apply" /\ job'.pc = "clear"
      \/ job.mode = "revert" /\ job'.mode = "revert"
      \/ job'.mode = "instance"
  BY DEF SaveConfirmed, Scope, Goto, Inv, TypeInv, JobOK, Job
<1>3. Fine' = Fine
  BY <1>1 DEF Fine
<1> QED BY <1>1, <1>2, <1>3 DEF RulesInv, Late

(* The rules: those of an apply are on trial or accepted by the request, those of an *)
(* undo, a revert and a change of instance forwards are accepted.                    *)
LEMMA RulesLoadRuleset == ASSUME Inv, TrialInv, RulesInv, LoadRuleset PROVE RulesInv'
<1>1. /\ job # NoJob /\ job.pc = "nft"
      /\ UNCHANGED <<files, pending, hist, accepted, refresh>> /\ SameCfg /\ Fine' = Fine
         /\ refresh' = "none"
  BY DEF LoadRuleset, At, files, disk, marker, snapshots, others, history, SameCfg, Fine,
     RulesInv
<1>2. CASE rules' = job.to /\ Goto(AfterNft)
  <2>1. job'.mode = job.mode /\ job'.pc = (IF job.mode = "undo" THEN "clear" ELSE "save")
    BY <1>2 DEF Goto, AfterNft
  <2>2. CASE job.mode = "apply"
    <3>1. job.to \in Fine \/ (pending # NoMark /\ job.to = hist[pending.applied].cfg)
      BY <1>1, <2>2, NoneIsNoJob DEF Inv, JobInv, ApplyInv, Fine
    <3> QED BY <1>1, <1>2, <2>1, <2>2, <3>1 DEF RulesInv, Late
  <2>3. CASE job.mode # "apply"
    <3>1. job.to \in accepted
      BY <1>1, <2>3, NoneIsNoJob DEF Inv, JobInv, MarkInv, RevertInv, InstanceInv,
         ConfirmInv, RulesInv
    <3> QED BY <1>1, <1>2, <2>1, <3>1 DEF RulesInv, Fine
  <2> QED BY <2>2, <2>3
<1>3. CASE rules' = rules /\ ApplyFailed
  BY <1>1, <1>3, RulesFailed
<1> QED BY <1>2, <1>3 DEF LoadRuleset

(* The deleted table. *)
LEMMA RulesDeleteTable == ASSUME Inv, RulesInv, DeleteTable PROVE RulesInv'
<1>1. job # NoJob /\ job.pc = "prerules" /\ rules' = Off /\ refresh' = refresh
  BY DEF DeleteTable, At, others
<1>2. job.mode = "disable"
  BY <1>1, NoneIsNoJob DEF Inv, JobInv, ApplyInv, UndoInv, RevertInv, ConfirmInv,
     InstanceInv
<1>3. job'.mode = "disable"
  BY <1>2 DEF DeleteTable, Goto
<1> QED BY <1>1, <1>3 DEF RulesInv, Fine

(* Safe mode. *)
LEMMA RulesRevertSafeMode == ASSUME Guarded, Inv, RulesInv, RevertSafeMode PROVE RulesInv'
<1>1. job # NoJob /\ job.pc = "safe" /\ rules' = Safe /\ refresh' = refresh
  BY DEF RevertSafeMode, EnterSafeMode, At, others, Guarded
<1>2. job.mode = "revert"
  BY <1>1, NoneIsNoJob DEF Inv, JobInv, ApplyInv, UndoInv, ConfirmInv, InstanceInv
<1>3. job'.mode = "revert"
  BY <1>2 DEF RevertSafeMode, Goto
<1> QED BY <1>1, <1>3 DEF RulesInv, Fine

(* The marker goes once the rules are accepted again, or are accepted by the *)
(* confirmation.                                                             *)
LEMMA RulesRemovePending == ASSUME Guarded, Inv, RulesInv, RemovePending PROVE RulesInv'
<1>1. /\ job # NoJob /\ job.pc = "unmark" /\ refresh' = refresh
         /\ accepted \subseteq accepted'
      /\ rules' = rules \/ rules' = Safe
  BY DEF RemovePending, EnterSafeMode, At, others
<1>2. rules \in Fine'
  <2>1. CASE job.mode \in {"undo", "revert"}
    BY <1>1, <2>1 DEF RulesInv, Fine, Saved
  <2>2. CASE job.mode = "confirm"
    <3>1. job.id = pending.applied /\ accepted' = accepted \cup {hist[job.id].cfg}
      BY <1>1, <2>2, NoneIsNoJob DEF RemovePending, Inv, JobInv, ConfirmInv
    <3> QED BY <3>1 DEF RulesInv, Fine
  <2> QED BY <2>1, <2>2 DEF RemovePending
<1>3. rules' \in Fine'
  BY <1>1, <1>2 DEF Fine
<1>4. \/ job' = NoJob /\ job'.mode = "apply"
      \/ job.mode = "undo" /\ job'.mode = "undo" /\ job'.to = job.to
      \/ job'.mode = "confirm"
  BY DEF RemovePending, Goto, Unlock, NoJob, Inv, TypeInv, JobOK, Job
<1> QED BY <1>1, <1>3, <1>4 DEF RulesInv

(* A request that accepts what it applies, or nothing. *)
LEMMA RulesBeginApply ==
    ASSUME Inv, RulesInv, pending = NoMark, NEW c, NEW a, AcceptOnApply(c, a),
           UNCHANGED <<rules, refresh>>,
           job'.mode \in {"apply", "instance"}
    PROVE  RulesInv'
<1>1. rules \in Fine'
  BY DEF RulesInv, AcceptOnApply, Fine
<1> QED BY <1>1 DEF RulesInv

(* The other requests, the timer and the boot. *)
LEMMA RulesBegin ==
    ASSUME Inv, RulesInv, UNCHANGED <<core, rules, refresh>>,
           NEW op \in {"disable", "revert", "confirm"},
           NEW who, NEW pc \in {"predown", "stop", "load"}, Begin(op, who, op, pc)
    PROVE  RulesInv'
<1>1. job'.mode = op /\ job'.pc = pc
  BY DEF Begin
<1> QED BY <1>1 DEF RulesInv, Saved, core, Fine

(* Every request keeps RulesInv. *)
LEMMA RulesRequest == ASSUME Guarded, Inv, RulesInv, Request PROVE RulesInv'
<1>1. ASSUME NEW c, NEW a, HandleSDNApply(c, a) PROVE RulesInv'
  <2>1. pending = NoMark /\ AcceptOnApply(c, a) /\ UNCHANGED <<rules, refresh>>
        /\ job'.mode = "apply"
    BY <1>1 DEF HandleSDNApply, CanApply, BeginApply, kernel, others
  <2> QED BY <2>1, RulesBeginApply
<1>2. ASSUME NEW i, NEW a, HandleSDNRestore(i, a) PROVE RulesInv'
  <2>1. pending = NoMark /\ AcceptOnApply(hist[i].cfg, a) /\ UNCHANGED <<rules, refresh>>
        /\ job'.mode = "apply"
    BY <1>2 DEF HandleSDNRestore, CanApply, BeginApply, kernel, others
  <2> QED BY <2>1, RulesBeginApply
<1>3. ASSUME NEW c, SDNInstanceChange(c) PROVE RulesInv'
  <2>1. pending = NoMark /\ AcceptOnApply(c, FALSE) /\ UNCHANGED <<rules, refresh>>
        /\ job'.mode = "instance"
    BY <1>3 DEF SDNInstanceChange, kernel
  <2> QED BY <2>1, RulesBeginApply
<1>4. CASE HandleSDNDisable \/ HandleSDNConfirm \/ HandleSDNRevertNow
  <2>1. UNCHANGED <<core, rules, refresh>>
    BY <1>4 DEF HandleSDNDisable, HandleSDNConfirm, HandleSDNRevertNow, core, disk, marker,
       snapshots, kernel, others, history
  <2> QED BY <1>4, <2>1, RulesBegin DEF HandleSDNDisable, HandleSDNConfirm,
             HandleSDNRevertNow
<1>5. CASE InstanceForwardsActive
  <2>1. UNCHANGED <<core, rules, refresh, job>>
    BY <1>5 DEF InstanceForwardsActive, core, disk, marker, snapshots, kernel, history
  <2> QED BY <2>1 DEF RulesInv, core, Fine
<1> QED BY <1>1, <1>2, <1>3, <1>4, <1>5, InvHandleSDNEnable DEF Request, Guarded

(* So does a step that unloads the rules or does nothing. *)
LEMMA RulesIdle ==
    ASSUME Inv, RulesInv, UNCHANGED core, refresh' = "none", job' = job \/ job' = NoJob,
           rules' \in {rules, Off}
    PROVE  RulesInv'
<1>1. CASE job' = NoJob
  BY DEF RulesInv, core, Fine, NoJob
<1>2. CASE job' = job
  BY <1>2 DEF RulesInv, core, Fine
<1> QED BY <1>1, <1>2

(* The boot loads config.json, which is accepted when nothing is pending. *)
LEMMA RulesSDNBoot == ASSUME Guarded, Inv, RulesInv, SDNBoot PROVE RulesInv'
<1>1. UNCHANGED <<core, refresh>>
  BY DEF SDNBoot, core, disk, marker, snapshots, history
<1>2. CASE UNCHANGED rules /\ (job' = job \/ Begin("revert", "boot", "revert", "load"))
  BY <1>1, <1>2, RulesBegin, RulesIdle DEF RulesInv
<1>3. CASE job' = job /\ pending = NoMark
           /\ (rules' = Safe \/ (rules' = config /\ config # NoFile))
  <2>1. rules' \in Fine
    BY <1>3 DEF Fine, Inv, MarkInv, LoadConfirmed
  <2> QED BY <1>1, <1>3, <2>1 DEF RulesInv, core, Fine
<1> QED BY <1>2, <1>3 DEF SDNBoot, EnterSafeMode

(* The timer, the boot and crashes keep RulesInv. *)
LEMMA RulesOther ==
  ASSUME Guarded, Inv, RulesInv, Background \/ Crash \/ Flush \/ UNCHANGED vars
  PROVE  RulesInv'
<1>0. refresh = "none" /\ refresh \notin Config
  BY SpecialAssumption DEF RulesInv
<1>1. CASE RevertServiceFires
  <2>1. UNCHANGED <<core, rules, refresh>>
    BY <1>1 DEF RevertServiceFires, core, disk, marker, snapshots, kernel, history
  <2> QED BY <1>0, <1>1, <2>1, RulesBegin, RulesIdle DEF RevertServiceFires
<1>2. CASE NetworkUp \/ RefreshUnit \/ RefreshRead \/ RefreshLoad \/ Flush \/ UNCHANGED vars
  <2>1. UNCHANGED <<core, rules, job>> /\ refresh' = "none"
    BY <1>0, <1>2 DEF NetworkUp, RefreshUnit, RefreshRead, RefreshLoad, Flush, vars, core,
       disk, marker, snapshots, kernel, others, history, Guarded
  <2> QED BY <2>1, RulesIdle
<1>3. CASE Crash
  <2>1. UNCHANGED core /\ rules' \in {rules, Off} /\ refresh' = "none"
        /\ (job' = job \/ job' = NoJob)
    BY <1>3 DEF Crash, PortalCrash, Reboot, PowerCut, Restart, core, disk, marker,
       snapshots, kernel, Guarded, Scope
  <2> QED BY <2>1, RulesIdle
<1> QED BY <1>1, <1>2, <1>3, RulesSDNBoot DEF Background

(* Every step keeps RulesInv. *)
LEMMA RulesNext == ASSUME Guarded, Inv, TrialInv, RulesInv, [Next]_vars PROVE RulesInv'
<1>1. CASE JobStep
  <2>1. CASE ~SaveRevertPoint /\ ~WritePending /\ ~ArmRevert /\ ~SaveConfirmed
             /\ ~LoadRuleset
             /\ ~RevertSafeMode /\ ~RemovePending /\ ~DeleteTable
    BY <1>1, <2>1, OnwardSteps, OnwardInv
  <2> QED BY <2>1, RulesSaveRevertPoint, RulesWritePending, RulesArmRevert,
             RulesSaveConfirmed, RulesLoadRuleset, RulesRevertSafeMode, RulesRemovePending,
             RulesDeleteTable DEF Guarded
<1> QED BY <1>1, RulesRequest, RulesOther DEF Next

(* RulesInv holds initially. *)
LEMMA RulesInit == ASSUME Guarded, Init PROVE RulesInv
<1>1. rules \in accepted /\ refresh = "none" /\ job = NoJob /\ job.mode = "apply"
  BY DEF Guarded, Scope, Init, NoJob
<1> QED BY <1>1 DEF RulesInv, Fine

(* A rule set the admin has not accepted runs only while a marker stands ready to revert *)
(* it or an operation that will undo it is under way, whatever fails or crashes          *)
(* (SDNApply, sdnApplyConfig, sdnRevert).                                                *)
THEOREM RulesAreGuarded == ASSUME Guarded PROVE Spec => []RulesGuarded
<1> DEFINE I == Inv /\ TrialInv /\ RulesInv
<1>1. Init => I
  BY InvInit, TrialInit, RulesInit DEF Guarded
<1>2. I /\ [Next]_vars => I'
  BY InvNext, TrialNext, RulesNext DEF Guarded
<1>3. I => RulesGuarded
  BY DEF RulesInv, RulesGuarded, Fine
<1> QED BY <1>1, <1>2, <1>3, PTL DEF Spec
=============================================================================
