------------------------- MODULE SDNSettled_proofs --------------------------
(***************************************************************************)
(* First, the recorded outcome of a change is final: once undone it is     *)
(* never confirmed, once confirmed it is never undone, whatever crash      *)
(* falls between the steps of confirm, revert-now, the service and the     *)
(* boot.                                                                   *)
(*                                                                         *)
(* Two steps write outcomes, AddSnapshot and SetOutcome.  FreshInv says    *)
(* that AddSnapshot finds an entry nobody has written, and that a          *)
(* confirmation works on one that no revert has written.  FinalInv says    *)
(* that a revert works on what the marker names, which is never a          *)
(* confirmed change.  Every other step only moves the lock holder: one     *)
(* lemma says how far each may move it, one that such moves are harmless.  *)
(*                                                                         *)
(* Second, what the kernel runs when nobody holds the lock. Without a      *)
(* crash the marker that pauses self-healing is gone whenever the lock is  *)
(* free, and without crashes, failing saves and background writers the     *)
(* rules, the links and the interfaces file are those of the confirmed     *)
(* configuration, or none at all once the firewall is disabled.            *)
(*                                                                         *)
(* SettledAgrees says nothing while an operation is under way, so it is    *)
(* far from inductive. SInv says where every operation stands at each of   *)
(* its control points: ShapeInv which control points it reaches, MarkerInv *)
(* when there is a marker to undo, LinkInv how far the links and the       *)
(* interfaces file have been brought, KernelInv which rules are loaded,    *)
(* and from where on everything agrees again.                              *)
(***************************************************************************)
EXTENDS SDNCommit_proofs

(***************************************************************************)
(* The outcome of a change.                                                *)
(***************************************************************************)
(* Ids not handed out have no entry, an apply works on an id of its own,    *)
(* and a confirmation on an entry that no revert has written.               *)
FreshInv ==
    /\ \A i \in Id : i > last => hist[i].outcome = "unrecorded"
    /\ job # NoJob /\ job.mode \in {"apply", "instance"} =>
         job.id \in Id /\ job.id <= last /\ hist[job.id].outcome = "unrecorded"
    /\ job # NoJob /\ job.pc = "record" => job.mode \in {"apply", "instance"}
    /\ job.op = "confirm" =>
         /\ job.mode = "confirm" /\ job.pc \in {"stop", "unmark", "outcome"}
         /\ job.id \in Id /\ hist[job.id].outcome \in {"pending", "unrecorded"}

(* Control points before sdnApplyConfig has passed its checks, and those no *)
(* revert reaches.                                                          *)
Unchecked == {"unit", "state", "check"}
NotRevert == EarlyPC \cup {"arm", "record", "resave"}

(* The marker names no confirmed change; a revert works on the change it    *)
(* names; the marker of a confirmation is gone before its outcome is        *)
(* written; an apply under way wrote the marker itself, or has none.        *)
FinalInv ==
    /\ pending # NoMark => hist[pending.applied].outcome # "confirmed"
    /\ job.op = "revert" =>
         /\ job.mode = "revert" /\ job.pc \notin NotRevert
         /\ job.pc \notin {"stop", "load"} => pending # NoMark
         /\ pending # NoMark => job.id = pending.applied
    /\ job.op = "confirm" /\ job.pc = "outcome" => pending = NoMark
    /\ job.mode \in {"revert", "confirm"} => job.op = job.mode
    /\ job # NoJob /\ job.pc \in {"load", "outcome"} => job.op \in {"confirm", "revert"}
    /\ job # NoJob /\ job.pc \in EarlyPC => job.mode = "apply"
    /\ job # NoJob /\ job.mode \in {"apply", "instance"} /\ job.pc \notin Unchecked =>
         IF job.auto THEN pending # NoMark => pending.applied = job.id
         ELSE pending = NoMark /\ job.pc # "mark"

----------------------------------------------------------------------------
(* FreshInv.                                                                *)

(* How a step that writes no outcome moves the lock holder: it returns, or  *)
(* works on for the same operation and change, at most turning to undo it.  *)
Moves ==
    /\ job # NoJob
    /\ \/ job' = NoJob
       \/ /\ job'.op = job.op /\ job'.id = job.id
          /\ job'.mode = job.mode \/ (job'.mode = "undo" /\ job.op # "confirm")
          /\ job'.pc = "record" => job'.mode \in {"apply", "instance"}
          /\ job.op = "confirm" => job'.pc \in {"unmark", "outcome"}

(* Such a move keeps FreshInv. *)
LEMMA FreshMoves == ASSUME TypeInv, FreshInv, Moves, UNCHANGED snapshots PROVE FreshInv'
<1>1. CASE job' = NoJob
  BY <1>1 DEF FreshInv, NoJob, snapshots
<1>2. CASE job' # NoJob
  BY <1>2 DEF FreshInv, Moves, snapshots
<1> QED BY <1>1, <1>2

(* The failure paths of SDNApply are such moves ... *)
LEMMA FreshFail ==
    ASSUME TypeInv, FreshInv, job # NoJob, job.pc \in {"down", "splice", "up", "nft"}, ApplyFailed
    PROVE  Moves
<1>1. CASE job.mode = "apply" /\ Rollback
  BY <1>1 DEF Moves, FreshInv, TypeInv, JobOK, Job, Rollback
<1>2. CASE job.mode # "apply"
  BY <1>2 DEF Moves, FreshInv, TypeInv, JobOK, Job, ApplyFailed, Goto, Unlock
<1> QED BY <1>1, <1>2 DEF ApplyFailed

(* ... and so is going to the next control point. *)
LEMMA GotoMoves ==
    ASSUME TypeInv, FreshInv, job # NoJob, NEW pc, Goto(pc),
           job.op = "confirm" => pc \in {"unmark", "outcome"},
           pc = "record" => job.mode \in {"apply", "instance"}
    PROVE  Moves
  BY DEF TypeInv, JobOK, Job, Goto, Moves

(* An apply that fails before it has touched anything moves so too. *)
LEMMA NotStartedMoves ==
    ASSUME TypeInv, FreshInv, job # NoJob, job.pc \in {"check", "revertpoint", "applying"},
           NotStarted
    PROVE  Moves
  BY DEF NotStarted, Moves, Unlock, TypeInv, JobOK, Job, FreshInv

LEMMA NotArmedMoves ==
    ASSUME TypeInv, FreshInv, job # NoJob, job.pc \in {"mark", "arm"}, NotArmed PROVE Moves
  BY DEF NotArmed, Moves, TypeInv, JobOK, Job, FreshInv

(* Every step of a lock holder but the two that write outcomes. *)
LEMMA QuietSteps ==
    ASSUME TypeInv, FreshInv, JobStep, ~AddSnapshot, ~SetOutcome
    PROVE  Moves /\ UNCHANGED snapshots
<1>1. CASE InstallUnit
  BY <1>1, GotoMoves DEF InstallUnit, At, Moves, Unlock, FreshInv
<1>2. CASE SaveEnabled
  BY <1>2, GotoMoves DEF SaveEnabled, At, Moves, Unlock, FreshInv
<1>3. CASE EnableCheck
  BY <1>3, GotoMoves, NotStartedMoves DEF EnableCheck, At, disk, FreshInv
<1>4. CASE SaveRevertPoint
  BY <1>4, GotoMoves, NotStartedMoves DEF SaveRevertPoint, At, FreshInv
<1>5. CASE SaveApplying
  BY <1>5, GotoMoves, NotStartedMoves DEF SaveApplying, At, FreshInv
<1>6. CASE WritePending
  BY <1>6, GotoMoves, NotArmedMoves DEF WritePending, At, FreshInv
<1>7. CASE ArmRevert
  BY <1>7, GotoMoves, NotArmedMoves DEF ArmRevert, At, FreshInv
<1>8. CASE SaveConfirmed
  BY <1>8, GotoMoves DEF SaveConfirmed, At, Moves, Unlock, Rollback, TypeInv, JobOK, Job,
     FreshInv
<1>9. CASE ClearApplying
  BY <1>9, GotoMoves DEF ClearApplying, At, Moves, Unlock, FreshInv
<1>10. CASE IfDown
  BY <1>10, GotoMoves, FreshFail DEF IfDown, At, Moves, disk, FreshInv
<1>11. CASE SpliceOwned
  BY <1>11, GotoMoves, FreshFail DEF SpliceOwned, At, Moves, AfterSplice, FreshInv
<1>12. CASE IfUp
  BY <1>12, GotoMoves, FreshFail DEF IfUp, At, Moves, disk, FreshInv
<1>13. CASE LoadRuleset
  BY <1>13, GotoMoves, FreshFail DEF LoadRuleset, At, Moves, AfterNft, disk, FreshInv
<1>14. CASE StopService
  BY <1>14, GotoMoves DEF StopService, At, Moves, disk, FreshInv
<1>15. CASE LoadTarget
  BY <1>15, GotoMoves DEF LoadTarget, At, Moves, Unlock, TypeInv, JobOK, Job, FreshInv
<1>16. CASE RevertSafeMode
  BY <1>16, GotoMoves DEF RevertSafeMode, At, Moves, disk, FreshInv
<1>17. CASE RemovePending
  BY <1>17, GotoMoves DEF RemovePending, At, Moves, Unlock, FreshInv
<1>18. CASE PreSDNDown
  BY <1>18, GotoMoves DEF PreSDNDown, At, Moves, disk, FreshInv
<1>19. CASE PreSDNInterfaces
  BY <1>19, GotoMoves DEF PreSDNInterfaces, At, Moves, PreSDNReturns, Unlock, TypeInv, JobOK,
     Job, FreshInv
<1>20. CASE DeleteTable
  BY <1>20, GotoMoves DEF DeleteTable, At, Moves, disk, FreshInv
<1>21. CASE SDNRemoveUnit
  BY <1>21, GotoMoves DEF SDNRemoveUnit, At, Moves, PreSDNReturns, Unlock, TypeInv, JobOK, Job,
     FreshInv
<1>22. CASE SaveDisabled
  BY <1>22, GotoMoves DEF SaveDisabled, At, Moves, PreSDNReturns, Unlock, TypeInv, JobOK, Job,
     FreshInv
<1>23. CASE ResaveConfirmed
  BY <1>23 DEF ResaveConfirmed, At, Moves, Unlock, FreshInv
<1> QED BY <1>1, <1>2, <1>3, <1>4, <1>5, <1>6, <1>7, <1>8, <1>9, <1>10, <1>11, <1>12, <1>13,
   <1>14, <1>15, <1>16, <1>17, <1>18, <1>19, <1>20, <1>21, <1>22, <1>23 DEF JobStep

(* AddSnapshot writes an entry that has no outcome yet. *)
LEMMA FreshAddSnapshot ==
    ASSUME TypeInv, FreshInv, AddSnapshot
    PROVE  FreshInv' /\ job.id \in Id /\ hist[job.id].outcome = "unrecorded"
<1>1. /\ job.id \in Id /\ job.id <= last /\ hist[job.id].outcome = "unrecorded"
      /\ job' = NoJob /\ last' = last
  BY DEF AddSnapshot, FreshInv, At, Unlock
<1>2. \A i \in Id : i # job.id => hist'[i] = hist[i]
  BY <1>1 DEF AddSnapshot, TypeInv, DiskOK
<1> QED BY <1>1, <1>2 DEF FreshInv, NoJob, TypeInv, DiskOK, Id

(* SetOutcome creates no entry, and is the last step of a confirmation. *)
LEMMA FreshSetOutcome == ASSUME TypeInv, FreshInv, SetOutcome PROVE FreshInv'
<1>1. job # NoJob /\ job.pc = "outcome" /\ last' = last
  BY DEF SetOutcome, At
<1>2. \A i \in Id : \/ hist'[i].outcome = hist[i].outcome
                    \/ i = job.id /\ hist[i].outcome # "unrecorded"
  BY DEF SetOutcome, TypeInv, DiskOK
<1>3. CASE job.op = "confirm"
  BY <1>1, <1>2, <1>3 DEF SetOutcome, FreshInv, Unlock, NoJob
<1>4. CASE job.op # "confirm"
  <2>1. job'.op = job.op /\ job'.mode = job.mode /\ job'.pc = "clear" /\ job'.id = job.id
    BY <1>4 DEF SetOutcome, Goto, TypeInv, JobOK, Job
  <2> QED BY <1>1, <1>2, <1>4, <2>1 DEF FreshInv
<1> QED BY <1>3, <1>4

(* A lock holder's step keeps FreshInv. *)
LEMMA FreshStep == ASSUME TypeInv, FreshInv, JobStep PROVE FreshInv'
  BY QuietSteps, FreshMoves, FreshAddSnapshot, FreshSetOutcome

(* So does a step that leaves the history and the lock holder alone, or kills it. *)
LEMMA FreshIdle ==
    ASSUME FreshInv, UNCHANGED snapshots, job' = job \/ job' = NoJob PROVE FreshInv'
  BY DEF FreshInv, snapshots, NoJob

(* A revert and Disable hand out no id. *)
LEMMA FreshBegin ==
    ASSUME TypeInv, FreshInv, UNCHANGED snapshots, NEW op \in {"disable", "revert"},
           NEW who, NEW pc, pc # "record", Begin(op, who, op, pc)
    PROVE  FreshInv'
<1>1. job'.op = op /\ job'.mode = op /\ job'.pc = pc
  BY DEF Begin, NoJob
<1> QED BY <1>1 DEF FreshInv, snapshots

(* HandleSDNConfirm looks at the outcome before it starts ("too late"). *)
LEMMA FreshConfirm == ASSUME TypeInv, FreshInv, HandleSDNConfirm PROVE FreshInv'
<1>1. /\ job'.op = "confirm" /\ job'.mode = "confirm" /\ job'.pc = "stop"
      /\ job'.id = pending.applied
  BY DEF HandleSDNConfirm, Begin, NoJob
<1>2. pending.applied \in Id
  BY DEF HandleSDNConfirm, TypeInv, DiskOK, Marker
<1> QED BY <1>1, <1>2 DEF FreshInv, HandleSDNConfirm, disk, snapshots

(* An apply takes the next id, whose entry has no outcome. *)
LEMMA FreshApply ==
    ASSUME TypeInv, FreshInv, NEW c, last < MaxApplies, last' = last + 1,
           hist' = [hist EXCEPT ![last + 1].cfg = c],
           job'.id = last + 1, job'.op # "confirm", job'.mode \in {"apply", "instance"}, job'.pc # "record"
    PROVE  FreshInv'
<1>1. last \in Nat /\ last + 1 \in Id
  BY BoundAssumption DEF TypeInv, DiskOK, Id
<1>2. \A i \in Id : hist'[i].outcome = hist[i].outcome
  BY <1>1 DEF TypeInv, DiskOK
<1>3. hist[last + 1].outcome = "unrecorded"
  BY <1>1 DEF FreshInv
<1>4. \A i \in Id : i > last + 1 => i > last
  BY <1>1, BoundAssumption DEF Id
<1> QED BY <1>1, <1>2, <1>3, <1>4 DEF FreshInv

(* Requests. *)
LEMMA FreshRequest == ASSUME TypeInv, FreshInv, Request PROVE FreshInv'
<1>1. ASSUME NEW op \in {"apply", "enable"}, NEW pc \in {"revertpoint", "unit"},
             NEW c, NEW d, NEW a, BeginApply(op, pc, c, d, a)
      PROVE  FreshInv'
  <2>1. job'.id = last + 1 /\ job'.op = op /\ job'.mode = "apply" /\ job'.pc = pc
    BY <1>1 DEF BeginApply
  <2> QED BY <1>1, <2>1, FreshApply DEF BeginApply
<1>2. ASSUME NEW c, NEW a, HandleSDNApply(c, a) PROVE FreshInv'
  BY <1>1, <1>2 DEF HandleSDNApply
<1>3. ASSUME NEW i, NEW a, HandleSDNRestore(i, a) PROVE FreshInv'
  BY <1>1, <1>3 DEF HandleSDNRestore
<1>4. ASSUME NEW c, HandleSDNEnable(c) PROVE FreshInv'
  BY <1>1, <1>4 DEF HandleSDNEnable
<1>5. CASE HandleSDNDisable \/ HandleSDNRevertNow
  BY <1>5, FreshBegin DEF HandleSDNDisable, HandleSDNRevertNow, disk
<1>6. CASE InstanceForwardsActive
  BY <1>6, FreshIdle DEF InstanceForwardsActive, disk
<1>7. ASSUME NEW c, SDNInstanceChange(c) PROVE FreshInv'
  <2>1. /\ job'.id = last + 1 /\ job'.op = "instance" /\ job'.mode = "instance"
        /\ job'.pc \in {"nft", "save"}
    BY <1>7 DEF SDNInstanceChange
  <2> QED BY <1>7, <2>1, FreshApply DEF SDNInstanceChange
<1> QED BY <1>2, <1>3, <1>4, <1>5, <1>6, <1>7, FreshConfirm DEF Request

(* The service, the boot, the refresh, crashes. *)
LEMMA FreshOther == ASSUME TypeInv, FreshInv, Background \/ Crash \/ Flush PROVE FreshInv'
<1>1. CASE RevertServiceFires
  BY <1>1, FreshBegin, FreshIdle DEF RevertServiceFires, disk
<1>2. CASE SDNBoot
  BY <1>2, FreshBegin, FreshIdle DEF SDNBoot, disk
<1>3. CASE NetworkUp \/ RefreshUnit \/ RefreshRead \/ RefreshLoad \/ Flush \/ Crash
  BY <1>3, FreshIdle DEF NetworkUp, RefreshUnit, RefreshRead, RefreshLoad, Flush, Crash,
     PortalCrash, Reboot, PowerCut, Restart, disk
<1> QED BY <1>1, <1>2, <1>3 DEF Background

(* FreshInv holds after every step. *)
LEMMA FreshNext == ASSUME TypeInv, FreshInv, [Next]_vars PROVE FreshInv'
<1>1. CASE UNCHANGED vars
  BY <1>1, FreshIdle DEF vars, disk
<1> QED BY <1>1, FreshRequest, FreshStep, FreshOther DEF Next

----------------------------------------------------------------------------
(* FinalInv.                                                                *)

(* How a step that touches neither the marker nor the history moves the     *)
(* lock holder.                                                             *)
Proceeds ==
    /\ job # NoJob
    /\ \/ job' = NoJob
       \/ /\ job'.op = job.op /\ job'.id = job.id /\ job'.auto = job.auto
          /\ \/ job'.mode = job.mode
             \/ job'.mode = "undo" /\ job.op \notin {"confirm", "revert"}
          /\ job.op = "confirm" => job'.pc = "unmark"
          /\ job.op = "revert" => /\ job'.pc \notin NotRevert
                                  /\ job'.pc \in {"stop", "load"} \/ pending # NoMark
          /\ job'.mode \in {"apply", "instance"} /\ job'.pc \notin Unchecked =>
               pending = NoMark \/ job.pc \notin Unchecked
          /\ job'.pc = "mark" => job.auto
          /\ job'.pc \in EarlyPC => job.pc \in EarlyPC /\ job'.mode = job.mode
          /\ job'.pc \in {"load", "outcome"} => job.op \in {"confirm", "revert"}

(* Such a move keeps FinalInv. *)
LEMMA FinalProceeds ==
    ASSUME TypeInv, FinalInv, Proceeds, UNCHANGED <<pending, hist>> PROVE FinalInv'
<1>1. CASE job' = NoJob
  BY <1>1 DEF FinalInv, NoJob
<1>2. CASE job' # NoJob
  BY <1>2 DEF FinalInv, Proceeds, Unchecked
<1> QED BY <1>1, <1>2

(* The failure paths of SDNApply are such moves ... *)
LEMMA FailProceeds ==
    ASSUME TypeInv, FreshInv, FinalInv, job # NoJob, job.pc \in {"down", "splice", "up", "nft"},
           ApplyFailed
    PROVE  Proceeds
<1>1. CASE job.mode = "apply" /\ Rollback
  BY <1>1 DEF Proceeds, FreshInv, FinalInv, TypeInv, JobOK, Job, Rollback, EarlyPC
<1>2. CASE job.mode # "apply"
  BY <1>2 DEF Proceeds, FreshInv, FinalInv, TypeInv, JobOK, Job, ApplyFailed, Goto, Unlock,
     Unchecked, EarlyPC, NotRevert
<1> QED BY <1>1, <1>2 DEF ApplyFailed

(* ... and so is going to the next control point. *)
LEMMA GotoProceeds ==
    ASSUME TypeInv, job # NoJob, NEW pc, Goto(pc),
           job.op = "confirm" => pc = "unmark",
           job.op = "revert" => /\ pc \notin NotRevert
                                /\ pc \in {"stop", "load"} \/ pending # NoMark,
           pc \in Unchecked \/ pending = NoMark \/ job.pc \notin Unchecked,
           pc = "mark" => job.auto,
           pc \in EarlyPC => job.pc \in EarlyPC,
           pc \in {"load", "outcome"} => job.op \in {"confirm", "revert"}
    PROVE  Proceeds
  BY DEF TypeInv, JobOK, Job, Goto, Proceeds

(* So does an apply that fails before it has touched anything. *)
LEMMA NotStartedProceeds ==
    ASSUME TypeInv, FreshInv, FinalInv, job # NoJob,
           job.pc \in {"check", "revertpoint", "applying"}, NotStarted
    PROVE  Proceeds
<1>1. CASE job.op = "enable"
  BY <1>1 DEF NotStarted, Proceeds, TypeInv, JobOK, Job, EarlyPC
<1>2. CASE job.op # "enable"
  BY <1>2 DEF NotStarted, Proceeds, Unlock
<1> QED BY <1>1, <1>2

(* Every step of a lock holder that touches neither marker nor history. *)
LEMMA FinalQuiet ==
    ASSUME TypeInv, FreshInv, FinalInv, JobStep,
           ~AddSnapshot, ~SetOutcome, ~WritePending, ~ArmRevert, ~RemovePending
    PROVE  Proceeds /\ UNCHANGED <<pending, hist>>
<1>1. CASE InstallUnit
  BY <1>1, GotoProceeds DEF InstallUnit, At, Proceeds, Unlock, marker, snapshots, FreshInv, FinalInv,
     EarlyPC, Unchecked, NotRevert
<1>2. CASE SaveEnabled
  BY <1>2, GotoProceeds DEF SaveEnabled, At, Proceeds, Unlock, marker, snapshots, FreshInv, FinalInv,
     EarlyPC, Unchecked, NotRevert
<1>3. CASE EnableCheck
  BY <1>3, GotoProceeds, NotStartedProceeds DEF EnableCheck, At, CanApply, disk, marker,
     snapshots, FreshInv, FinalInv, EarlyPC, Unchecked, NotRevert
<1>4. CASE SaveRevertPoint
  BY <1>4, GotoProceeds, NotStartedProceeds DEF SaveRevertPoint, At, Proceeds, marker, snapshots, FreshInv,
     FinalInv, EarlyPC, Unchecked, NotRevert
<1>5. CASE SaveApplying
  BY <1>5, GotoProceeds, NotStartedProceeds DEF SaveApplying, At, Proceeds, marker, snapshots, FreshInv, FinalInv,
     EarlyPC, Unchecked, NotRevert
<1>6. CASE SaveConfirmed
  BY <1>6, GotoProceeds DEF SaveConfirmed, At, Proceeds, Unlock, Rollback, marker, snapshots,
     TypeInv, JobOK, Job, FreshInv, FinalInv, EarlyPC, Unchecked, NotRevert
<1>7. CASE ClearApplying
  BY <1>7, GotoProceeds DEF ClearApplying, At, Proceeds, Unlock, marker, snapshots, FreshInv,
     FinalInv, EarlyPC, Unchecked, NotRevert
<1>8. CASE IfDown
  BY <1>8, GotoProceeds, FailProceeds DEF IfDown, At, Proceeds, disk, marker, snapshots,
     FreshInv, FinalInv, EarlyPC, Unchecked, NotRevert
<1>9. CASE SpliceOwned
  BY <1>9, GotoProceeds, FailProceeds DEF SpliceOwned, At, Proceeds, AfterSplice, marker,
     snapshots, FreshInv, FinalInv, EarlyPC, Unchecked, NotRevert
<1>10. CASE IfUp
  BY <1>10, GotoProceeds, FailProceeds DEF IfUp, At, Proceeds, disk, marker, snapshots,
     FreshInv, FinalInv, EarlyPC, Unchecked, NotRevert
<1>11. CASE LoadRuleset
  BY <1>11, GotoProceeds, FailProceeds DEF LoadRuleset, At, Proceeds, AfterNft, disk, marker,
     snapshots, FreshInv, FinalInv, EarlyPC, Unchecked, NotRevert
<1>12. CASE StopService
  BY <1>12, GotoProceeds DEF StopService, At, Proceeds, disk, marker, snapshots, FreshInv,
     FinalInv, EarlyPC, Unchecked, NotRevert
<1>13. CASE LoadTarget
  BY <1>13, GotoProceeds DEF LoadTarget, At, Proceeds, Unlock, marker, snapshots, TypeInv,
     JobOK, Job, FreshInv, FinalInv, EarlyPC, Unchecked, NotRevert
<1>14. CASE RevertSafeMode
  BY <1>14, GotoProceeds DEF RevertSafeMode, At, Proceeds, disk, marker, snapshots, FreshInv,
     FinalInv, EarlyPC, Unchecked, NotRevert
<1>15. CASE PreSDNDown
  BY <1>15, GotoProceeds DEF PreSDNDown, At, Proceeds, disk, marker, snapshots, FreshInv,
     FinalInv, EarlyPC, Unchecked, NotRevert
<1>16. CASE PreSDNInterfaces
  BY <1>16, GotoProceeds DEF PreSDNInterfaces, At, Proceeds, PreSDNReturns, Unlock, marker,
     snapshots, TypeInv, JobOK, Job, FreshInv, FinalInv, EarlyPC, Unchecked, NotRevert
<1>17. CASE DeleteTable
  BY <1>17, GotoProceeds DEF DeleteTable, At, Proceeds, disk, marker, snapshots, FreshInv,
     FinalInv, EarlyPC, Unchecked, NotRevert
<1>18. CASE SDNRemoveUnit
  BY <1>18, GotoProceeds DEF SDNRemoveUnit, At, Proceeds, PreSDNReturns, Unlock, marker,
     snapshots, TypeInv, JobOK, Job, FreshInv, FinalInv, EarlyPC, Unchecked, NotRevert
<1>19. CASE SaveDisabled
  BY <1>19, GotoProceeds DEF SaveDisabled, At, Proceeds, PreSDNReturns, Unlock, marker,
     snapshots, TypeInv, JobOK, Job, FreshInv, FinalInv, EarlyPC, Unchecked, NotRevert
<1>20. CASE ResaveConfirmed
  BY <1>20 DEF ResaveConfirmed, At, Proceeds, Unlock, marker, snapshots, FreshInv, FinalInv,
     EarlyPC, Unchecked, NotRevert
<1> QED BY <1>1, <1>2, <1>3, <1>4, <1>5, <1>6, <1>7, <1>8, <1>9, <1>10, <1>11, <1>12, <1>13,
   <1>14, <1>15, <1>16, <1>17, <1>18, <1>19, <1>20 DEF JobStep

(* Without a marker FinalInv says little: a revert has returned by then. *)
LEMMA FinalUnmarked ==
    ASSUME TypeInv, FinalInv, pending' = NoMark, job # NoJob,
           \/ job' = NoJob
           \/ /\ job'.op = job.op /\ job.op # "revert" /\ job'.pc \notin EarlyPC
              /\ job'.mode = job.mode \/ job'.mode = "undo"
              /\ job'.pc \in {"load", "outcome"} => job.op = "confirm"
    PROVE  FinalInv'
<1>1. CASE job' = NoJob
  BY <1>1 DEF FinalInv, NoJob
<1>2. CASE job' # NoJob
  BY <1>2 DEF FinalInv, EarlyPC
<1> QED BY <1>1, <1>2

(* An apply that cannot be armed has no marker. *)
LEMMA FinalNotArmed ==
    ASSUME TypeInv, FinalInv, job # NoJob, job.pc \in {"mark", "arm"}, pending' = NoMark, NotArmed
    PROVE  FinalInv'
<1>1. job'.op = job.op /\ job'.pc = "clear" /\ job'.mode = "undo" /\ job.op # "revert"
  BY DEF NotArmed, TypeInv, JobOK, Job, FinalInv, NotRevert, EarlyPC
<1> QED BY <1>1, FinalUnmarked DEF EarlyPC

(* An apply writes a marker that names its own change, which has no outcome, or cannot. *)
LEMMA FinalWritePending == ASSUME TypeInv, FreshInv, FinalInv, WritePending PROVE FinalInv'
<1>1. job # NoJob /\ job.pc = "mark" /\ hist' = hist
  BY DEF WritePending, At, snapshots
<1>2. job.op # "confirm" /\ job.op # "revert" /\ job.mode = "apply"
  BY <1>1 DEF FreshInv, FinalInv, EarlyPC, NotRevert
<1>3. job.id \in Id /\ hist[job.id].outcome # "confirmed" /\ job.auto
  BY <1>1, <1>2 DEF FreshInv, FinalInv, Unchecked
<1>4. CASE SetMark([target |-> Target, applied |-> job.id]) /\ Goto("arm")
  <2>1. job'.pc = "arm" /\ job'.op = job.op /\ job'.mode = job.mode /\ job'.id = job.id /\ job'.auto = job.auto
    BY <1>4 DEF Goto, TypeInv, JobOK, Job
  <2>2. pending'.applied = job.id
    BY <1>4 DEF SetMark
  <2> QED BY <1>1, <1>2, <1>3, <2>1, <2>2 DEF FinalInv
<1>5. CASE UNCHANGED marker /\ NotArmed
  <2>1. CASE pending = NoMark
    BY <1>1, <1>5, <2>1, FinalNotArmed DEF marker
  <2>2. CASE pending # NoMark
    <3>1. job'.op = job.op /\ job'.pc = "clear" /\ job'.mode = "undo" /\ job'.id = job.id
      BY <1>5 DEF NotArmed, TypeInv, JobOK, Job
    <3> QED BY <1>1, <1>2, <1>5, <3>1 DEF FinalInv, marker, EarlyPC
  <2> QED BY <2>1, <2>2
<1> QED BY <1>4, <1>5 DEF WritePending

(* Arming keeps the marker or removes it. *)
LEMMA FinalArmRevert == ASSUME TypeInv, FreshInv, FinalInv, ArmRevert PROVE FinalInv'
<1>1. job # NoJob /\ job.pc = "arm" /\ job.op # "revert" /\ job.op # "confirm" /\ hist' = hist
  BY DEF ArmRevert, At, FreshInv, FinalInv, NotRevert, snapshots
<1>2. CASE Goto("down") /\ UNCHANGED marker
  <2>1. Proceeds
    BY <1>1, <1>2, GotoProceeds DEF Unchecked, EarlyPC, NotRevert
  <2> QED BY <1>1, <1>2, <2>1, FinalProceeds DEF marker
<1>3. CASE SetMark(NoMark) /\ NotArmed
  BY <1>1, <1>3, FinalNotArmed DEF SetMark
<1> QED BY <1>2, <1>3 DEF ArmRevert

(* The marker goes: a revert is over, a confirmation records its outcome next. *)
LEMMA FinalRemovePending == ASSUME TypeInv, FreshInv, FinalInv, RemovePending PROVE FinalInv'
<1>1. job # NoJob /\ pending' = NoMark
  BY DEF RemovePending, At, SetMark
<1>2. CASE job.mode = "revert" /\ Unlock
  BY <1>1, <1>2, FinalUnmarked DEF Unlock
<1>3. CASE (job.mode = "undo" /\ Goto("down")) \/ (job.mode = "confirm" /\ Goto("outcome"))
  <2>1. /\ job.op # "revert" /\ job'.op = job.op /\ job'.mode = job.mode
        /\ job'.pc = "down" \/ (job'.pc = "outcome" /\ job.op = "confirm")
    BY <1>3 DEF FinalInv, Goto, TypeInv, JobOK, Job
  <2>2. job'.pc \notin EarlyPC /\ (job'.pc \in {"load", "outcome"} => job.op = "confirm")
    BY <2>1 DEF EarlyPC
  <2> QED BY <1>1, <2>1, <2>2, FinalUnmarked
<1> QED BY <1>2, <1>3 DEF RemovePending

(* A change recorded as confirmed has no marker. *)
LEMMA FinalAddSnapshot == ASSUME TypeInv, FreshInv, FinalInv, AddSnapshot PROVE FinalInv'
<1>1. job # NoJob /\ job' = NoJob /\ pending' = pending /\ job.pc = "record" /\ job.mode \in {"apply", "instance"}
  BY DEF AddSnapshot, At, Unlock, marker, FreshInv
<1>2. \A i \in Id : i # job.id \/ job.auto => hist'[i].outcome = hist[i].outcome \/ hist'[i].outcome = "pending"
  BY DEF AddSnapshot, TypeInv, DiskOK
<1>3. ~job.auto => pending = NoMark
  BY <1>1 DEF FinalInv, Unchecked
<1>4. pending # NoMark => pending.applied \in Id
  BY DEF TypeInv, DiskOK, Marker
<1>5. pending # NoMark => hist'[pending.applied].outcome # "confirmed"
  BY <1>2, <1>3, <1>4 DEF FinalInv
<1> QED BY <1>1, <1>5 DEF FinalInv, NoJob

(* A confirmation records its outcome when the marker is gone. *)
LEMMA FinalSetOutcome == ASSUME TypeInv, FreshInv, FinalInv, SetOutcome PROVE FinalInv'
<1>1. job # NoJob /\ job.pc = "outcome" /\ pending' = pending
  BY DEF SetOutcome, At, marker
<1>2. \A i \in Id : hist'[i].outcome = hist[i].outcome \/ (i = job.id /\ (job.op # "confirm" => hist'[i].outcome # "confirmed"))
  BY DEF SetOutcome, TypeInv, DiskOK
<1>4. pending # NoMark => pending.applied \in Id
  BY DEF TypeInv, DiskOK, Marker
<1>5. pending # NoMark => hist'[pending.applied].outcome # "confirmed"
  BY <1>1, <1>2, <1>4 DEF FinalInv
<1>6. CASE job.op = "confirm"
  BY <1>1, <1>5, <1>6 DEF SetOutcome, FinalInv, Unlock, NoJob
<1>7. CASE job.op # "confirm"
  <2>1. job'.op = job.op /\ job'.mode = job.mode /\ job'.pc = "clear" /\ job'.id = job.id /\ job'.auto = job.auto
    BY <1>7 DEF SetOutcome, Goto, TypeInv, JobOK, Job
  <2> QED BY <1>1, <1>5, <1>7, <2>1 DEF FinalInv, EarlyPC, NotRevert, Unchecked
<1> QED BY <1>6, <1>7

(* A step that leaves the marker, the history and the lock holder alone, or kills it. *)
LEMMA FinalIdle == ASSUME FinalInv, UNCHANGED <<pending, hist>>, job' = job \/ job' = NoJob PROVE FinalInv'
  BY DEF FinalInv, NoJob

(* Disable, a revert and a confirmation start from the marker as it is. *)
LEMMA FinalBegin ==
    ASSUME TypeInv, FinalInv, UNCHANGED <<pending, hist>>, NEW who,
           \/ Begin("disable", who, "disable", "predown")
           \/ Begin("revert", who, "revert", "stop")
           \/ Begin("revert", who, "revert", "load")
           \/ Begin("confirm", who, "confirm", "stop")
    PROVE FinalInv'
<1>1. \/ job'.op = "disable" /\ job'.mode = "disable" /\ job'.pc = "predown"
      \/ /\ job'.op = "revert" /\ job'.mode = "revert" /\ job'.pc \in {"stop", "load"}
         /\ pending # NoMark => job'.id = pending.applied
      \/ job'.op = "confirm" /\ job'.mode = "confirm" /\ job'.pc = "stop"
  BY DEF Begin, NoJob
<1> QED BY <1>1 DEF FinalInv, EarlyPC, NotRevert

(* An apply starts without a marker; an enable checks that later. *)
LEMMA FinalApply == ASSUME TypeInv, FinalInv, NEW c, last < MaxApplies, pending' = pending,
     hist' = [hist EXCEPT ![last + 1].cfg = c], job'.op \notin {"confirm", "revert"},
     \/ job'.mode = "apply" /\ job'.pc \in Unchecked
     \/ job'.mode = "apply" /\ job'.pc = "revertpoint" /\ pending = NoMark
     \/ job'.mode = "instance" /\ job'.pc \in {"nft", "save"} /\ pending = NoMark
     PROVE FinalInv'
<1>1. last + 1 \in Id
  BY BoundAssumption DEF TypeInv, DiskOK, Id
<1>2. \A i \in Id : hist'[i].outcome = hist[i].outcome
  BY <1>1 DEF TypeInv, DiskOK
<1>3. pending # NoMark => pending.applied \in Id
  BY DEF TypeInv, DiskOK, Marker
<1> QED BY <1>1, <1>2, <1>3 DEF FinalInv, EarlyPC, Unchecked

(* Requests. *)
LEMMA FinalRequest == ASSUME TypeInv, FinalInv, Request PROVE FinalInv'
<1>1. ASSUME NEW c, NEW d, NEW a, pending = NoMark, BeginApply("apply", "revertpoint", c, d, a) PROVE FinalInv'
  <2>1. job'.op = "apply" /\ job'.mode = "apply" /\ job'.pc = "revertpoint"
    BY <1>1 DEF BeginApply
  <2> QED BY <1>1, <2>1, FinalApply DEF BeginApply, marker
<1>3. ASSUME NEW c, NEW a, HandleSDNApply(c, a) PROVE FinalInv'
  BY <1>1, <1>3 DEF HandleSDNApply, CanApply
<1>4. ASSUME NEW i, NEW a, HandleSDNRestore(i, a) PROVE FinalInv'
  BY <1>1, <1>4 DEF HandleSDNRestore, CanApply
<1>5. ASSUME NEW c, HandleSDNEnable(c) PROVE FinalInv'
  <2>1. job'.op = "enable" /\ job'.mode = "apply" /\ job'.pc = "unit"
    BY <1>5 DEF HandleSDNEnable, BeginApply
  <2> QED BY <1>5, <2>1, FinalApply DEF HandleSDNEnable, BeginApply, marker, Unchecked
<1>6. CASE HandleSDNDisable \/ HandleSDNRevertNow \/ HandleSDNConfirm
  BY <1>6, FinalBegin DEF HandleSDNDisable, HandleSDNRevertNow, HandleSDNConfirm, disk, marker, snapshots
<1>8. CASE InstanceForwardsActive
  BY <1>8, FinalIdle DEF InstanceForwardsActive, disk, marker, snapshots
<1>9. ASSUME NEW c, SDNInstanceChange(c) PROVE FinalInv'
  <2>1. job'.op = "instance" /\ job'.mode = "instance" /\ job'.pc \in {"nft", "save"}
    BY <1>9 DEF SDNInstanceChange
  <2> QED BY <1>9, <2>1, FinalApply DEF SDNInstanceChange, marker
<1> QED BY <1>3, <1>4, <1>5, <1>6, <1>8, <1>9 DEF Request

(* The service, the boot, the refresh and crashes that lose no file. *)
LEMMA FinalOther ==
    ASSUME "powercut" \notin Faults, TypeInv, FinalInv, Background \/ Crash \/ Flush PROVE FinalInv'
<1>1. CASE RevertServiceFires
  BY <1>1, FinalBegin, FinalIdle DEF RevertServiceFires, disk, marker, snapshots
<1>2. CASE SDNBoot
  BY <1>2, FinalBegin, FinalIdle DEF SDNBoot, disk, marker, snapshots
<1>3. CASE NetworkUp \/ RefreshUnit \/ RefreshRead \/ RefreshLoad \/ Flush \/ Crash
  BY <1>3, FinalIdle DEF NetworkUp, RefreshUnit, RefreshRead, RefreshLoad, Flush, Crash, PortalCrash,
     Reboot, PowerCut, Restart, disk, marker, snapshots
<1> QED BY <1>1, <1>2, <1>3 DEF Background

(* Both hold initially. *)
LEMMA FreshInit == ASSUME Init PROVE FreshInv /\ FinalInv
<1>1. \A i \in Id : hist[i].outcome = "unrecorded"
  BY DEF Init
<1>2. job = NoJob /\ job.op = "none" /\ job.mode = "apply" /\ pending = NoMark
  BY DEF Init, NoJob
<1> QED BY <1>1, <1>2 DEF FreshInv, FinalInv

(* FinalInv holds after every step. *)
LEMMA FinalNext == ASSUME "powercut" \notin Faults, TypeInv, FreshInv, FinalInv, [Next]_vars PROVE FinalInv'
<1>1. CASE UNCHANGED vars
  BY <1>1, FinalIdle DEF vars, disk, marker, snapshots
<1>2. CASE JobStep
  BY <1>2, FinalQuiet, FinalProceeds, FinalWritePending, FinalArmRevert, FinalRemovePending,
     FinalAddSnapshot, FinalSetOutcome
<1> QED BY <1>1, <1>2, FinalRequest, FinalOther DEF Next

----------------------------------------------------------------------------
(* Outcomes.                                                                *)

(* Only AddSnapshot and SetOutcome write outcomes. *)
LEMMA OutcomesKept ==
    ASSUME TypeInv, FreshInv, [Next]_vars, ~AddSnapshot, ~SetOutcome
    PROVE  \A i \in Id : hist'[i].outcome = hist[i].outcome
<1>1. CASE UNCHANGED snapshots
  BY <1>1 DEF snapshots
<1>2. ASSUME NEW c, last < MaxApplies, hist' = [hist EXCEPT ![last + 1].cfg = c]
      PROVE  \A i \in Id : hist'[i].outcome = hist[i].outcome
  BY <1>2 DEF TypeInv, DiskOK
<1>3. CASE Request
  BY <1>1, <1>2, <1>3 DEF Request, HandleSDNApply, HandleSDNRestore, HandleSDNEnable, BeginApply,
     HandleSDNDisable, HandleSDNConfirm, HandleSDNRevertNow, InstanceForwardsActive, SDNInstanceChange, disk
<1>4. CASE JobStep
  BY <1>1, <1>4, QuietSteps
<1>5. CASE Background \/ Crash \/ Flush \/ UNCHANGED vars
  BY <1>1, <1>5 DEF Background, RevertServiceFires, SDNBoot, NetworkUp, RefreshUnit, RefreshRead, RefreshLoad,
     Flush, Crash, PortalCrash, Reboot, PowerCut, Restart, vars, disk
<1> QED BY <1>3, <1>4, <1>5 DEF Next

(* No step confirms a change whose revert was recorded. *)
LEMMA UndoneStep ==
    ASSUME TypeInv, FreshInv, [Next]_vars, NEW i \in Id, hist[i].outcome \in Undone
    PROVE  hist'[i].outcome \in Undone
<1>1. CASE AddSnapshot
  <2>1. i # job.id
    BY <1>1, FreshAddSnapshot DEF Undone
  <2> QED BY <1>1, <2>1 DEF AddSnapshot, TypeInv, DiskOK
<1>2. CASE SetOutcome
  <2>1. i # job.id \/ job.op # "confirm"
    BY <1>2 DEF FreshInv, Undone
  <2> QED BY <1>2, <2>1 DEF SetOutcome, TypeInv, DiskOK, Undone
<1> QED BY <1>1, <1>2, OutcomesKept

(* No step records the revert of a confirmed change. *)
LEMMA ConfirmedStep ==
    ASSUME TypeInv, FreshInv, FinalInv, [Next]_vars, NEW i \in Id, hist[i].outcome = "confirmed"
    PROVE  hist'[i].outcome = "confirmed"
<1>1. CASE AddSnapshot
  <2>1. i # job.id
    BY <1>1, FreshAddSnapshot
  <2> QED BY <1>1, <2>1 DEF AddSnapshot, TypeInv, DiskOK
<1>2. CASE SetOutcome
  <2>1. i # job.id \/ job.op = "confirm" 
    BY <1>2 DEF FinalInv, SetOutcome, At
  <2> QED BY <1>2, <2>1 DEF SetOutcome, TypeInv, DiskOK
<1> QED BY <1>1, <1>2, OutcomesKept

(* A change whose revert was recorded is never confirmed, for every set of  *)
(* operations and every fault, power cuts included.                         *)
THEOREM NoLateConfirm == Spec => NeverReconfirmed
<1>1. Init => TypeInv /\ FreshInv
  BY TypeInit, FreshInit
<1>2. TypeInv /\ FreshInv /\ [Next]_vars => (TypeInv /\ FreshInv)'
  BY TypeNext, FreshNext
<1>3. TypeInv /\ FreshInv /\ [Next]_vars =>
        [\A i \in Id : hist[i].outcome \in Undone => hist'[i].outcome \in Undone]_vars
  BY UndoneStep
<1> QED BY <1>1, <1>2, <1>3, PTL DEF Spec, NeverReconfirmed

(* A confirmed change is never recorded as reverted.  A power cut that      *)
(* brings the unsynced pending.json back does break this.                   *)
THEOREM ConfirmedKept == ASSUME "powercut" \notin Faults PROVE Spec => ConfirmedStays
<1> DEFINE I == TypeInv /\ FreshInv /\ FinalInv
<1>1. Init => I
  BY TypeInit, FreshInit
<1>2. I /\ [Next]_vars => I'
  BY TypeNext, FreshNext, FinalNext
<1>3. I /\ [Next]_vars =>
        [\A i \in Id : hist[i].outcome = "confirmed" => hist'[i].outcome = "confirmed"]_vars
  BY ConfirmedStep
<1> QED BY <1>1, <1>2, <1>3, PTL DEF Spec, ConfirmedStays


(***************************************************************************)
(* Self-healing resumes.                                                   *)
(***************************************************************************)
(* Control points between saving and clearing the marker of an apply under way. *)
Middle(mode, pc) ==
    \/ /\ mode = "apply"
       /\ pc \in {"mark", "arm", "down", "splice", "up", "nft", "save", "clear"}
    \/ /\ mode = "undo"
       /\ pc \in {"stop", "unmark", "down", "splice", "up", "nft", "clear"}
    \/ /\ mode = "revert"
       /\ pc \in {"down", "splice", "up", "nft", "safe", "save", "outcome", "clear"}

(* The marker that pauses self-healing is there only between the two. *)
HealInv == applying # NoFile => Middle(job.mode, job.pc)

(* The hypothesis: the portal and the machine do not crash. After a crash the marker *)
(* stays behind, and only the next apply or boot clears it.                          *)
NoCrash == Faults \cap {"portal", "reboot", "powercut"} = {}

(* A failing step of sdnApplyConfig leads to a point where the marker is still to be *)
(* cleared.                                                                          *)
LEMMA HealFail ==
    ASSUME TypeInv, HealInv, job # NoJob, job.pc \in {"down", "splice", "up", "nft"},
           ApplyFailed, UNCHANGED applying
    PROVE  HealInv'
<1>1. CASE job.mode = "apply"
  <2>1. job'.mode = "undo" /\ job'.pc \in {"stop", "down"}
    BY <1>1 DEF ApplyFailed, Rollback, TypeInv, JobOK, Job
  <2> QED BY <2>1 DEF HealInv, Middle
<1>2. CASE job.mode = "undo"
  <2>1. job'.mode = "undo" /\ job'.pc = "clear"
    BY <1>2 DEF ApplyFailed, Goto, TypeInv, JobOK, Job
  <2> QED BY <2>1 DEF HealInv, Middle
<1>3. CASE job.mode = "revert"
  <2>1. job'.mode = "revert" /\ job'.pc = "safe"
    BY <1>3 DEF ApplyFailed, TypeInv, JobOK, Job
  <2> QED BY <2>1 DEF HealInv, Middle
<1>4. CASE job.mode = "instance"
  BY <1>4 DEF HealInv, Middle
<1> QED BY <1>1, <1>2, <1>3, <1>4 DEF ApplyFailed

(* A step within an operation stays between the two points. *)
LEMMA HealGoto ==
    ASSUME TypeInv, HealInv, NEW pc, Goto(pc), UNCHANGED applying,
           Middle(job.mode, job.pc) => Middle(job.mode, pc)
    PROVE  HealInv'
<1>1. job'.mode = job.mode /\ job'.pc = pc
  BY DEF Goto
<1> QED BY <1>1 DEF HealInv

(* A step from outside the two points finds no marker. *)
LEMMA HealEnds ==
  ASSUME HealInv, UNCHANGED applying, ~Middle(job.mode, job.pc)
  PROVE  HealInv'
  BY DEF HealInv

(* Every step of the lock holder keeps HealInv. *)
LEMMA HealStep == ASSUME TypeInv, FreshInv, FinalInv, HealInv, JobStep PROVE HealInv'
<1>1. CASE InstallUnit \/ SaveEnabled \/ EnableCheck \/ SaveRevertPoint \/ AddSnapshot
           \/ PreSDNDown \/ PreSDNInterfaces \/ DeleteTable \/ SDNRemoveUnit
           \/ SaveDisabled \/ ResaveConfirmed
  <2>1. UNCHANGED applying /\ ~Middle(job.mode, job.pc)
    BY <1>1 DEF InstallUnit, SaveEnabled, EnableCheck, SaveRevertPoint, AddSnapshot,
       PreSDNDown, PreSDNInterfaces, DeleteTable, SDNRemoveUnit, SaveDisabled,
       ResaveConfirmed, At, Middle, disk
  <2> QED BY <2>1, HealEnds
<1>2. CASE SaveApplying
  <2>1. job.mode = "apply" /\ job.pc = "applying"
    BY <1>2 DEF SaveApplying, At, FinalInv, EarlyPC
  <2>2. CASE Goto(IF job.auto THEN "mark" ELSE "down")
    <3>1. job'.mode = "apply" /\ job'.pc \in {"mark", "down"}
      BY <2>1, <2>2 DEF Goto
    <3> QED BY <3>1 DEF HealInv, Middle
  <2>3. CASE UNCHANGED applying
    BY <2>1, <2>3, HealEnds DEF Middle
  <2> QED BY <1>2, <2>2, <2>3 DEF SaveApplying
<1>3. CASE WritePending
  <2>1. CASE Goto("arm")
    BY <1>3, <2>1, HealGoto DEF WritePending, At, Middle
  <2>2. CASE NotArmed
    <3>1. job'.mode = "undo" /\ job'.pc = "clear"
      BY <2>2 DEF NotArmed
    <3> QED BY <3>1 DEF HealInv, Middle
  <2> QED BY <1>3, <2>1, <2>2 DEF WritePending
<1>4. CASE ArmRevert
  <2>1. CASE Goto("down")
    BY <1>4, <2>1, HealGoto DEF ArmRevert, Middle
  <2>2. CASE NotArmed
    <3>1. job'.mode = "undo" /\ job'.pc = "clear"
      BY <2>2 DEF NotArmed
    <3> QED BY <3>1 DEF HealInv, Middle
  <2> QED BY <1>4, <2>1, <2>2 DEF ArmRevert
<1>5. CASE SaveConfirmed
  <2>1. UNCHANGED applying /\ job.pc = "save"
    BY <1>5 DEF SaveConfirmed, At
  <2>2. CASE job.mode = "apply"
    <3>1. (job'.mode = "apply" /\ job'.pc = "clear") \/ (job'.mode = "undo"
          /\ job'.pc \in {"stop", "down"})
      BY <1>5, <2>2 DEF SaveConfirmed, Goto, Rollback, TypeInv, JobOK, Job
    <3> QED BY <3>1 DEF HealInv, Middle
  <2>3. CASE job.mode = "revert"
    BY <1>5, <2>3, HealGoto DEF SaveConfirmed, Middle
  <2>4. CASE job.mode = "instance"
    BY <2>1, <2>4, HealEnds DEF Middle
  <2> QED BY <1>5, <2>2, <2>3, <2>4 DEF SaveConfirmed
<1>6. CASE ClearApplying
  BY <1>6 DEF ClearApplying, HealInv
<1>7. CASE IfDown
  BY <1>7, HealGoto, HealFail DEF IfDown, At, Middle, disk
<1>8. CASE SpliceOwned
  BY <1>8, HealGoto, HealFail DEF SpliceOwned, AfterSplice, At, Middle
<1>9. CASE IfUp
  BY <1>9, HealGoto, HealFail DEF IfUp, At, Middle, disk
<1>10. CASE LoadRuleset
  BY <1>10, HealGoto, HealFail DEF LoadRuleset, AfterNft, At, Middle, disk
<1>11. CASE StopService
  BY <1>11, HealGoto DEF StopService, At, Middle, disk
<1>12. CASE LoadTarget
  <2>1. job.mode = "revert" /\ job.pc = "load"
    BY <1>12 DEF LoadTarget, At, FreshInv, FinalInv
  <2>2. CASE UNCHANGED applying
    BY <2>1, <2>2, HealEnds DEF Middle
  <2>3. CASE job' = [job EXCEPT !.from = RevertFrom, !.to = revert, !.pc = "down"]
    <3>1. job'.mode = "revert" /\ job'.pc = "down"
      BY <2>1, <2>3
    <3> QED BY <3>1 DEF HealInv, Middle
  <2> QED BY <1>12, <2>2, <2>3 DEF LoadTarget
<1>13. CASE RevertSafeMode
  BY <1>13, HealGoto DEF RevertSafeMode, At, Middle, disk
<1>14. CASE SetOutcome
  <2>1. UNCHANGED applying /\ job.pc = "outcome"
    BY <1>14 DEF SetOutcome, At
  <2>2. CASE job.op = "confirm"
    BY <2>1, <2>2, HealEnds DEF FreshInv, Middle
  <2>3. CASE job.op # "confirm"
    BY <1>14, <2>3, HealGoto DEF SetOutcome, Middle
  <2> QED BY <2>2, <2>3
<1>15. CASE RemovePending
  <2>1. UNCHANGED applying /\ job.pc = "unmark"
    BY <1>15 DEF RemovePending, At
  <2>2. CASE job.mode = "undo"
    BY <1>15, <2>2, HealGoto DEF RemovePending, Middle
  <2>3. CASE job.mode # "undo"
    BY <2>1, <2>3, HealEnds DEF Middle
  <2> QED BY <2>2, <2>3
<1> QED BY <1>1, <1>2, <1>3, <1>4, <1>5, <1>6, <1>7, <1>8, <1>9, <1>10, <1>11, <1>12, <1>13,
           <1>14, <1>15 DEF JobStep

(* Without crashes the system stays up. *)
LEMMA StaysUp == ASSUME NoCrash, phase = "up", [Next]_vars PROVE phase' = "up"
<1>1. CASE Request
  BY <1>1 DEF Request, HandleSDNApply, HandleSDNRestore, HandleSDNEnable, BeginApply,
     HandleSDNDisable, HandleSDNConfirm, HandleSDNRevertNow, InstanceForwardsActive,
     SDNInstanceChange, others
<1>2. CASE JobStep
  BY <1>2 DEF JobStep, InstallUnit, SaveEnabled, EnableCheck, SaveRevertPoint, SaveApplying,
     WritePending, ArmRevert, SaveConfirmed, ClearApplying, AddSnapshot, IfDown,
     SpliceOwned, IfUp, LoadRuleset, StopService, LoadTarget, RevertSafeMode, SetOutcome,
     RemovePending, PreSDNDown, PreSDNInterfaces, DeleteTable, SDNRemoveUnit, SaveDisabled,
     ResaveConfirmed, others
<1>3. CASE Background \/ Crash \/ Flush \/ UNCHANGED vars
  BY <1>3 DEF NoCrash, Background, RevertServiceFires, SDNBoot, NetworkUp, RefreshUnit,
     RefreshRead, RefreshLoad, Crash, PortalCrash, Reboot, PowerCut, Flush, vars, others
<1> QED BY <1>1, <1>2, <1>3 DEF Next

(* Nobody else touches the marker. *)
LEMMA HealOther ==
    ASSUME NoCrash, phase = "up", HealInv,
           Request \/ Background \/ Crash \/ Flush \/ UNCHANGED vars
    PROVE  HealInv'
<1>1. UNCHANGED applying
  BY DEF NoCrash, Request, HandleSDNApply, HandleSDNRestore, HandleSDNEnable, BeginApply,
     HandleSDNDisable, HandleSDNConfirm, HandleSDNRevertNow, InstanceForwardsActive,
     SDNInstanceChange, Background, RevertServiceFires, SDNBoot, NetworkUp, RefreshUnit,
     RefreshRead, RefreshLoad, Crash, PortalCrash, Reboot, PowerCut, Flush, vars, disk
<1>2. job' = job \/ job = NoJob
  BY DEF NoCrash, Request, HandleSDNApply, HandleSDNRestore, HandleSDNEnable,
     HandleSDNDisable, HandleSDNConfirm, HandleSDNRevertNow, InstanceForwardsActive,
     SDNInstanceChange, PortalFree, Background, RevertServiceFires, SDNBoot, NetworkUp,
     RefreshUnit, RefreshRead, RefreshLoad, Crash, PortalCrash, Reboot, PowerCut, Flush,
     vars
<1>3. CASE job' = job
  BY <1>1, <1>3 DEF HealInv
<1>4. CASE job = NoJob
  BY <1>1, <1>4, HealEnds DEF NoJob, Middle
<1> QED BY <1>2, <1>3, <1>4

(* Every step keeps HealInv. *)
LEMMA HealNext ==
  ASSUME NoCrash, phase = "up", TypeInv, FreshInv, FinalInv, HealInv, [Next]_vars
  PROVE  HealInv'
  BY HealStep, HealOther DEF Next

(* Without a crash self-healing is never left paused: when no operation is under way the *)
(* marker it waits for is gone, whichever step failed (sdnApplyConfig, sdnRevert and     *)
(* their deferred ClearApplying).                                                        *)
THEOREM HealingAlwaysResumes == ASSUME NoCrash PROVE Spec => []HealingResumes
<1> DEFINE I == phase = "up" /\ TypeInv /\ FreshInv /\ FinalInv /\ HealInv
<1>1. Init => I
  BY TypeInit, FreshInit DEF Init, HealInv
<1>2. I /\ [Next]_vars => I'
  BY StaysUp, TypeNext, FreshNext, FinalNext, HealNext DEF NoCrash
<1>3. I => HealingResumes
  BY DEF HealInv, HealingResumes, AtRest, Middle, NoJob
<1> QED BY <1>1, <1>2, <1>3, PTL DEF Spec

(***************************************************************************)
(* The settled state.                                                      *)
(***************************************************************************)
(* The hypothesis of the results below: a rule set may fail to load, the timer to arm and *)
(* any write but that of config.json to be made, nothing else goes wrong; neither         *)
(* instance forwards nor the refresh run, and no history entry is restored, since         *)
(* restoring does not ask whether the firewall is enabled.                                *)
Calm == Faults \subseteq {"nft", "write", "arm"} /\ Ops \cap {"restore", "instance", "refresh"} = {}

(* The rules of configuration c, or those of safe mode. *)
SafeOr(c) == IF safemode THEN Safe ELSE c

(* No trace of the firewall. *)
Clean == rules = Off /\ links = {} /\ ifaces = PreSDN

(* Everything is as configuration c wants it. *)
Runs(c) == ifaces = c /\ links = Owned[c] /\ rules = SafeOr(c)

(* The kernel and the files agree with state.json and config.json. *)
Settled == IF enabled THEN config \in Config /\ Runs(config) ELSE Clean

(* The steps of sdnApply, and those of returning to the time before the firewall. *)
SDNApplyPCs == {"down", "splice", "up", "nft", "clear"}
PreSDNPCs   == {"predown", "preifaces", "prerules", "preunit", "prestate"}

(* Which control points each operation reaches, and when the firewall is enabled there. *)
ShapeInv ==
    /\ phase = "up" /\ refresh = "none" /\ ~inst /\ job.who # "boot"
    /\ job # NoJob =>
       \/ /\ job.op \in {"apply", "enable"} /\ job.mode = "apply"
          /\ job.pc \in EarlyPC \cup {"arm", "save", "record"} \cup SDNApplyPCs
          /\ IF job.op = "apply" THEN enabled /\ job.pc \notin Unchecked
             ELSE /\ job.auto /\ job.from = Default
                  /\ job.pc \notin {"unit", "state"} => enabled
       \/ /\ job.op = "apply" /\ job.mode = "undo" /\ enabled
          /\ job.pc \in {"stop", "unmark"} \cup SDNApplyPCs
       \/ /\ job.op = "enable" /\ job.mode = "undo"
          /\ job.pc \in {"stop", "unmark", "resave"} \cup SDNApplyPCs \cup PreSDNPCs
       \/ /\ job.op = "revert" /\ job.mode = "revert"
          /\ job.pc \in {"stop", "load", "safe", "save", "outcome", "unmark"}
                         \cup SDNApplyPCs \cup PreSDNPCs
          /\ job.pc \in {"down", "splice", "up", "nft", "safe", "save"} => enabled
       \/ /\ job.op = "confirm" /\ job.mode = "confirm" /\ enabled
          /\ job.pc \in {"stop", "unmark", "outcome"}
       \/ /\ job.op = "disable" /\ job.mode = "disable" /\ job.pc \in PreSDNPCs

(* A marker comes with a revert point; an operation that finds the firewall disabled *)
(* finds no marker.                                                                  *)
MarkerInv ==
    /\ pending # NoMark => revert \in Config
    /\ job # NoJob /\ job.pc \in {"applying", "mark"} => revert \in Config
    /\ job.op \in {"none", "revert"} /\ job.pc \in {"check", "stop", "load"} /\ ~enabled =>
         pending = NoMark
    /\ job.op = "disable" => pending = NoMark
    /\ job # NoJob /\ job.mode = "apply" /\ job.pc \in EarlyPC => pending = NoMark
    /\ job.op = "enable" /\ job.mode = "undo" /\ job.pc \notin {"stop", "unmark"} =>
         pending = NoMark

(* The interfaces file that an operation starts from: enabling starts from the one before *)
(* the firewall.                                                                          *)
BaseFile == IF job.op = "enable" /\ job.mode = "apply" THEN PreSDN ELSE job.from

(* Control points before the links are touched, and those of an undo. *)
AtBase ==
    \/ job.pc \in EarlyPC \cup {"arm", "down"}
    \/ job.mode = "undo" /\ job.pc \in {"stop", "unmark"}

(* The links and the interfaces file, step by step. *)
LinkInv ==
    job # NoJob =>
      /\ AtBase => ifaces = BaseFile /\ links = Owned[job.from]
      /\ job.pc = "splice" =>
           ifaces = BaseFile /\ links = Owned[job.from] \cap Owned[job.to]
      /\ job.pc = "up" => ifaces = job.to /\ links = Owned[job.from] \cap Owned[job.to]
      /\ job.pc \in {"nft", "safe", "save"} => ifaces = job.to /\ links = Owned[job.to]
      /\ job.pc = "predown" \/ (job.op = "enable" /\ job.mode = "undo"
         /\ job.pc = "clear") =>
           links = OwnedIn(ifaces)
      /\ job.pc = "preifaces" => links = {}
      /\ job.pc = "prerules" => links = {} /\ ifaces = PreSDN
      /\ job.pc \in {"preunit", "prestate"} => Clean
      /\ job.pc = "resave" => Clean /\ ~enabled

(* Control points at which everything agrees. *)
AtDone ==
    \/ job = NoJob \/ job.op = "confirm"
    \/ job.op = "revert" /\ job.pc \in {"stop", "load"}
    \/ job.pc \in {"record", "outcome"}
    \/ job.pc = "clear" /\ ~(job.op = "enable" /\ job.mode = "undo")
    \/ job.pc = "unmark" /\ job.mode # "undo"

(* Settled where an operation is done or has not begun; before that the rules are still *)
(* the old ones, or already the new ones.                                               *)
KernelInv ==
    /\ AtDone => Settled
    /\ /\ job # NoJob /\ job.op = "apply" /\ job.mode = "apply"
       /\ job.pc \notin {"save", "clear", "record"}
       => config = job.from /\ rules = SafeOr(job.from)
    /\ job.op = "apply" /\ job.mode = "undo" /\ job.pc # "clear" =>
         config = job.to /\ rules = SafeOr(job.to)
    /\ job # NoJob /\ job.pc = "save" => rules = SafeOr(job.to)
    /\ job.op = "enable" /\ job.pc \in {"unit", "state"} => ~enabled /\ rules = Off

(* The inductive invariant. *)
SInv == ShapeInv /\ MarkerInv /\ LinkInv /\ KernelInv

(* The operation goes on. *)
SameJob == /\ job' # NoJob /\ job'.op = job.op /\ job'.mode = job.mode
/\ job'.auto = job.auto
           /\ job'.from = job.from /\ job'.to = job.to /\ job'.who = job.who

(* An operation under way has a name. *)
LEMMA Busy == ASSUME SInv, job # NoJob PROVE job.op # "none"
  BY DEF SInv, ShapeInv

(* Goto keeps the operation. *)
LEMMA GotoSame ==
  ASSUME TypeInv, SInv, job # NoJob, NEW pc, Goto(pc)
  PROVE  SameJob /\ job'.pc = pc
  BY Busy DEF Goto, NoJob, SameJob

(* A revert goes on with its outcome after it has returned to the time before the *)
(* firewall.                                                                      *)
LEMMA ReturnReverts == ASSUME TypeInv, NEW f, job.op = "revert", PreSDNReturns(f)
   PROVE job' # NoJob /\ job'.op = "revert" /\ job'.mode = job.mode /\ job'.who = job.who
   /\ job'.pc = "outcome"
<1>1. job' = [job EXCEPT !.pc = "outcome", !.err = f]
  BY DEF PreSDNReturns
<1> QED BY <1>1 DEF TypeInv, JobOK, Job, NoJob

(***************************************************************************)
(* The steps of the operations.                                            *)
(***************************************************************************)
(* What a step of an operation that only fails leaves alone. *)
untouched == <<enabled, config, pending, ifaces, links, rules, safemode, phase, refresh, inst>>

(* An enable that fails before the firewall is enabled leaves nothing behind. *)
LEMMA SettledNotEnabled ==
    ASSUME TypeInv, SInv, job # NoJob, job.pc \in {"unit", "state"}, Unlock,
           UNCHANGED <<untouched, revert>>
    PROVE  SInv'
<1>1. job.op = "enable" /\ job.mode = "apply" /\ job' = NoJob /\ job.from = Default
  BY DEF SInv, ShapeInv, Unchecked, SDNApplyPCs, PreSDNPCs, Unlock
<1>2. Clean /\ ~enabled /\ pending = NoMark
  BY <1>1, ConfigAssumption DEF SInv, LinkInv, KernelInv, MarkerInv, AtBase, BaseFile,
     Clean, EarlyPC
<1>3. ShapeInv' /\ MarkerInv' /\ LinkInv'
  BY <1>1, <1>2 DEF SInv, ShapeInv, MarkerInv, LinkInv, untouched, NoJob
<1>4. KernelInv'
  BY <1>1, <1>2 DEF KernelInv, Settled, Clean, untouched, NoJob
<1> QED BY <1>3, <1>4 DEF SInv

(* sdnApplyConfig fails before it has armed or touched anything: an enable is undone, an *)
(* apply lets the lock go with everything as it was.                                     *)
LEMMA SettledNotStarted ==
    ASSUME TypeInv, SInv, job # NoJob, job.pc \in {"check", "revertpoint", "applying"},
           NotStarted, UNCHANGED <<untouched, revert>>
    PROVE  SInv'
<1>1. job.op \in {"apply", "enable"} /\ job.mode = "apply"
  BY DEF SInv, ShapeInv, SDNApplyPCs, PreSDNPCs
<1>2. CASE job.op = "enable"
  <2>1. job' # NoJob /\ job'.op = "enable" /\ job'.mode = "undo" /\ job'.who = job.who
        /\ job'.pc = "predown"
    <3>1. job' = [job EXCEPT !.mode = "undo", !.pc = "predown"]
      BY <1>2 DEF NotStarted
    <3> QED BY <1>2, <3>1 DEF TypeInv, JobOK, Job, NoJob
  <2>2. ShapeInv'
    BY <1>1, <1>2, <2>1 DEF SInv, ShapeInv, PreSDNPCs, untouched
  <2>3. MarkerInv'
    BY <1>1, <1>2, <2>1 DEF SInv, MarkerInv, EarlyPC, untouched
  <2>4. LinkInv'
    BY <1>1, <1>2, <2>1, SpecialAssumption, ConfigAssumption DEF SInv, LinkInv,
       ShapeInv, AtBase, BaseFile, OwnedIn, EarlyPC, untouched
  <2>5. KernelInv'
    BY <2>1 DEF KernelInv, AtDone
  <2> QED BY <2>2, <2>3, <2>4, <2>5 DEF SInv
<1>3. CASE job.op = "apply"
  <2>1. job' = NoJob
    BY <1>3 DEF NotStarted, Unlock
  <2>2. enabled /\ config = job.from /\ job.from \in Config /\ Runs(job.from)
    BY <1>1, <1>3, JobFields DEF SInv, ShapeInv, KernelInv, LinkInv, AtBase, BaseFile,
       EarlyPC, Runs, TypeInv
  <2>3. ShapeInv' /\ MarkerInv' /\ LinkInv'
    BY <2>1, <2>2 DEF SInv, ShapeInv, MarkerInv, LinkInv, untouched, NoJob
  <2>4. KernelInv'
    BY <2>1, <2>2 DEF KernelInv, Settled, Runs, SafeOr, untouched, NoJob
  <2> QED BY <2>3, <2>4 DEF SInv
<1> QED BY <1>1, <1>2, <1>3

(* The timer could not be armed, or its marker not written. *)
LEMMA SettledNotArmed ==
    ASSUME TypeInv, SInv, job # NoJob, job.pc \in {"mark", "arm"}, NotArmed, pending' = NoMark,
           UNCHANGED <<enabled, config, ifaces, links, rules, safemode, phase, refresh, inst>>
    PROVE  SInv'
<1>1. job.op \in {"apply", "enable"} /\ job.mode = "apply"
  BY DEF SInv, ShapeInv, SDNApplyPCs, PreSDNPCs
<1>2. job' # NoJob /\ job'.op = job.op /\ job'.mode = "undo" /\ job'.who = job.who
      /\ job'.pc = "clear" /\ job'.from = job.from /\ job'.to = job.to
  BY DEF NotArmed, TypeInv, JobOK, Job, NoJob
<1>3. ShapeInv'
  BY <1>1, <1>2 DEF SInv, ShapeInv, SDNApplyPCs
<1>4. MarkerInv'
  BY <1>2 DEF MarkerInv
<1>5. LinkInv'
  BY <1>1, <1>2, SpecialAssumption, ConfigAssumption DEF SInv, LinkInv,
     ShapeInv, AtBase, BaseFile, OwnedIn, EarlyPC
<1>6. KernelInv'
  BY <1>1, <1>2, JobFields DEF TypeInv, SInv, ShapeInv, KernelInv, LinkInv,
     AtDone, Settled, Runs, SafeOr, BaseFile, AtBase, EarlyPC
<1> QED BY <1>3, <1>4, <1>5, <1>6 DEF SInv

(* One lemma per step of an operation. Enabling: installing the unit. *)
LEMMA SettledInstallUnit == ASSUME Calm, TypeInv, SInv, InstallUnit PROVE SInv'
<1>1. job # NoJob /\ job.pc = "unit"
  BY DEF InstallUnit, At
<1>2. job.op = "enable" /\ job.mode = "apply"
  BY <1>1 DEF SInv, ShapeInv, Unchecked, SDNApplyPCs, PreSDNPCs
<1>3. CASE Goto("state")
  <2>1. SameJob /\ job'.pc = "state"
    BY <1>1, <1>3, GotoSame DEF InstallUnit
  <2>2. UNCHANGED <<enabled, config, pending, revert, ifaces, links, rules, safemode, phase,
           refresh, inst>>
    BY DEF InstallUnit, marker, kernel, others
  <2>3. ShapeInv'
    BY <1>1, <1>2, <2>1, <2>2 DEF SInv, ShapeInv, SameJob, EarlyPC
  <2>4. MarkerInv'
    BY <1>1, <1>2, <2>1, <2>2 DEF SInv, MarkerInv, EarlyPC
  <2>5. LinkInv'
    BY <1>1, <2>1, <2>2 DEF SInv, LinkInv, AtBase, BaseFile, SameJob, EarlyPC
  <2>6. KernelInv'
    BY <1>1, <1>2, <2>1, <2>2 DEF SInv, KernelInv, AtDone, SameJob
  <2> QED BY <2>3, <2>4, <2>5, <2>6 DEF SInv
<1>4. CASE Unlock
  BY <1>1, <1>4, SettledNotEnabled DEF InstallUnit, untouched, marker, kernel, others
<1> QED BY <1>3, <1>4 DEF InstallUnit

(* Enabling: state.json. *)
LEMMA SettledSaveEnabled == ASSUME Calm, TypeInv, SInv, SaveEnabled PROVE SInv'
<1>1. job # NoJob /\ job.pc = "state"
  BY DEF SaveEnabled, At
<1>2. job.op = "enable" /\ job.mode = "apply"
  BY <1>1 DEF SInv, ShapeInv, Unchecked, SDNApplyPCs, PreSDNPCs
<1>3. CASE enabled' /\ Goto("check")
  <2>1. SameJob /\ job'.pc = "check"
    BY <1>1, <1>3, GotoSame DEF SaveEnabled
  <2>2. UNCHANGED <<config, pending, revert, ifaces, links, rules, safemode, phase, refresh,
           inst>> /\ enabled'
    BY <1>3 DEF SaveEnabled, marker, kernel, others
  <2>3. ShapeInv'
    BY <1>1, <1>2, <2>1, <2>2 DEF SInv, ShapeInv, SameJob, EarlyPC
  <2>4. MarkerInv'
    BY <1>1, <1>2, <2>1, <2>2 DEF SInv, MarkerInv, EarlyPC
  <2>5. LinkInv'
    BY <1>1, <2>1, <2>2 DEF SInv, LinkInv, AtBase, BaseFile, SameJob, EarlyPC
  <2>6. KernelInv'
    BY <1>2, <2>1 DEF KernelInv, AtDone, SameJob
  <2> QED BY <2>3, <2>4, <2>5, <2>6 DEF SInv
<1>4. CASE Unlock /\ enabled' = enabled
  BY <1>1, <1>4, SettledNotEnabled DEF SaveEnabled, untouched, marker, kernel, others
<1> QED BY <1>3, <1>4 DEF SaveEnabled

(* Enabling: the check that may still stop it. *)
LEMMA SettledEnableCheck == ASSUME Calm, TypeInv, SInv, EnableCheck PROVE SInv'
<1>1. job # NoJob /\ job.pc = "check"
  BY DEF EnableCheck, At
<1>2. job.op = "enable" /\ job.mode = "apply"
  BY <1>1 DEF SInv, ShapeInv, Unchecked, SDNApplyPCs, PreSDNPCs
<1>3. CASE Goto("revertpoint")
  <2>1. SameJob /\ job'.pc = "revertpoint"
  BY <1>3, <1>1, GotoSame
  <2>2. UNCHANGED <<enabled, config, pending, revert, ifaces, links, rules, safemode, phase,
           refresh, inst>>
    BY DEF EnableCheck, feature, marker, disk, kernel, others
  <2>3. ShapeInv'
    BY <1>1, <1>2, <2>1, <2>2 DEF SInv, ShapeInv, SameJob, EarlyPC
  <2>4. MarkerInv'
    BY <1>1, <1>2, <2>1, <2>2 DEF SInv, MarkerInv, EarlyPC
  <2>5. LinkInv'
    BY <1>1, <2>1, <2>2 DEF SInv, LinkInv, AtBase, BaseFile, SameJob, EarlyPC
  <2>6. KernelInv'
    BY <1>2, <2>1 DEF KernelInv, AtDone, SameJob
  <2> QED BY <2>3, <2>4, <2>5, <2>6 DEF SInv
<1>4. CASE NotStarted
  BY <1>1, <1>4, SettledNotStarted DEF EnableCheck, untouched, feature, marker, disk, kernel,
     others
<1> QED BY <1>3, <1>4 DEF EnableCheck

(* sdnApplyConfig: the revert point. *)
LEMMA SettledSaveRevertPoint == ASSUME Calm, TypeInv, SInv, SaveRevertPoint PROVE SInv'
<1>1. job # NoJob /\ job.pc = "revertpoint"
  BY DEF SaveRevertPoint, At
<1>2. job.op \in {"apply", "enable"} /\ job.mode = "apply"
  BY <1>1 DEF SInv, ShapeInv, SDNApplyPCs, PreSDNPCs
<1>3. CASE revert' = job.from /\ Goto("applying")
  <2>1. SameJob /\ job'.pc = "applying"
    BY <1>1, <1>3, GotoSame DEF SaveRevertPoint
  <2>2. UNCHANGED <<enabled, config, pending, ifaces, links, rules, safemode, phase, refresh,
           inst>> /\ revert' \in Config
    BY <1>3 DEF SaveRevertPoint, feature, marker, kernel, others, TypeInv, JobOK, Job
  <2>3. ShapeInv'
    BY <1>1, <1>2, <2>1, <2>2 DEF SInv, ShapeInv, SameJob, EarlyPC, Unchecked
  <2>4. MarkerInv'
    BY <1>1, <2>1, <2>2 DEF SInv, MarkerInv, SameJob, EarlyPC
  <2>5. LinkInv'
    BY <1>1, <2>1, <2>2 DEF SInv, LinkInv, AtBase, BaseFile, SameJob, EarlyPC
  <2>6. KernelInv'
    BY <1>1, <1>2, <2>1, <2>2 DEF SInv, KernelInv, AtDone, SafeOr, SameJob
  <2> QED BY <2>3, <2>4, <2>5, <2>6 DEF SInv
<1>4. CASE NotStarted /\ revert' = revert
  BY <1>1, <1>4, SettledNotStarted DEF SaveRevertPoint, untouched, feature, marker, kernel, others
<1> QED BY <1>3, <1>4 DEF SaveRevertPoint

(* sdnApplyConfig: the marker that pauses self-healing. *)
LEMMA SettledSaveApplying == ASSUME Calm, TypeInv, SInv, SaveApplying PROVE SInv'
<1>1. job # NoJob /\ job.pc = "applying"
  BY DEF SaveApplying, At
<1>2. job.op \in {"apply", "enable"} /\ job.mode = "apply"
  BY <1>1 DEF SInv, ShapeInv, SDNApplyPCs, PreSDNPCs
<1>3. CASE Goto(IF job.auto THEN "mark" ELSE "down")
  <2>1. SameJob /\ job'.pc = IF job.auto THEN "mark" ELSE "down"
    BY <1>1, <1>3, GotoSame DEF SaveApplying
  <2>2. UNCHANGED <<enabled, config, pending, revert, ifaces, links, rules, safemode, phase,
           refresh, inst>>
    BY DEF SaveApplying, feature, marker, kernel, others
  <2>3. ShapeInv'
    BY <1>1, <1>2, <2>1, <2>2 DEF SInv, ShapeInv, SameJob, EarlyPC, Unchecked, SDNApplyPCs
  <2>4. MarkerInv'
    BY <1>1, <2>1, <2>2 DEF SInv, MarkerInv, SameJob, EarlyPC
  <2>5. LinkInv'
    BY <1>1, <2>1, <2>2 DEF SInv, LinkInv, AtBase, BaseFile, SameJob, EarlyPC
  <2>6. KernelInv'
    BY <1>1, <1>2, <2>1, <2>2 DEF SInv, KernelInv, AtDone, SafeOr, SameJob
  <2> QED BY <2>3, <2>4, <2>5, <2>6 DEF SInv
<1>4. CASE NotStarted
  BY <1>1, <1>4, SettledNotStarted DEF SaveApplying, untouched, feature, marker, kernel, others
<1> QED BY <1>3, <1>4 DEF SaveApplying

(* sdnApplyConfig: pending.json. *)
LEMMA SettledWritePending == ASSUME Calm, TypeInv, SInv, WritePending PROVE SInv'
<1>1. job # NoJob /\ job.pc = "mark"
  BY DEF WritePending, At
<1>2. job.op \in {"apply", "enable"} /\ job.mode = "apply"
  BY <1>1 DEF SInv, ShapeInv, SDNApplyPCs, PreSDNPCs
<1>3. CASE Goto("arm")
  <2>1. SameJob /\ job'.pc = "arm"
    BY <1>1, <1>3, GotoSame DEF WritePending
  <2>2. UNCHANGED <<enabled, config, revert, ifaces, links, rules, safemode, phase, refresh,
           inst>>
    BY DEF WritePending, feature, kernel, others
  <2>3. ShapeInv'
    BY <1>1, <1>2, <2>1, <2>2 DEF SInv, ShapeInv, SameJob, Unchecked
  <2>4. MarkerInv'
    BY <1>1, <1>2, <2>1, <2>2 DEF SInv, MarkerInv, SameJob, EarlyPC
  <2>5. LinkInv'
    BY <1>1, <2>1, <2>2 DEF SInv, LinkInv, AtBase, BaseFile, SameJob, EarlyPC
  <2>6. KernelInv'
    BY <1>1, <1>2, <2>1, <2>2 DEF SInv, KernelInv, AtDone, SafeOr, SameJob
  <2> QED BY <2>3, <2>4, <2>5, <2>6 DEF SInv
<1>4. CASE NotArmed /\ UNCHANGED marker
  <2>1. pending = NoMark
    BY <1>1, <1>2 DEF SInv, MarkerInv, EarlyPC
  <2> QED BY <1>1, <1>4, <2>1, SettledNotArmed DEF WritePending, feature, marker, kernel, others
<1> QED BY <1>3, <1>4 DEF WritePending

(* sdnApplyConfig: the timer, which may fail to arm. *)
LEMMA SettledArmRevert == ASSUME Calm, TypeInv, SInv, ArmRevert PROVE SInv'
<1>1. job # NoJob /\ job.pc = "arm"
  BY DEF ArmRevert, At
<1>2. job.op \in {"apply", "enable"} /\ job.mode = "apply"
  BY <1>1 DEF SInv, ShapeInv, SDNApplyPCs, PreSDNPCs
<1>3. CASE Goto("down") /\ UNCHANGED marker
  <2>1. SameJob /\ job'.pc = "down"
  BY <1>3, <1>1, GotoSame
  <2>2. UNCHANGED <<enabled, config, pending, revert, ifaces, links, rules, safemode, phase,
           refresh, inst>>
    BY <1>3 DEF ArmRevert, feature, marker, kernel
  <2>3. ShapeInv'
    BY <1>1, <1>2, <2>1, <2>2 DEF SInv, ShapeInv, SameJob, Unchecked, SDNApplyPCs
  <2>4. MarkerInv'
    BY <1>1, <2>1, <2>2 DEF SInv, MarkerInv, SameJob, EarlyPC
  <2>5. LinkInv'
    BY <1>1, <2>1, <2>2 DEF SInv, LinkInv, AtBase, BaseFile, SameJob
  <2>6. KernelInv'
    BY <1>1, <1>2, <2>1, <2>2 DEF SInv, KernelInv, AtDone, SafeOr, SameJob
  <2> QED BY <2>3, <2>4, <2>5, <2>6 DEF SInv
<1>4. CASE SetMark(NoMark) /\ NotArmed
  BY <1>1, <1>4, SettledNotArmed DEF ArmRevert, SetMark, feature, kernel
<1> QED BY <1>3, <1>4 DEF ArmRevert

(* config.json of an apply and of a revert. *)
LEMMA SettledSaveConfirmed == ASSUME Calm, TypeInv, SInv, SaveConfirmed PROVE SInv'
<1>1. job # NoJob /\ job.pc = "save"
  BY DEF SaveConfirmed, At
<1>2. job.op \in {"apply", "enable", "revert"}
      /\ job.mode = IF job.op = "revert" THEN "revert" ELSE "apply"
  BY <1>1 DEF SInv, ShapeInv, SDNApplyPCs, PreSDNPCs
<1>3. SameJob /\ job'.pc = IF job.mode = "apply" THEN "clear" ELSE "outcome"
  BY <1>1, <1>2, GotoSame DEF SaveConfirmed, Calm
<1>4. UNCHANGED <<enabled, pending, revert, ifaces, links, rules, safemode, phase, refresh,
         inst>> /\ config' = job.to /\ job.to \in Config
  BY DEF SaveConfirmed, Calm, feature, marker, kernel, others, TypeInv, JobOK, Job
<1>5. ShapeInv'
  BY <1>1, <1>2, <1>3, <1>4 DEF SInv, ShapeInv, SameJob, Unchecked, SDNApplyPCs
<1>6. MarkerInv'
  BY <1>1, <1>3, <1>4 DEF SInv, MarkerInv, SameJob, EarlyPC
<1>7. LinkInv'
  BY <1>1, <1>3, <1>4 DEF SInv, LinkInv, AtBase, OwnedIn, EarlyPC
<1>8. KernelInv'
  BY <1>1, <1>2, <1>3, <1>4 DEF SInv, ShapeInv, KernelInv, LinkInv, Settled, Runs, SafeOr,
     SameJob
<1> QED BY <1>5, <1>6, <1>7, <1>8 DEF SInv

(* The end of an apply, of an undo and of a revert. *)
LEMMA SettledClearApplying == ASSUME Calm, TypeInv, SInv, ClearApplying PROVE SInv'
<1>1. job # NoJob /\ job.pc = "clear"
  BY DEF ClearApplying, At
<1>2. job.op \in {"apply", "enable", "revert"} /\ (job.op = "revert" => job.mode = "revert")
  BY <1>1 DEF SInv, ShapeInv, PreSDNPCs
<1>3. CASE job.mode = "apply" /\ Goto("record")
  <2>1. SameJob /\ job'.pc = "record"
  BY <1>3, <1>1, GotoSame
  <2>2. UNCHANGED <<enabled, config, pending, revert, ifaces, links, rules, safemode, phase,
           refresh, inst>>
    BY DEF ClearApplying, feature, marker, kernel, others
  <2>3. ShapeInv'
    BY <1>3, <1>1, <2>1, <2>2 DEF SInv, ShapeInv, SameJob, Unchecked
  <2>4. MarkerInv'
    BY <1>3, <2>1, <2>2 DEF SInv, MarkerInv, SameJob, EarlyPC
  <2>5. LinkInv'
    BY <2>1 DEF LinkInv, AtBase, EarlyPC
  <2>6. KernelInv'
    BY <1>3, <1>1, <2>1, <2>2 DEF SInv, ShapeInv, KernelInv, AtDone, Settled, Runs, SafeOr,
       SameJob
  <2> QED BY <2>3, <2>4, <2>5, <2>6 DEF SInv
<1>4. CASE job.mode = "revert" /\ Goto("unmark")
  <2>1. SameJob /\ job'.pc = "unmark"
  BY <1>4, <1>1, GotoSame
  <2>2. UNCHANGED <<enabled, config, pending, revert, ifaces, links, rules, safemode, phase,
           refresh, inst>>
    BY DEF ClearApplying, feature, marker, kernel, others
  <2>3. ShapeInv'
    BY <1>4, <1>1, <2>1, <2>2 DEF SInv, ShapeInv, SameJob
  <2>4. MarkerInv'
    BY <1>4, <2>1, <2>2 DEF SInv, MarkerInv, SameJob
  <2>5. LinkInv'
    BY <1>4, <2>1 DEF LinkInv, AtBase, SameJob, EarlyPC
  <2>6. KernelInv'
    BY <1>4, <1>1, <2>1, <2>2 DEF SInv, KernelInv, AtDone, Settled, Runs, SafeOr, Clean,
       SameJob
  <2> QED BY <2>3, <2>4, <2>5, <2>6 DEF SInv
<1>5. CASE job.mode = "undo" /\ job.op = "enable" /\ Goto("predown")
  <2>1. SameJob /\ job'.pc = "predown"
  BY <1>5, <1>1, GotoSame
  <2>2. UNCHANGED <<enabled, config, pending, revert, ifaces, links, rules, safemode, phase,
           refresh, inst>>
    BY DEF ClearApplying, feature, marker, kernel, others
  <2>3. ShapeInv'
    BY <1>5, <2>1, <2>2 DEF SInv, ShapeInv, SameJob, PreSDNPCs
  <2>4. MarkerInv'
    BY <1>5, <1>1, <2>1, <2>2 DEF SInv, MarkerInv
  <2>5. LinkInv'
    BY <1>5, <1>1, <2>1, <2>2 DEF SInv, LinkInv, AtBase, EarlyPC
  <2>6. KernelInv'
    BY <1>5, <2>1 DEF KernelInv, AtDone, SameJob
  <2> QED BY <2>3, <2>4, <2>5, <2>6 DEF SInv
<1>6. CASE job.mode = "undo" /\ job.op # "enable" /\ Unlock
  <2>1. job' = NoJob /\ job.op = "apply"
  BY <1>6, <1>2 DEF Unlock
  <2>2. UNCHANGED <<enabled, config, pending, revert, ifaces, links, rules, safemode, phase,
           refresh, inst>>
    BY DEF ClearApplying, feature, marker, kernel, others
  <2>3. ShapeInv'
    BY <2>1, <2>2 DEF SInv, ShapeInv, NoJob
  <2>4. MarkerInv'
    BY <2>1, <2>2 DEF SInv, ShapeInv, MarkerInv, NoJob
  <2>5. LinkInv'
    BY <2>1 DEF LinkInv
  <2>6. KernelInv'
    BY <1>1, <2>1, <2>2 DEF SInv, ShapeInv, KernelInv, AtDone, Settled, Runs, SafeOr, NoJob
  <2> QED BY <2>3, <2>4, <2>5, <2>6 DEF SInv
<1> QED BY <1>3, <1>4, <1>5, <1>6 DEF ClearApplying

(* The history entry of an apply. *)
LEMMA SettledAddSnapshot == ASSUME Calm, TypeInv, SInv, AddSnapshot PROVE SInv'
<1>1. job # NoJob /\ job.pc = "record"
  BY DEF AddSnapshot, At
<1>2. job.op \in {"apply", "enable"} /\ job.mode = "apply"
  BY <1>1 DEF SInv, ShapeInv, SDNApplyPCs, PreSDNPCs
<1>3. job' = NoJob
  BY DEF AddSnapshot, Unlock
<1>4. UNCHANGED <<enabled, config, pending, revert, ifaces, links, rules, safemode, phase,
         refresh, inst>>
  BY DEF AddSnapshot, feature, marker, kernel, others
<1>5. ShapeInv'
  BY <1>3, <1>4 DEF SInv, ShapeInv, NoJob
<1>6. MarkerInv'
  BY <1>1, <1>2, <1>3, <1>4 DEF SInv, ShapeInv, MarkerInv, NoJob
<1>7. LinkInv'
  BY <1>3 DEF LinkInv
<1>8. KernelInv'
  BY <1>1, <1>2, <1>3, <1>4 DEF SInv, ShapeInv, KernelInv, AtDone, Settled, Runs, SafeOr,
     NoJob
<1> QED BY <1>5, <1>6, <1>7, <1>8 DEF SInv

(* Stopping the timer. *)
LEMMA SettledStopService == ASSUME Calm, TypeInv, SInv, StopService PROVE SInv'
<1>1. job # NoJob /\ job.pc = "stop"
  BY DEF StopService, At
<1>2. job.mode \in {"undo", "revert", "confirm"}
  BY <1>1 DEF SInv, ShapeInv, EarlyPC, SDNApplyPCs, PreSDNPCs
<1>3. CASE job.mode = "revert"
  <2>1. SameJob /\ job'.pc = "load"
  BY <1>3, <1>1, GotoSame DEF StopService
  <2>2. UNCHANGED <<enabled, config, pending, revert, ifaces, links, rules, safemode, phase,
           refresh, inst>>
    BY DEF StopService, feature, marker, disk, kernel
  <2>3. ShapeInv'
    BY <1>3, <1>1, <2>1, <2>2 DEF SInv, ShapeInv, SameJob
  <2>4. MarkerInv'
    BY <1>3, <1>1, <2>1, <2>2 DEF SInv, MarkerInv, SameJob
  <2>5. LinkInv'
    BY <2>1 DEF LinkInv, AtBase, EarlyPC
  <2>6. KernelInv'
    BY <1>1, <2>1, <2>2 DEF SInv, KernelInv, AtDone, Settled, Runs, SafeOr, Clean, SameJob
  <2> QED BY <2>3, <2>4, <2>5, <2>6 DEF SInv
<1>4. CASE job.mode # "revert"
  <2>1. SameJob /\ job'.pc = "unmark"
  BY <1>4, <1>1, GotoSame DEF StopService
  <2>2. UNCHANGED <<enabled, config, pending, revert, ifaces, links, rules, safemode, phase,
           refresh, inst>>
    BY DEF StopService, feature, marker, disk, kernel
  <2>3. ShapeInv'
    BY <1>1, <1>2, <2>1, <2>2 DEF SInv, ShapeInv, SameJob
  <2>4. MarkerInv'
    BY <1>2, <2>1, <2>2 DEF SInv, MarkerInv, SameJob
  <2>5. LinkInv'
    BY <1>1, <2>1, <2>2 DEF SInv, LinkInv, AtBase, BaseFile, SameJob, EarlyPC
  <2>6. KernelInv'
    BY <1>4, <1>1, <1>2, <2>1, <2>2 DEF SInv, ShapeInv, KernelInv, AtDone, Settled, Runs,
       SafeOr, SameJob
  <2> QED BY <2>3, <2>4, <2>5, <2>6 DEF SInv
<1> QED BY <1>3, <1>4

(* The outcome of a revert and of a confirmation. *)
LEMMA SettledSetOutcome == ASSUME Calm, TypeInv, SInv, SetOutcome PROVE SInv'
<1>1. job # NoJob /\ job.pc = "outcome"
  BY DEF SetOutcome, At
<1>2. job.op \in {"revert", "confirm"} /\ job.mode = job.op
  BY <1>1 DEF SInv, ShapeInv, EarlyPC, SDNApplyPCs, PreSDNPCs
<1>3. CASE job.op = "confirm"
  <2>1. job' = NoJob
  BY <1>3 DEF SetOutcome, Unlock
  <2>2. UNCHANGED <<enabled, config, pending, revert, ifaces, links, rules, safemode, phase,
           refresh, inst>>
    BY DEF SetOutcome, feature, marker, kernel, others
  <2>3. ShapeInv'
    BY <2>1, <2>2 DEF SInv, ShapeInv, NoJob
  <2>4. MarkerInv'
    BY <1>3, <2>1, <2>2 DEF SInv, ShapeInv, MarkerInv, NoJob
  <2>5. LinkInv'
    BY <2>1 DEF LinkInv
  <2>6. KernelInv'
    BY <1>3, <2>1, <2>2 DEF SInv, ShapeInv, KernelInv, AtDone, Settled, Runs, SafeOr, NoJob
  <2> QED BY <2>3, <2>4, <2>5, <2>6 DEF SInv
<1>4. CASE job.op # "confirm"
  <2>1. SameJob /\ job'.pc = "clear"
  BY <1>4, <1>1, GotoSame DEF SetOutcome
  <2>2. UNCHANGED <<enabled, config, pending, revert, ifaces, links, rules, safemode, phase,
           refresh, inst>>
    BY DEF SetOutcome, feature, marker, kernel, others
  <2>3. ShapeInv'
    BY <1>4, <1>2, <2>1, <2>2 DEF SInv, ShapeInv, SameJob, SDNApplyPCs
  <2>4. MarkerInv'
    BY <1>2, <2>1, <2>2 DEF SInv, MarkerInv, SameJob
  <2>5. LinkInv'
    BY <1>2, <2>1 DEF LinkInv, AtBase, SameJob, EarlyPC
  <2>6. KernelInv'
    BY <1>1, <2>1, <2>2 DEF SInv, KernelInv, AtDone, Settled, Runs, SafeOr, Clean
  <2> QED BY <2>3, <2>4, <2>5, <2>6 DEF SInv
<1> QED BY <1>3, <1>4

(* sdnApply: links that change are taken down. *)
LEMMA SettledIfDown == ASSUME Calm, TypeInv, SInv, IfDown PROVE SInv'
<1>1. job # NoJob /\ job.pc = "down"
  BY DEF IfDown, At
<1>2. job.op \in {"apply", "enable", "revert"}
  BY <1>1 DEF SInv, ShapeInv, PreSDNPCs
<1>3. SameJob /\ job'.pc = "splice"
  BY <1>1, GotoSame DEF IfDown, Calm
<1>4. UNCHANGED <<enabled, config, pending, revert, ifaces, rules, safemode, phase, refresh,
         inst>> /\ links' = Owned[job.from] \cap Owned[job.to]
  BY <1>1 DEF IfDown, Calm, feature, marker, disk, others, SInv, LinkInv, AtBase
<1>5. ShapeInv'
  BY <1>1, <1>2, <1>3, <1>4 DEF SInv, ShapeInv, SameJob, Unchecked, SDNApplyPCs
<1>6. MarkerInv'
  BY <1>1, <1>3, <1>4 DEF SInv, MarkerInv, SameJob, EarlyPC
<1>7. LinkInv'
  BY <1>1, <1>3, <1>4 DEF SInv, LinkInv, AtBase, BaseFile, SameJob, EarlyPC
<1>8. KernelInv'
  BY <1>1, <1>2, <1>3, <1>4 DEF SInv, KernelInv, AtDone, SafeOr, SameJob
<1> QED BY <1>5, <1>6, <1>7, <1>8 DEF SInv

(* sdnApply: the interfaces file. *)
LEMMA SettledSpliceOwned == ASSUME Calm, TypeInv, SInv, SpliceOwned PROVE SInv'
<1>1. job # NoJob /\ job.pc = "splice"
  BY DEF SpliceOwned, At
<1>2. job.op \in {"apply", "enable", "revert"} /\ job.who # "boot"
  BY <1>1 DEF SInv, ShapeInv, PreSDNPCs
<1>3. SameJob /\ job'.pc = "up"
  BY <1>1, <1>2, GotoSame DEF SpliceOwned, Calm, AfterSplice
<1>4. UNCHANGED <<enabled, config, pending, revert, links, rules, safemode, phase, refresh,
         inst>> /\ ifaces' = job.to
  BY DEF SpliceOwned, Calm, feature, marker, kernel, others
<1>5. ShapeInv'
  BY <1>1, <1>2, <1>3, <1>4 DEF SInv, ShapeInv, SameJob, Unchecked, SDNApplyPCs
<1>6. MarkerInv'
  BY <1>1, <1>3, <1>4 DEF SInv, MarkerInv, SameJob, EarlyPC
<1>7. LinkInv'
  BY <1>1, <1>3, <1>4 DEF SInv, LinkInv, AtBase, SameJob, EarlyPC
<1>8. KernelInv'
  BY <1>1, <1>2, <1>3, <1>4 DEF SInv, KernelInv, AtDone, SafeOr, SameJob
<1> QED BY <1>5, <1>6, <1>7, <1>8 DEF SInv

(* sdnApply: links of the new configuration are brought up. *)
LEMMA SettledIfUp == ASSUME Calm, TypeInv, SInv, IfUp PROVE SInv'
<1>1. job # NoJob /\ job.pc = "up"
  BY DEF IfUp, At
<1>2. job.op \in {"apply", "enable", "revert"}
  BY <1>1 DEF SInv, ShapeInv, PreSDNPCs
<1>3. SameJob /\ job'.pc = "nft"
  BY <1>1, GotoSame DEF IfUp, Calm
<1>4. UNCHANGED <<enabled, config, pending, revert, ifaces, rules, safemode, phase, refresh,
         inst>> /\ links' = Owned[job.to]
  <2>1. /\ UNCHANGED <<enabled, config, pending, revert, ifaces, rules, safemode, phase,
              refresh, inst>>
        /\ links' = links \cup ((Owned[job.to] \ Owned[job.from]) \cap OwnedIn(ifaces))
    BY DEF IfUp, Calm, feature, marker, disk, others
  <2>2. ifaces = job.to /\ links = Owned[job.from] \cap Owned[job.to]
    BY <1>1 DEF SInv, LinkInv
  <2>3. job.to \in Config
    BY <1>1, JobFields DEF TypeInv
  <2>4. OwnedIn(ifaces) = Owned[job.to]
    BY <2>2, <2>3, SpecialAssumption DEF OwnedIn
  <2> QED BY <2>1, <2>2, <2>4
<1>5. ShapeInv'
  BY <1>1, <1>2, <1>3, <1>4 DEF SInv, ShapeInv, SameJob, Unchecked, SDNApplyPCs
<1>6. MarkerInv'
  BY <1>1, <1>3, <1>4 DEF SInv, MarkerInv, SameJob, EarlyPC
<1>7. LinkInv'
  BY <1>1, <1>3, <1>4 DEF SInv, LinkInv, AtBase, SameJob, EarlyPC
<1>8. KernelInv'
  BY <1>1, <1>2, <1>3, <1>4 DEF SInv, KernelInv, AtDone, SafeOr, SameJob
<1> QED BY <1>5, <1>6, <1>7, <1>8 DEF SInv

(* A revert whose rules do not load enters safe mode. *)
LEMMA SettledRevertSafeMode == ASSUME Calm, TypeInv, SInv, RevertSafeMode PROVE SInv'
<1>1. job # NoJob /\ job.pc = "safe"
  BY DEF RevertSafeMode, At
<1>2. job.op = "revert" /\ job.mode = "revert"
  BY <1>1 DEF SInv, ShapeInv, EarlyPC, SDNApplyPCs, PreSDNPCs
<1>3. SameJob /\ job'.pc = "save"
  BY <1>1, GotoSame DEF RevertSafeMode
<1>4. UNCHANGED <<enabled, config, pending, revert, ifaces, links, phase, refresh, inst>>
      /\ rules' = Safe /\ safemode'
  BY DEF RevertSafeMode, Calm, EnterSafeMode, feature, marker, disk, others
<1>5. ShapeInv'
  BY <1>1, <1>2, <1>3, <1>4 DEF SInv, ShapeInv, SameJob
<1>6. MarkerInv'
  BY <1>2, <1>3, <1>4 DEF SInv, MarkerInv, SameJob
<1>7. LinkInv'
  BY <1>1, <1>3, <1>4 DEF SInv, LinkInv, AtBase, SameJob, EarlyPC
<1>8. KernelInv'
  BY <1>2, <1>3, <1>4 DEF KernelInv, AtDone, SafeOr, SameJob
<1> QED BY <1>5, <1>6, <1>7, <1>8 DEF SInv

(* Before the firewall: links. *)
LEMMA SettledPreSDNDown == ASSUME Calm, TypeInv, SInv, PreSDNDown PROVE SInv'
<1>1. job # NoJob /\ job.pc = "predown"
  BY DEF PreSDNDown, At
<1>2. job.op \in {"enable", "revert", "disable"}
  BY <1>1 DEF SInv, ShapeInv, EarlyPC, SDNApplyPCs
<1>3. SameJob /\ job'.pc = "preifaces"
  BY <1>1, GotoSame DEF PreSDNDown
<1>4. UNCHANGED <<enabled, config, pending, revert, ifaces, rules, safemode, phase, refresh,
         inst>> /\ links' = {}
  BY <1>1 DEF PreSDNDown, feature, marker, disk, others, SInv, LinkInv
<1>5. ShapeInv'
  BY <1>1, <1>3, <1>4 DEF SInv, ShapeInv, SameJob, EarlyPC, SDNApplyPCs, PreSDNPCs
<1>6. MarkerInv'
  BY <1>1, <1>3, <1>4 DEF SInv, MarkerInv, SameJob, EarlyPC
<1>7. LinkInv'
  BY <1>3, <1>4 DEF LinkInv, AtBase, EarlyPC
<1>8. KernelInv'
  BY <1>2, <1>3 DEF KernelInv, AtDone, SameJob
<1> QED BY <1>5, <1>6, <1>7, <1>8 DEF SInv

(* Before the firewall: the interfaces file. *)
LEMMA SettledPreSDNInterfaces == ASSUME Calm, TypeInv, SInv, PreSDNInterfaces PROVE SInv'
<1>1. job # NoJob /\ job.pc = "preifaces"
  BY DEF PreSDNInterfaces, At
<1>2. job.op \in {"enable", "revert", "disable"}
  BY <1>1 DEF SInv, ShapeInv, EarlyPC, SDNApplyPCs
<1>3. SameJob /\ job'.pc = "prerules"
  BY <1>1, GotoSame DEF PreSDNInterfaces, Calm
<1>4. UNCHANGED <<enabled, config, pending, revert, links, rules, safemode, phase, refresh,
         inst>> /\ ifaces' = PreSDN
  BY DEF PreSDNInterfaces, Calm, feature, marker, kernel, others
<1>5. ShapeInv'
  BY <1>1, <1>3, <1>4 DEF SInv, ShapeInv, SameJob, EarlyPC, SDNApplyPCs, PreSDNPCs
<1>6. MarkerInv'
  BY <1>1, <1>3, <1>4 DEF SInv, MarkerInv, SameJob, EarlyPC
<1>7. LinkInv'
  BY <1>1, <1>3, <1>4 DEF SInv, LinkInv, AtBase, EarlyPC
<1>8. KernelInv'
  BY <1>2, <1>3 DEF KernelInv, AtDone, SameJob
<1> QED BY <1>5, <1>6, <1>7, <1>8 DEF SInv

(* Before the firewall: rules. *)
LEMMA SettledDeleteTable == ASSUME Calm, TypeInv, SInv, DeleteTable PROVE SInv'
<1>1. job # NoJob /\ job.pc = "prerules"
  BY DEF DeleteTable, At
<1>2. job.op \in {"enable", "revert", "disable"}
  BY <1>1 DEF SInv, ShapeInv, EarlyPC, SDNApplyPCs
<1>3. SameJob /\ job'.pc = "preunit"
  BY <1>1, GotoSame DEF DeleteTable
<1>4. UNCHANGED <<enabled, config, pending, revert, ifaces, links, safemode, phase, refresh,
         inst>> /\ rules' = Off
  BY DEF DeleteTable, feature, marker, disk, others
<1>5. ShapeInv'
  BY <1>1, <1>3, <1>4 DEF SInv, ShapeInv, SameJob, EarlyPC, SDNApplyPCs, PreSDNPCs
<1>6. MarkerInv'
  BY <1>1, <1>3, <1>4 DEF SInv, MarkerInv, SameJob, EarlyPC
<1>7. LinkInv'
  BY <1>1, <1>3, <1>4 DEF SInv, LinkInv, AtBase, Clean, EarlyPC
<1>8. KernelInv'
  BY <1>2, <1>3 DEF KernelInv, AtDone, SameJob
<1> QED BY <1>5, <1>6, <1>7, <1>8 DEF SInv

(* Before the firewall: the unit. *)
LEMMA SettledSDNRemoveUnit == ASSUME Calm, TypeInv, SInv, SDNRemoveUnit PROVE SInv'
<1>1. job # NoJob /\ job.pc = "preunit"
  BY DEF SDNRemoveUnit, At
<1>2. job.op \in {"enable", "revert", "disable"}
  BY <1>1 DEF SInv, ShapeInv, EarlyPC, SDNApplyPCs
<1>3. SameJob /\ job'.pc = "prestate"
  BY <1>1, GotoSame DEF SDNRemoveUnit, Calm
<1>4. UNCHANGED <<enabled, config, pending, revert, ifaces, links, rules, safemode, phase,
         refresh, inst>>
  BY DEF SDNRemoveUnit, marker, kernel, others
<1>5. ShapeInv'
  BY <1>1, <1>3, <1>4 DEF SInv, ShapeInv, SameJob, EarlyPC, SDNApplyPCs, PreSDNPCs
<1>6. MarkerInv'
  BY <1>1, <1>3, <1>4 DEF SInv, MarkerInv, SameJob, EarlyPC
<1>7. LinkInv'
  BY <1>1, <1>3, <1>4 DEF SInv, LinkInv, AtBase, Clean, EarlyPC
<1>8. KernelInv'
  BY <1>2, <1>3 DEF KernelInv, AtDone, SameJob
<1> QED BY <1>5, <1>6, <1>7, <1>8 DEF SInv

(* Before the firewall: state.json. *)
LEMMA SettledSaveDisabled == ASSUME Calm, TypeInv, SInv, SaveDisabled PROVE SInv'
<1>1. job # NoJob /\ job.pc = "prestate"
  BY DEF SaveDisabled, At
<1>2. job.op \in {"enable", "revert", "disable"}
      /\ (job.op = "revert" => job.mode = "revert")
  BY <1>1 DEF SInv, ShapeInv, EarlyPC, SDNApplyPCs
<1>3. CASE job.op = "revert"
  <2>1. job' # NoJob /\ job'.op = "revert" /\ job'.mode = "revert" /\ job'.who = job.who
        /\ job'.pc = "outcome"
  BY <1>3, <1>2, ReturnReverts DEF SaveDisabled, Calm
  <2>2. UNCHANGED <<config, pending, revert, ifaces, links, rules, safemode, phase, refresh,
           inst>> /\ ~enabled'
    BY DEF SaveDisabled, Calm, marker, kernel, others
  <2>3. ShapeInv'
    BY <2>1, <2>2 DEF SInv, ShapeInv
  <2>4. MarkerInv'
    BY <2>1, <2>2 DEF SInv, MarkerInv
  <2>5. LinkInv'
    BY <2>1 DEF LinkInv, AtBase, EarlyPC
  <2>6. KernelInv'
    BY <1>1, <2>1, <2>2 DEF SInv, KernelInv, LinkInv, Settled, Clean
  <2> QED BY <2>3, <2>4, <2>5, <2>6 DEF SInv
<1>4. CASE job.op = "enable"
  <2>1. SameJob /\ job'.pc = "resave"
  BY <1>4, <1>1, GotoSame DEF SaveDisabled, PreSDNReturns
  <2>2. UNCHANGED <<config, pending, revert, ifaces, links, rules, safemode, phase, refresh,
           inst>> /\ ~enabled'
    BY DEF SaveDisabled, Calm, marker, kernel, others
  <2>3. ShapeInv'
    BY <1>4, <1>1, <2>1, <2>2 DEF SInv, ShapeInv, SameJob, EarlyPC, SDNApplyPCs
  <2>4. MarkerInv'
    BY <1>1, <2>1, <2>2 DEF SInv, MarkerInv, SameJob, EarlyPC
  <2>5. LinkInv'
    BY <1>1, <2>1, <2>2 DEF SInv, LinkInv, AtBase, Clean, EarlyPC
  <2>6. KernelInv'
    BY <1>4, <2>1 DEF KernelInv, AtDone, SameJob
  <2> QED BY <2>3, <2>4, <2>5, <2>6 DEF SInv
<1>5. CASE job.op = "disable"
  <2>1. job' = NoJob
  BY <1>5 DEF SaveDisabled, Unlock, PreSDNReturns
  <2>2. UNCHANGED <<config, pending, revert, ifaces, links, rules, safemode, phase, refresh,
           inst>> /\ ~enabled'
    BY DEF SaveDisabled, Calm, marker, kernel, others
  <2>3. ShapeInv'
    BY <2>1, <2>2 DEF SInv, ShapeInv, NoJob
  <2>4. MarkerInv'
    BY <1>5, <2>1, <2>2 DEF SInv, MarkerInv
  <2>5. LinkInv'
    BY <2>1 DEF LinkInv
  <2>6. KernelInv'
    BY <1>1, <2>1, <2>2 DEF SInv, KernelInv, LinkInv, Settled, Clean, NoJob
  <2> QED BY <2>3, <2>4, <2>5, <2>6 DEF SInv
<1> QED BY <1>2, <1>3, <1>4, <1>5

(* The undo of enabling saves the configuration again. *)
LEMMA SettledResaveConfirmed == ASSUME Calm, TypeInv, SInv, ResaveConfirmed PROVE SInv'
<1>1. job # NoJob /\ job.pc = "resave"
  BY DEF ResaveConfirmed, At
<1>2. job.op = "enable" /\ job.mode = "undo"
  BY <1>1 DEF SInv, ShapeInv, EarlyPC, SDNApplyPCs, PreSDNPCs
<1>3. job' = NoJob
  BY DEF ResaveConfirmed, Unlock
<1>4. UNCHANGED <<enabled, pending, revert, ifaces, links, rules, safemode, phase, refresh,
         inst>>
  BY DEF ResaveConfirmed, feature, marker, kernel, others
<1>5. ShapeInv'
  BY <1>3, <1>4 DEF SInv, ShapeInv, NoJob
<1>6. MarkerInv'
  BY <1>1, <1>2, <1>3, <1>4 DEF SInv, MarkerInv
<1>7. LinkInv'
  BY <1>3 DEF LinkInv
<1>8. KernelInv'
  BY <1>1, <1>3, <1>4 DEF SInv, KernelInv, LinkInv, Settled, Clean, NoJob
<1> QED BY <1>5, <1>6, <1>7, <1>8 DEF SInv

(* sdnApply: the rules, which may fail to load: an apply turns to undo what it did, a *)
(* revert enters safe mode.                                                           *)
LEMMA SettledLoadRuleset == ASSUME Calm, TypeInv, SInv, LoadRuleset PROVE SInv'
<1>1. job # NoJob /\ job.pc = "nft"
  BY DEF LoadRuleset, At
<1>2. /\ job.op \in {"apply", "enable", "revert"}
         /\ (job.op = "revert" => job.mode = "revert")
      /\ (job.op # "revert" => job.mode \in {"apply", "undo"}) /\ job.from \in Config
         /\ job.to \in Config
  BY <1>1, JobFields DEF SInv, ShapeInv, PreSDNPCs, TypeInv
<1>3. UNCHANGED <<enabled, config, pending, revert, ifaces, links, phase, refresh, inst>>
  BY DEF LoadRuleset, feature, marker, disk, others
<1>4. ifaces = job.to /\ links = Owned[job.to]
  BY <1>1 DEF SInv, LinkInv
<1>5. CASE rules' = job.to /\ ~safemode' /\ Goto(AfterNft)
  <2>1. SameJob /\ job'.pc = IF job.mode = "undo" THEN "clear" ELSE "save"
    BY <1>1, <1>5, GotoSame DEF AfterNft
  <2>2. ShapeInv'
    BY <1>1, <1>2, <1>3, <2>1 DEF SInv, ShapeInv, SameJob, Unchecked, SDNApplyPCs
  <2>3. MarkerInv'
    BY <1>1, <1>3, <2>1 DEF SInv, MarkerInv, SameJob, EarlyPC
  <2>4. LinkInv'
    BY <1>2, <1>3, <1>4, <2>1 DEF LinkInv, SameJob, AtBase, EarlyPC, OwnedIn
  <2>5. KernelInv'
    BY <1>1, <1>2, <1>3, <1>4, <1>5, <2>1 DEF SInv, ShapeInv, KernelInv, AtDone, Settled,
       Runs, SafeOr, SameJob
  <2> QED BY <2>2, <2>3, <2>4, <2>5 DEF SInv
<1>6. CASE UNCHANGED <<rules, safemode>> /\ job.mode = "apply" /\ Rollback
  <2>1. /\ job' # NoJob /\ job'.op = job.op /\ job'.mode = "undo" /\ job'.from = job.to
           /\ job'.to = job.from
        /\ job'.who = job.who /\ job'.pc = (IF job.auto THEN "stop" ELSE "down")
           /\ job'.auto = job.auto
    BY <1>6 DEF Rollback, TypeInv, JobOK, Job, NoJob
  <2>0. job.op = "enable" => job.auto
    BY <1>1, <1>6 DEF SInv, ShapeInv
  <2>2. ShapeInv'
    BY <1>1, <1>3, <1>6, <2>1 DEF SInv, ShapeInv, SDNApplyPCs
  <2>3. MarkerInv'
    BY <1>2, <1>3, <1>6, <2>0, <2>1 DEF SInv, MarkerInv
  <2>4. LinkInv'
    BY <1>3, <1>4, <2>1 DEF LinkInv, BaseFile
  <2>5. KernelInv'
    BY <1>1, <1>2, <1>3, <1>6, <2>1 DEF SInv, KernelInv, AtDone, SafeOr
  <2> QED BY <2>2, <2>3, <2>4, <2>5 DEF SInv
<1>7. CASE UNCHANGED <<rules, safemode>> /\ job.mode = "undo" /\ Goto("clear")
  <2>1. SameJob /\ job'.pc = "clear" /\ job.op # "revert"
    BY <1>1, <1>2, <1>7, GotoSame
  <2>2. ShapeInv'
    BY <1>1, <1>3, <1>7, <2>1 DEF SInv, ShapeInv, SameJob, SDNApplyPCs
  <2>3. MarkerInv'
    BY <1>1, <1>3, <1>7, <2>1 DEF SInv, MarkerInv, SameJob
  <2>4. LinkInv'
    BY <1>2, <1>3, <1>4, <2>1 DEF LinkInv, AtBase, EarlyPC, OwnedIn
  <2>5. KernelInv'
    BY <1>1, <1>2, <1>3, <1>4, <1>7, <2>1 DEF SInv, ShapeInv, KernelInv, AtDone, Settled,
       Runs, SafeOr, SameJob
  <2> QED BY <2>2, <2>3, <2>4, <2>5 DEF SInv
<1>8. CASE UNCHANGED <<rules, safemode>> /\ job.mode = "revert"
           /\ job' = [job EXCEPT !.pc = "safe", !.err = TRUE]
  <2>1. /\ job.op = "revert" /\ job' # NoJob /\ job'.op = "revert" /\ job'.mode = "revert"
           /\ job'.to = job.to /\ job'.from = job.from
        /\ job'.who = job.who /\ job'.pc = "safe"
    BY <1>2, <1>8 DEF TypeInv, JobOK, Job, NoJob
  <2>2. ShapeInv'
    BY <1>1, <1>3, <1>8 DEF SInv, ShapeInv
  <2>3. MarkerInv'
    BY <1>3, <1>8 DEF SInv, MarkerInv
  <2>4. LinkInv'
    BY <1>3, <1>4, <2>1 DEF LinkInv, AtBase, EarlyPC
  <2>5. KernelInv'
    BY <2>1 DEF KernelInv, AtDone
  <2> QED BY <2>2, <2>3, <2>4, <2>5 DEF SInv
<1> QED BY <1>2, <1>5, <1>6, <1>7, <1>8 DEF LoadRuleset, ApplyFailed

(* A revert picks its target; what it starts from is what runs, since no apply is under *)
(* way.                                                                                 *)
LEMMA SettledLoadTarget == ASSUME Calm, TypeInv, HealInv, SInv, LoadTarget PROVE SInv'
<1>1. job # NoJob /\ job.pc = "load"
  BY DEF LoadTarget, At
<1>2. job.op = "revert" /\ job.mode = "revert" /\ Settled /\ job.who # "boot"
  BY <1>1 DEF SInv, ShapeInv, KernelInv, AtDone, EarlyPC, SDNApplyPCs, PreSDNPCs
<1>3. UNCHANGED <<enabled, config, pending, revert, ifaces, links, rules, safemode, phase,
         refresh, inst>>
  BY DEF LoadTarget, feature, marker, kernel, others
<1>4. applying = NoFile
  BY <1>1 DEF HealInv, Middle
<1>5. CASE pending = NoMark /\ job' = NoJob
  <2>1. ShapeInv'
    BY <1>3, <1>5 DEF SInv, ShapeInv, NoJob
  <2>2. MarkerInv' /\ LinkInv'
    BY <1>3, <1>5 DEF MarkerInv, LinkInv
  <2>3. KernelInv'
    BY <1>2, <1>3, <1>5 DEF KernelInv, Settled, Runs, SafeOr, Clean, NoJob
  <2> QED BY <2>1, <2>2, <2>3 DEF SInv
<1>6. CASE pending # NoMark /\ Goto("predown")
  <2>1. SameJob /\ job'.pc = "predown"
    BY <1>1, <1>6, GotoSame
  <2>2. ShapeInv'
    BY <1>2, <1>3, <2>1 DEF SInv, ShapeInv, SameJob, PreSDNPCs
  <2>3. MarkerInv'
    BY <1>2, <1>3, <2>1 DEF SInv, MarkerInv, SameJob
  <2>4. LinkInv'
    BY <1>2, <1>3, <2>1, SpecialAssumption DEF LinkInv, AtBase, EarlyPC, OwnedIn, Settled,
       Runs, Clean
  <2>5. KernelInv'
    BY <1>2, <2>1 DEF KernelInv, AtDone, SameJob
  <2> QED BY <2>2, <2>3, <2>4, <2>5 DEF SInv
<1>7. CASE pending # NoMark
           /\ job' = [job EXCEPT !.from = RevertFrom, !.to = revert, !.pc = "down"]
  <2>1. enabled /\ config \in Config /\ RevertFrom = config /\ revert \in Config
    BY <1>1, <1>2, <1>4, <1>7, SpecialAssumption DEF SInv, MarkerInv, Settled, RevertFrom,
       LoadConfirmed
  <2>2. /\ job' # NoJob /\ job'.op = "revert" /\ job'.mode = "revert" /\ job'.who = job.who
        /\ job'.from = config /\ job'.to = revert /\ job'.pc = "down"
    BY <1>2, <1>7, <2>1 DEF TypeInv, JobOK, Job, NoJob
  <2>3. ShapeInv'
    BY <1>3, <2>1, <2>2 DEF SInv, ShapeInv, SDNApplyPCs
  <2>4. MarkerInv'
    BY <1>3, <2>2 DEF SInv, MarkerInv
  <2>5. LinkInv'
    BY <1>2, <1>3, <2>1, <2>2 DEF LinkInv, BaseFile, Settled, Runs
  <2>6. KernelInv'
    BY <2>2 DEF KernelInv, AtDone
  <2> QED BY <2>3, <2>4, <2>5, <2>6 DEF SInv
<1> QED BY <1>5, <1>6, <1>7, SpecialAssumption DEF LoadTarget, Unlock, SInv, MarkerInv

(* The marker goes. *)
LEMMA SettledRemovePending == ASSUME Calm, TypeInv, SInv, RemovePending PROVE SInv'
<1>1. job # NoJob /\ job.pc = "unmark" /\ pending' = NoMark
  BY DEF RemovePending, At, SetMark
<1>2. job.who # "boot" /\ (job.mode = "revert" => job.op = "revert")
      /\ (job.mode = "confirm" => job.op = "confirm")
      /\ (job.mode = "undo" => job.op \in {"apply", "enable"})
  BY <1>1 DEF SInv, ShapeInv
<1>3. UNCHANGED <<enabled, config, revert, ifaces, links, rules, safemode, phase, refresh,
         inst>>
  BY <1>2 DEF RemovePending, feature, others
<1>4. CASE job.mode = "revert" /\ job' = NoJob
  <2>0. Settled
    BY <1>1, <1>4 DEF SInv, KernelInv, AtDone
  <2>1. ShapeInv'
    BY <1>3, <1>4 DEF SInv, ShapeInv, NoJob
  <2>2. MarkerInv' /\ LinkInv'
    BY <1>1, <1>4 DEF MarkerInv, LinkInv
  <2>3. KernelInv'
    BY <1>3, <1>4, <2>0 DEF KernelInv, Settled, Runs, SafeOr, Clean, NoJob
  <2> QED BY <2>1, <2>2, <2>3 DEF SInv
<1>5. CASE job.mode = "undo" /\ Goto("down")
  <2>1. SameJob /\ job'.pc = "down"
    BY <1>1, <1>5, GotoSame
  <2>2. ShapeInv'
    BY <1>1, <1>3, <1>5, <2>1 DEF SInv, ShapeInv, SameJob, SDNApplyPCs
  <2>3. MarkerInv'
    BY <1>1, <2>1 DEF MarkerInv
  <2>4. LinkInv'
    BY <1>1, <1>3, <1>5, <2>1 DEF SInv, LinkInv, SameJob, AtBase, BaseFile
  <2>5. KernelInv'
    BY <1>1, <1>2, <1>3, <1>5, <2>1 DEF SInv, KernelInv, AtDone, SafeOr, SameJob
  <2> QED BY <2>2, <2>3, <2>4, <2>5 DEF SInv
<1>6. CASE job.mode = "confirm" /\ Goto("outcome")
  <2>1. SameJob /\ job'.pc = "outcome"
    BY <1>1, <1>6, GotoSame
  <2>2. ShapeInv'
    BY <1>1, <1>3, <1>6, <2>1 DEF SInv, ShapeInv, SameJob
  <2>3. MarkerInv'
    BY <1>1, <2>1 DEF MarkerInv
  <2>4. LinkInv'
    BY <2>1 DEF LinkInv, AtBase, EarlyPC
  <2>5. KernelInv'
    BY <1>2, <1>3, <1>6, <2>1 DEF SInv, KernelInv, AtDone, Settled, Runs, SafeOr, Clean,
       SameJob
  <2> QED BY <2>2, <2>3, <2>4, <2>5 DEF SInv
<1> QED BY <1>4, <1>5, <1>6 DEF RemovePending, Unlock

(***************************************************************************)
(* Requests, timer and the theorems.                                       *)
(***************************************************************************)
(* What SInv is about, besides the lock holder. *)
relevant == <<enabled, config, pending, revert, ifaces, links, rules, safemode, phase,
   refresh, inst>>

(* A step that changes none of it keeps SInv. *)
LEMMA SettledIdle == ASSUME SInv, UNCHANGED <<relevant, job>> PROVE SInv'
<1>1. ShapeInv' /\ MarkerInv'
  BY DEF relevant, SInv, ShapeInv, MarkerInv
<1>2. LinkInv' /\ KernelInv'
  BY DEF relevant, SInv, LinkInv, KernelInv, AtBase, BaseFile, Clean, AtDone, Settled, Runs,
     SafeOr
<1> QED BY <1>1, <1>2 DEF SInv

(* What SInv says when nobody holds the lock. *)
LEMMA IdleSettled == ASSUME SInv, job = NoJob PROVE Settled /\ (pending # NoMark => enabled)
  BY DEF SInv, KernelInv, AtDone, MarkerInv, NoJob

(* Disable, revert-now and confirm start from a settled state. *)
LEMMA SettledBegin ==
    ASSUME SInv, job = NoJob, UNCHANGED relevant, NEW who \in {"portal", "service"},
           \/ Begin("disable", who, "disable", "predown") /\ pending = NoMark
           \/ Begin("revert", who, "revert", "stop")
           \/ Begin("revert", who, "revert", "load")
           \/ Begin("confirm", who, "confirm", "stop") /\ pending # NoMark
    PROVE  SInv'
<1>1. /\ job' # NoJob /\ job'.who = who
      /\ \/ /\ job'.op = "disable" /\ job'.mode = "disable" /\ job'.pc = "predown"
            /\ pending = NoMark
         \/ job'.op = "revert" /\ job'.mode = "revert" /\ job'.pc \in {"stop", "load"}
         \/ /\ job'.op = "confirm" /\ job'.mode = "confirm" /\ job'.pc = "stop"
            /\ pending # NoMark
  <2>1. CASE Begin("disable", who, "disable", "predown") /\ pending = NoMark
    BY <2>1 DEF Begin, NoJob
  <2>2. CASE Begin("revert", who, "revert", "stop")
    BY <2>2 DEF Begin, NoJob
  <2>3. CASE Begin("revert", who, "revert", "load")
    BY <2>3 DEF Begin, NoJob
  <2>4. CASE Begin("confirm", who, "confirm", "stop") /\ pending # NoMark
    BY <2>4 DEF Begin, NoJob
  <2> QED BY <2>1, <2>2, <2>3, <2>4
<1>2. ShapeInv'
  BY <1>1, IdleSettled DEF SInv, ShapeInv, relevant, PreSDNPCs
<1>3. MarkerInv'
  BY <1>1, IdleSettled DEF SInv, MarkerInv, relevant
<1>4. LinkInv'
  BY <1>1, IdleSettled, SpecialAssumption DEF LinkInv, relevant, AtBase, EarlyPC, OwnedIn,
     Settled, Runs, Clean
<1>5. KernelInv'
  BY <1>1, IdleSettled DEF KernelInv, relevant, Settled, Runs, SafeOr, Clean
<1> QED BY <1>2, <1>3, <1>4, <1>5 DEF SInv

(* So does an apply. *)
LEMMA SettledApply == ASSUME TypeInv, SInv, NEW c, NEW a, HandleSDNApply(c, a) PROVE SInv'
<1>1. job = NoJob /\ UNCHANGED relevant /\ enabled /\ pending = NoMark
  BY DEF HandleSDNApply, BeginApply, PortalFree, CanApply, relevant, feature, marker,
     kernel, others
<1>2. Settled /\ config # NoFile
  BY <1>1, IdleSettled, SpecialAssumption DEF Settled
<1>3. /\ job' # NoJob /\ job'.op = "apply" /\ job'.mode = "apply" /\ job'.pc = "revertpoint"
      /\ job'.from = config /\ job'.who = "portal"
  BY <1>2 DEF HandleSDNApply, BeginApply, NoJob, LoadConfirmed
<1>4. ShapeInv'
  BY <1>1, <1>3 DEF SInv, ShapeInv, relevant, EarlyPC, Unchecked
<1>5. MarkerInv'
  BY <1>1, <1>3 DEF MarkerInv, relevant
<1>6. LinkInv'
  BY <1>1, <1>2, <1>3 DEF LinkInv, relevant, BaseFile, Settled, Runs
<1>7. KernelInv'
  BY <1>1, <1>2, <1>3 DEF KernelInv, relevant, Settled, Runs, SafeOr
<1> QED BY <1>4, <1>5, <1>6, <1>7 DEF SInv

(* So does enabling. *)
LEMMA SettledEnable ==
    ASSUME TypeInv, SInv, NEW c, HandleSDNEnable(c) PROVE SInv'
<1>1. job = NoJob /\ UNCHANGED relevant /\ ~enabled
  BY DEF HandleSDNEnable, BeginApply, PortalFree, relevant, feature, marker, kernel, others
<1>2. Settled /\ pending = NoMark
  BY <1>1, IdleSettled
<1>3. /\ job' # NoJob /\ job'.op = "enable" /\ job'.mode = "apply" /\ job'.pc = "unit"
      /\ job'.from = Default /\ job'.who = "portal" /\ job'.auto
  BY DEF HandleSDNEnable, BeginApply, NoJob
<1>4. ShapeInv'
  BY <1>1, <1>3 DEF SInv, ShapeInv, relevant, EarlyPC
<1>5. MarkerInv'
  BY <1>1, <1>2, <1>3 DEF MarkerInv, relevant
<1>6. LinkInv'
  BY <1>1, <1>2, <1>3, ConfigAssumption DEF LinkInv, relevant, Settled, Clean
<1>7. KernelInv'
  BY <1>1, <1>2, <1>3 DEF KernelInv, AtDone, relevant, Settled, Clean
<1> QED BY <1>4, <1>5, <1>6, <1>7 DEF SInv

(* Every request keeps SInv. *)
LEMMA SettledRequest == ASSUME Calm, TypeInv, SInv, Request PROVE SInv'
<1>1. CASE HandleSDNDisable \/ HandleSDNConfirm \/ HandleSDNRevertNow
  <2>1. job = NoJob /\ UNCHANGED relevant
    BY <1>1 DEF HandleSDNDisable, HandleSDNConfirm, HandleSDNRevertNow, PortalFree,
       relevant, disk, feature, marker, kernel, others
  <2> QED BY <1>1, <2>1, SettledBegin DEF HandleSDNDisable, HandleSDNConfirm,
             HandleSDNRevertNow
<1> QED BY <1>1, SettledApply, SettledEnable DEF Request, Calm, HandleSDNRestore,
           InstanceForwardsActive, SDNInstanceChange, SInv, ShapeInv

(* So do the timer and the passing of time; nothing else happens. *)
LEMMA SettledOther ==
  ASSUME Calm, TypeInv, SInv, Background \/ Crash \/ Flush \/ UNCHANGED vars
  PROVE  SInv'
<1>0. phase = "up" /\ refresh = "none" /\ refresh \notin Config
  BY SpecialAssumption DEF SInv, ShapeInv
<1>1. CASE RevertServiceFires
  <2>1. job = NoJob /\ UNCHANGED relevant
    BY <1>1 DEF RevertServiceFires, relevant, disk, feature, marker, kernel
  <2>2. UNCHANGED job \/ Begin("revert", "service", "revert", "load")
    BY <1>1 DEF RevertServiceFires
  <2> QED BY <2>1, <2>2, SettledBegin, SettledIdle
<1>2. ~SDNBoot /\ ~NetworkUp /\ ~RefreshUnit /\ ~RefreshRead /\ ~RefreshLoad /\ ~Crash
  BY <1>0 DEF SDNBoot, NetworkUp, RefreshUnit, RefreshRead, RefreshLoad, Crash, PortalCrash,
     Reboot, PowerCut, Calm
<1>3. CASE Flush \/ UNCHANGED vars
  <2>1. UNCHANGED <<relevant, job>>
    BY <1>3 DEF Flush, vars, relevant, disk, feature, marker, kernel, others
  <2> QED BY <2>1, SettledIdle
<1> QED BY <1>1, <1>2, <1>3 DEF Background

(* Every step keeps SInv. *)
LEMMA SettledNext == ASSUME Calm, TypeInv, HealInv, SInv, [Next]_vars PROVE SInv'
<1>1. CASE JobStep
  BY <1>1, SettledInstallUnit, SettledSaveEnabled, SettledEnableCheck,
     SettledSaveRevertPoint, SettledSaveApplying, SettledWritePending, SettledArmRevert,
     SettledSaveConfirmed, SettledClearApplying, SettledAddSnapshot, SettledIfDown,
     SettledSpliceOwned, SettledIfUp, SettledLoadRuleset, SettledStopService,
     SettledLoadTarget, SettledRevertSafeMode, SettledSetOutcome, SettledRemovePending,
     SettledPreSDNDown, SettledPreSDNInterfaces, SettledDeleteTable, SettledSDNRemoveUnit,
     SettledSaveDisabled, SettledResaveConfirmed DEF JobStep
<1> QED BY <1>1, SettledRequest, SettledOther DEF Next

(* SInv holds initially. *)
LEMMA SettledInit == ASSUME Init PROVE SInv
<1>1. job = NoJob /\ phase = "up" /\ refresh = "none" /\ ~inst /\ pending = NoMark
  BY DEF Init
<1>2. Settled
  BY SpecialAssumption DEF Init, Settled, Runs, Clean, SafeOr, OwnedIn
<1>3. ShapeInv /\ MarkerInv
  BY <1>1 DEF ShapeInv, MarkerInv, NoJob
<1>4. LinkInv /\ KernelInv
  BY <1>1, <1>2 DEF LinkInv, KernelInv, NoJob
<1> QED BY <1>3, <1>4 DEF SInv

(* SInv is an invariant. *)
LEMMA CalmInvariant == ASSUME Calm PROVE Spec => [](TypeInv /\ SInv)
<1> DEFINE I == phase = "up" /\ TypeInv /\ FreshInv /\ FinalInv /\ HealInv /\ SInv
<1>0. NoCrash
  BY DEF Calm, NoCrash
<1>1. Init => I
  BY TypeInit, FreshInit, SettledInit DEF Init, HealInv
<1>2. I /\ [Next]_vars => I'
  BY <1>0, StaysUp, TypeNext, FreshNext, FinalNext, HealNext, SettledNext DEF NoCrash
<1>3. I => TypeInv /\ SInv
  OBVIOUS
<1> QED BY <1>1, <1>2, <1>3, PTL DEF Spec

(* Whenever no operation is under way and the firewall is enabled, the rules, the links *)
(* and the interfaces file are those of config.json, whichever rule sets failed to load *)
(* and were rolled back on the way (sdnApplyConfig, sdnRevert, handleSDNEnable).        *)
THEOREM AllSettled == ASSUME Calm PROVE Spec => []SettledAgrees
<1>1. TypeInv /\ SInv => SettledAgrees
  BY DEF SInv, KernelInv, AtDone, Settled, Runs, SafeOr, SettledAgrees, AtRest
<1> QED BY <1>1, CalmInvariant, PTL

(* Whenever no operation is under way and the firewall is disabled, no rule, no link and *)
(* no stanza of it is left, whether it was disabled or its enabling was undone           *)
(* (sdnRestorePreSDN).                                                                   *)
THEOREM DisableCleans == ASSUME Calm PROVE Spec => []DisabledIsClean
<1>1. TypeInv /\ SInv => DisabledIsClean
  BY DEF SInv, KernelInv, AtDone, Settled, Clean, DisabledIsClean, AtRest
<1> QED BY <1>1, CalmInvariant, PTL
=============================================================================
