---------------------- MODULE ApplianceUpgrade_proofs -----------------------
(***************************************************************************)
(* The appliance upgrade for every number of goroutines, versions,         *)
(* requests and faults: while a write goes on the portal says so, "done"   *)
(* means that the stick is whole, only a verified image is written, and no *)
(* reboot an admin asks for or the unit makes finds the stick half         *)
(* written.                                                                *)
(*                                                                         *)
(* The invariant IInv has five parts. Types and OneUpgrade are those of    *)
(* the model. StickFollows ties the stick to the unit, StagedOK says whose *)
(* files are staged at each control point, and Quiet what holds until a    *)
(* write begins behind the back of a request that was already checked:     *)
(* nobody else is under way while the unit writes, a goroutine that gets   *)
(* ready finds the run directory as it left it, rc 0 stands for a whole    *)
(* stick, and the image in hand is good. None of the listed properties is  *)
(* inductive without them.                                                 *)
(***************************************************************************)
EXTENDS ApplianceUpgrade, TLAPS

(* The unit has not written rc yet. *)
Writing == unit.st \in {"script", "dd", "exit0", "exit1"}

(* The stick is being written exactly while dd runs, and holds the version of the unit *)
(* from then until rc is there.                                                        *)
StickFollows ==
  /\ (stick.state = "writing") <=> (unit.st = "dd")
  /\ unit.st = "dd" => stick.ver = unit.ver
  /\ unit.st = "exit0" => stick = [ver |-> unit.ver, state |-> "whole"]

(* Control points at which what is staged is of the version of the goroutine. *)
Past == {"iso", "download", "sum", "verify", "rmlog", "rmrc", "meta", "log", "launch",
   "unlog"}

(* Control points at which the image is known to match its signature. *)
Verified == {"rmlog", "rmrc", "meta", "log", "launch"}

(* One file has the name of the image. *)
OneKind == \A v \in Version : ~(<<v, "good">> \in files /\ <<v, "bad">> \in files)

(* What is staged, and for whom; a download starts where there is no image. *)
StagedOK ==
  /\ OneVersion
  /\ OneKind
  /\ \A w \in Worker :
       /\ worker[w].pc \in Past => \A f \in files : f[1] = worker[w].ver
       /\ worker[w].pc = "download" => Iso(worker[w].ver) = {}
       /\ worker[w].pc \in Verified => <<worker[w].ver, "bad">> \notin files

(* While the unit writes no request is between its check and its effect, the run *)
(* directory belongs to the unit, and every goroutine is past its launch.        *)
Exclusive ==
  Writing =>
    /\ req.pc = "idle" /\ power = "idle"
    /\ run.log /\ run.rc = "" /\ run.meta = unit.ver
    /\ \A w \in Worker : worker[w].pc \in {"idle", "handover", "poll", "poll2"}

(* What startApplianceImageWrite has done so far is still so. *)
Ready(w) ==
  /\ worker[w].pc \in {"meta", "log", "launch"} => run.rc = ""
  /\ worker[w].pc \in {"log", "launch"} => run.meta = worker[w].ver
  /\ worker[w].pc = "launch" => run.log

(* ... for all goroutines. *)
Prepared == \A w \in Worker : Ready(w)

(* rc 0 stands for a stick that holds all of the version in meta. *)
DoneOK == run.rc = "0" => stick = [ver |-> run.meta, state |-> "whole"]

(* The image the unit reads, or has read, is a good one. *)
ImageOK ==
  /\ unit.st = "script" => <<unit.ver, "bad">> \notin files
  /\ unit.st \in {"dd", "exit0"} => unit.good

(* The parts that hold until a write begins behind the back of a request. *)
Quiet == ~raced => Exclusive /\ Prepared /\ DoneOK /\ ImageOK

(* The inductive invariant. *)
IInv == Types /\ OneUpgrade /\ StickFollows /\ StagedOK /\ Quiet

(***************************************************************************)
(* Types                                                                   *)
(***************************************************************************)
(* The types of the records, one by one. *)
WorkerRec == [pc : PC, ver : Version, mode : Modes, cancelled : BOOLEAN]

(* The version a fresh machine runs is a version. *)
LEMMA OneIsVersion == 1 \in Version
  BY UpgradeAssumption DEF Version

(* The records of an idle goroutine and of no request are typed. *)
LEMMA IdleType ==
  Idle \in WorkerRec /\ NoReq \in [pc : {"idle", "checked"}, ver : Version, mode : Modes]
  BY OneIsVersion DEF Idle, NoReq, WorkerRec, PC, Modes

(* Goroutine w is at pc now, with its version; the others are where they were. *)
Moved(w, pc) ==
  /\ worker' \in [Worker -> WorkerRec]
  /\ worker'[w].pc = pc /\ worker'[w].ver = worker[w].ver
     /\ worker'[w].cancelled = worker[w].cancelled
  /\ \A u \in Worker \ {w} : worker'[u] = worker[u]

(* Goroutine w is idle now; the others are where they were. *)
Ended(w) ==
  /\ worker' \in [Worker -> WorkerRec]
  /\ worker'[w] = Idle
  /\ \A u \in Worker \ {w} : worker'[u] = worker[u]

(* Goes moves a goroutine. *)
LEMMA GoesMoved ==
  ASSUME Types, NEW w \in Worker, NEW pc \in PC, Goes(w, pc)
  PROVE  Moved(w, pc)
<1>1. worker \in [Worker -> WorkerRec]
  BY DEF Types, WorkerRec
<1>2. worker[w] \in WorkerRec /\ [worker[w] EXCEPT !.pc = pc] \in WorkerRec
  BY <1>1 DEF WorkerRec
<1>3. worker' = [worker EXCEPT ![w] = [worker[w] EXCEPT !.pc = pc]]
  BY DEF Goes
<1>4. worker'[w] = [worker[w] EXCEPT !.pc = pc]
      /\ \A u \in Worker \ {w} : worker'[u] = worker[u]
  BY <1>1, <1>3
<1>5. worker' \in [Worker -> WorkerRec]
  BY <1>1, <1>2, <1>3
<1> QED BY <1>1, <1>2, <1>4, <1>5 DEF Moved, WorkerRec

(* A goroutine that returns is idle. *)
LEMMA IdleEnded ==
  ASSUME Types, NEW w \in Worker, worker' = [worker EXCEPT ![w] = Idle]
  PROVE  Ended(w)
<1>1. worker \in [Worker -> WorkerRec]
  BY DEF Types, WorkerRec
<1> QED BY <1>1, IdleType DEF Ended

(* failApplianceJob ends the goroutine and the job. *)
LEMMA FailEnded ==
  ASSUME Types, NEW w \in Worker, failApplianceJob(w)
  PROVE  Ended(w) /\ job' = [phase |-> "failed", owner |-> 0]
<1>1. worker' = [worker EXCEPT ![w] = Idle]
  BY DEF failApplianceJob
<1>2. Ended(w)
  BY <1>1, IdleEnded
<1> QED BY <1>2 DEF failApplianceJob

(* A fault stays within the bound on faults. *)
LEMMA FaultBound == ASSUME Types, NEW f, Fault(f) PROVE faults' \in 0..MaxFaults
<1>1. faults \in 0..MaxFaults
  BY DEF Types
<1> QED BY <1>1, UpgradeAssumption DEF Fault

JobRec  == [phase : {"", "downloading", "verifying", "failed"}, owner : Worker \cup {0}]
FileRec == Version \X {"part", "good", "bad", "sum"}
RunRec  == [log : BOOLEAN, rc : {"", "0", "1"}, meta : Version \cup {0}]
UnitRec == [st : {"none", "script", "dd", "exit0", "exit1", "reboot"}, ver : Version,
   mode : Modes, good : BOOLEAN]
StickRec == [ver : Version, state : {"whole", "writing", "broken"}]
ReqRec  == [pc : {"idle", "checked"}, ver : Version, mode : Modes]

(* Types, part by part. *)
LEMMA Parts ==
  Types <=>
  /\ latest \in Version /\ img \in Version /\ up \in BOOLEAN /\ raced \in BOOLEAN
  /\ stick \in StickRec /\ files \subseteq FileRec /\ job \in JobRec
     /\ worker \in [Worker -> WorkerRec]
  /\ req \in ReqRec /\ power \in {"idle", "checked"} /\ run \in RunRec /\ unit \in UnitRec
  /\ applies \in 0..MaxApplies /\ cancels \in 0..MaxCancels /\ faults \in 0..MaxFaults
  BY DEF Types, StickRec, FileRec, JobRec, WorkerRec, ReqRec, RunRec, UnitRec

(* A step of a goroutine *)
LEMMA WorkerTypes ==
  ASSUME Types, UNCHANGED <<world, stick, req, power, applies, cancels>>,
         worker' \in [Worker -> WorkerRec],
         job' \in JobRec, files' \subseteq FileRec, run' \in RunRec, unit' \in UnitRec,
            raced' \in BOOLEAN,
         faults' \in 0..MaxFaults
  PROVE  Types'
  BY DEF Types, StickRec, FileRec, JobRec, WorkerRec, ReqRec, RunRec, UnitRec, world

(* The values variables are reset to are typed. *)
LEMMA Consts ==
  NoJob \in JobRec /\ NoRun \in RunRec /\ NoUnit \in UnitRec /\ NoReq \in ReqRec
  /\ Idle \in WorkerRec
           /\ [phase |-> "failed", owner |-> 0] \in JobRec
  BY OneIsVersion DEF NoJob, JobRec, NoRun, RunRec, NoUnit, UnitRec, NoReq, ReqRec, Idle,
     WorkerRec, Modes, PC

(* The initial state is typed. *)
LEMMA InitTypes == ASSUME Init PROVE Types
<1>1. stick \in StickRec /\ worker \in [Worker -> WorkerRec]
  BY OneIsVersion, Consts DEF Init, StickRec
<1>2. applies \in 0..MaxApplies /\ cancels \in 0..MaxCancels /\ faults \in 0..MaxFaults
  BY UpgradeAssumption DEF Init
<1> QED BY <1>1, <1>2, OneIsVersion, Consts, Parts DEF Init

(***************************************************************************)
(* Moves of a goroutine                                                    *)
(***************************************************************************)
(* The job that failApplianceJob leaves. *)
Failed  == [phase |-> "failed", owner |-> 0]

(* Control points after the hand-over, where there may be any number of goroutines. *)
Resting == {"idle", "poll", "poll2"}

(* Control points before the unit is started. *)
Early   == {"stage"} \cup Past

(* The goroutine before its hand-over is the only one, and the job names it. *)
LEMMA Alone ==
  ASSUME OneUpgrade, NEW w \in Worker, worker[w].pc \notin Resting
  PROVE  job.phase \in Active /\ job.owner = w
         /\ \A u \in Worker \ {w} : worker[u].pc \in Resting
  BY DEF OneUpgrade, Resting

(* OneUpgrade survives a move of the goroutine the job names. *)
LEMMA OneMoved ==
  ASSUME OneUpgrade, NEW w \in Worker, worker[w].pc \notin Resting, NEW pc, Moved(w, pc),
         job' = job \/ (job'.owner = job.owner /\ job'.phase = "verifying")
  PROVE  OneUpgrade'
  BY Alone DEF OneUpgrade, Moved, Resting, Active

(* OneUpgrade survives its end. *)
LEMMA OneEnded ==
  ASSUME OneUpgrade, NEW w \in Worker, worker[w].pc \notin Resting,
         Ended(w) \/ Moved(w, "poll")
  PROVE  OneUpgrade'
  BY Alone DEF OneUpgrade, Ended, Moved, Resting, Idle

(* StagedOK survives a move, given the facts that the new control point calls for. *)
LEMMA StagedMoved ==
  ASSUME OneUpgrade, StagedOK, NEW w \in Worker, worker[w].pc \notin Resting, NEW pc,
         Moved(w, pc),
         \A f \in files' : f[1] = worker[w].ver, OneKind',
         pc = "download" => (Iso(worker[w].ver))' = {},
         pc \in Verified => <<worker[w].ver, "bad">> \notin files'
  PROVE  StagedOK'
<1>1. OneVersion'
  BY DEF OneVersion
<1>2. \A u \in Worker \ {w} : worker'[u].pc \in Resting
  BY Alone DEF Moved
<1>3. worker'[w].pc = pc /\ worker'[w].ver = worker[w].ver
  BY DEF Moved
<1>4. ASSUME NEW u \in Worker
      PROVE  /\ worker'[u].pc \in Past => \A f \in files' : f[1] = worker'[u].ver
             /\ worker'[u].pc = "download" => (Iso(worker[u].ver))' = {}
             /\ worker'[u].pc \in Verified => <<worker'[u].ver, "bad">> \notin files'
  <2>1. CASE u = w
    BY <1>3, <2>1 DEF Iso
  <2>2. CASE u # w
    BY <1>2, <2>2 DEF Resting, Past, Verified
  <2> QED BY <2>1, <2>2
<1> QED BY <1>1, <1>4 DEF StagedOK

(* StagedOK survives the end of a goroutine that adds no file. *)
LEMMA StagedEnded ==
  ASSUME OneUpgrade, StagedOK, NEW w \in Worker, worker[w].pc \notin Resting, Ended(w),
         files' \subseteq files
  PROVE  StagedOK'
<1>1. OneVersion' /\ OneKind'
  BY DEF StagedOK, OneVersion, OneKind
<1>2. \A u \in Worker : worker'[u].pc \in Resting
  BY Alone DEF Ended, Idle, Resting
<1>3. \A u \in Worker : worker'[u].pc \notin Past \cup {"download"} \cup Verified
  BY <1>2 DEF Resting, Past, Verified
<1> QED BY <1>1, <1>3 DEF StagedOK

(* StickFollows is about the stick and the unit only. *)
LEMMA StickSame == ASSUME StickFollows, UNCHANGED <<stick, unit>> PROVE StickFollows'
  BY DEF StickFollows

(* While a goroutine is before its launch the unit does not write. *)
LEMMA NotWriting ==
  ASSUME Quiet, ~raced, NEW w \in Worker, worker[w].pc \in Early PROVE ~Writing
  BY DEF Quiet, Exclusive, Early, Past

(* Quiet survives a step before the launch that keeps rc 0 true and the goroutine ready. *)
LEMMA QuietEarly ==
  ASSUME OneUpgrade, Quiet, NEW w \in Worker, worker[w].pc \in Early, NEW pc, Moved(w,
         pc) \/ Ended(w),
         UNCHANGED <<stick, unit, raced>>,
         ~raced => Ready(w)' /\ (run'.rc = "0" => run.rc = "0" /\ run'.meta = run.meta)
  PROVE  Quiet'
<1> SUFFICES ASSUME ~raced PROVE Exclusive' /\ Prepared' /\ DoneOK' /\ ImageOK'
  BY DEF Quiet
<1>1. ~Writing'
  BY NotWriting DEF Writing
<1>2. Exclusive' /\ ImageOK'
  BY <1>1 DEF Exclusive, ImageOK, Writing
<1>3. \A u \in Worker \ {w} : worker'[u].pc \in Resting
  BY Alone DEF Moved, Ended, Early, Past, Resting
<1>4. Prepared'
  BY <1>3 DEF Prepared, Ready, Resting
<1>5. DoneOK'
  BY DEF Quiet, DoneOK
<1> QED BY <1>2, <1>4, <1>5

(* An idle goroutine relies on nothing. *)
LEMMA ReadyIdle == ASSUME NEW w \in Worker, Ended(w) PROVE Ready(w)'
  BY DEF Ended, Idle, Ready

(* Before meta a goroutine relies on nothing in the run directory. *)
LEMMA ReadyEarly ==
  ASSUME NEW w \in Worker, NEW pc, Moved(w, pc), pc \notin {"meta", "log", "launch"}
  PROVE  Ready(w)'
  BY DEF Moved, Ready

(* What no step of a goroutine changes. *)
Quiescent == <<world, stick, req, power, applies, cancels>>

(***************************************************************************)
(* Staging, download and verification                                      *)
(***************************************************************************)
(* A goroutine that fails before its launch keeps the invariant. *)
LEMMA EarlyEnded ==
  ASSUME IInv, NEW w \in Worker, worker[w].pc \in Early, failApplianceJob(w),
         files' \subseteq files,
         UNCHANGED <<Quiescent, unit, raced>>, run' \in {run, [run EXCEPT !.log = FALSE]},
         faults' \in 0..MaxFaults
  PROVE  IInv'
<1>1. Ended(w) /\ job' = Failed
  BY FailEnded DEF IInv, Failed
<1>2. worker[w].pc \notin Resting
  BY DEF Early, Past, Resting
<1>3. run' \in RunRec /\ run'.rc = run.rc /\ run'.meta = run.meta
  BY Parts DEF IInv, RunRec
<1>4. Types'
  <2>1. job' \in JobRec /\ worker' \in [Worker -> WorkerRec] /\ files' \subseteq FileRec
    BY <1>1, Consts, Parts DEF IInv, Ended, Failed
  <2> QED BY <1>3, <2>1, Parts, WorkerTypes DEF IInv, Quiescent
<1>5. OneUpgrade' /\ StagedOK' /\ StickFollows'
  BY <1>1, <1>2, OneEnded, StagedEnded, StickSame DEF IInv, Quiescent
<1>6. Quiet'
  BY <1>1, <1>3, ReadyIdle, QuietEarly DEF IInv, Quiescent
<1> QED BY <1>4, <1>5, <1>6 DEF IInv

(* A goroutine that moves on before its launch keeps it. *)
LEMMA EarlyMoved ==
  ASSUME IInv, NEW w \in Worker, worker[w].pc \in Early, NEW pc \in PC, Goes(w, pc),
         UNCHANGED <<Quiescent, run, unit, raced>>, pc \notin {"meta", "log", "launch"},
         job' = job \/ job' = [job EXCEPT !.phase = "verifying"], faults' \in 0..MaxFaults,
         files' \subseteq FileRec, \A f \in files' : f[1] = worker[w].ver, OneKind',
         pc = "download" => (Iso(worker[w].ver))' = {},
         pc \in Verified => <<worker[w].ver, "bad">> \notin files'
  PROVE  IInv'
<1>1. Moved(w, pc)
  BY GoesMoved DEF IInv
<1>2. worker[w].pc \notin Resting
  BY DEF Early, Past, Resting
<1>3. job' \in JobRec /\ (job' = job \/ (job'.owner = job.owner
      /\ job'.phase = "verifying"))
  BY Parts DEF IInv, JobRec
<1>4. Types'
  <2>1. worker' \in [Worker -> WorkerRec]
    BY <1>1 DEF Moved
  <2> QED BY <1>3, <2>1, Parts, WorkerTypes DEF IInv, Quiescent
<1>5. OneUpgrade'
  BY <1>1, <1>2, <1>3, OneMoved DEF IInv
<1>6. StagedOK' /\ StickFollows'
  BY <1>1, <1>2, StagedMoved, StickSame DEF IInv, Quiescent
<1>7. Quiet'
  BY <1>1, ReadyEarly, QuietEarly DEF IInv, Quiescent
<1> QED BY <1>4, <1>5, <1>6, <1>7 DEF IInv

(* The files of a goroutine that is past Stage are of its version. *)
LEMMA OwnFiles ==
  ASSUME IInv, NEW w \in Worker, worker[w].pc \in Past
  PROVE  /\ files \subseteq FileRec /\ OneKind /\ worker[w].ver \in Version
         /\ \A f \in files : f[1] = worker[w].ver
  BY Parts DEF IInv, StagedOK, WorkerRec

(* runApplianceUpgrade: staging keeps the invariant. *)
LEMMA StageInv == ASSUME IInv, NEW w \in Worker, Stage(w) PROVE IInv'
<1>1. worker[w].pc \in Early /\ UNCHANGED <<Quiescent, run, unit, raced>>
  BY DEF Stage, Early, Quiescent
<1>2. CASE Goes(w, "iso") /\ files' \in {{}, StagedFor(worker[w].ver)}
           /\ UNCHANGED <<job, faults>>
  <2>1. files' \subseteq FileRec /\ OneKind' /\ \A f \in files' : f[1] = worker[w].ver
    BY <1>2, Parts DEF IInv, StagedOK, OneKind, StagedFor
  <2>2. faults' \in 0..MaxFaults
    BY <1>2, Parts DEF IInv
  <2> QED BY <1>1, <1>2, <2>1, <2>2, EarlyMoved DEF PC, Verified
<1>3. CASE Fault("stage") /\ failApplianceJob(w) /\ UNCHANGED files
  BY <1>1, <1>3, FaultBound, EarlyEnded DEF IInv
<1> QED BY <1>2, <1>3 DEF Stage

(* Looking for an image to reuse keeps it. *)
LEMMA FindISOInv == ASSUME IInv, NEW w \in Worker, FindISO(w) PROVE IInv'
<1>1. worker[w].pc \in Early /\ worker[w].pc \in Past
      /\ UNCHANGED <<Quiescent, run, unit, raced>>
  BY DEF FindISO, Early, Past, Quiescent
<1>2. CASE Reuse(w) /\ UNCHANGED <<files, job, faults>>
  <2>1. faults' \in 0..MaxFaults /\ OneKind'
    BY <1>1, <1>2, OwnFiles, Parts DEF IInv, OneKind
  <2> QED BY <1>1, <1>2, <2>1, OwnFiles, EarlyMoved DEF Reuse, PC, Verified
<1>3. CASE Iso(worker[w].ver) = {} /\ Goes(w, "download")
           /\ files' = files \cup {<<worker[w].ver, "part">>}
           /\ UNCHANGED <<job, faults>>
  <2>1. files' \subseteq FileRec /\ \A f \in files' : f[1] = worker[w].ver
    BY <1>1, <1>3, OwnFiles DEF FileRec
  <2>2. OneKind'
    BY <1>1, <1>3, OwnFiles DEF OneKind
  <2>3. worker'[w].ver = worker[w].ver /\ faults' \in 0..MaxFaults
    BY <1>3, GoesMoved, Parts DEF IInv, Moved, PC
  <2>4. (Iso(worker[w].ver))' = {}
    BY <1>3, <2>3 DEF Iso
  <2> QED BY <1>1, <1>3, <2>1, <2>2, <2>3, <2>4, EarlyMoved DEF PC, Verified
<1>4. CASE Fault("stage") /\ failApplianceJob(w) /\ UNCHANGED files
  BY <1>1, <1>4, FaultBound, EarlyEnded DEF IInv
<1> QED BY <1>2, <1>3, <1>4 DEF FindISO

(* The end of a download keeps it, good image or bad. *)
LEMMA DownloadISOInv == ASSUME IInv, NEW w \in Worker, DownloadISO(w) PROVE IInv'
<1>1. /\ worker[w].pc \in Early /\ worker[w].pc \in Past
         /\ UNCHANGED <<Quiescent, run, unit, raced>>
      /\ Iso(worker[w].ver) = {}
  BY DEF DownloadISO, Early, Past, Quiescent, IInv, StagedOK
<1>2. ASSUME NEW kind \in {"good", "bad"}, Goes(w, "sum"), UNCHANGED job,
             faults' \in 0..MaxFaults,
             files' = (files \ {<<worker[w].ver, "part">>}) \cup {<<worker[w].ver, kind>>}
      PROVE  IInv'
  <2>1. files' \subseteq FileRec /\ \A f \in files' : f[1] = worker[w].ver
    BY <1>1, <1>2, OwnFiles DEF FileRec
  <2>2. <<worker[w].ver, "good">> \notin files /\ <<worker[w].ver, "bad">> \notin files
    BY <1>1 DEF Iso
  <2>3. OneKind'
    <3>1. ASSUME NEW v \in Version, <<v, "good">> \in files', <<v, "bad">> \in files'
          PROVE  FALSE
      <4>1. v = worker[w].ver
        BY <2>1, <3>1
      <4> QED BY <1>2, <2>2, <3>1, <4>1
    <3> QED BY <3>1 DEF OneKind
  <2> QED BY <1>1, <1>2, <2>1, <2>3, EarlyMoved DEF PC, Verified
<1>3. CASE failApplianceJob(w) /\ UNCHANGED <<files, faults>>
  <2>1. faults' \in 0..MaxFaults
    BY <1>3, Parts DEF IInv
  <2> QED BY <1>1, <1>3, <2>1, EarlyEnded
<1>4. CASE Goes(w, "sum") /\ UNCHANGED <<job, faults>>
           /\ files' = (files \ {<<worker[w].ver, "part">>}) \cup {<<worker[w].ver,
                 "good">>}
  <2>1. faults' \in 0..MaxFaults
    BY <1>4, Parts DEF IInv
  <2> QED BY <1>2, <1>4, <2>1
<1>5. CASE Goes(w, "sum") /\ UNCHANGED job /\ Fault("bad")
           /\ files' = (files \ {<<worker[w].ver, "part">>}) \cup {<<worker[w].ver, "bad">>}
  <2>1. faults' \in 0..MaxFaults
    BY <1>5, FaultBound DEF IInv
  <2> QED BY <1>2, <1>5, <2>1
<1> QED BY <1>3, <1>4, <1>5 DEF DownloadISO

(* A download that breaks or is cancelled keeps it. *)
LEMMA DownloadFailsInv == ASSUME IInv, NEW w \in Worker, DownloadFails(w) PROVE IInv'
<1>1. worker[w].pc \in Early /\ UNCHANGED <<Quiescent, run, unit, raced>>
      /\ failApplianceJob(w) /\ files' \subseteq files
  BY DEF DownloadFails, Early, Past, Quiescent
<1>2. faults' \in 0..MaxFaults
  BY FaultBound, Parts DEF DownloadFails, IInv
<1> QED BY <1>1, <1>2, EarlyEnded

(* The download of the checksum keeps it. *)
LEMMA DownloadSumInv == ASSUME IInv, NEW w \in Worker, DownloadSum(w) PROVE IInv'
<1>1. /\ worker[w].pc \in Early /\ worker[w].pc \in Past
         /\ UNCHANGED <<Quiescent, run, unit, raced>>
      /\ Goes(w, "verify") /\ job' = [job EXCEPT !.phase = "verifying"]
  BY DEF DownloadSum, Early, Past, Quiescent, bounds
<1>2. faults' \in 0..MaxFaults
  BY Parts DEF DownloadSum, bounds, IInv
<1>3. files' = files \cup {<<worker[w].ver, "sum">>}
  BY DEF DownloadSum
<1>4. files' \subseteq FileRec /\ \A f \in files' : f[1] = worker[w].ver
  BY <1>1, <1>3, OwnFiles DEF FileRec
<1>5. OneKind'
  BY <1>1, <1>3, OwnFiles DEF OneKind
<1> QED BY <1>1, <1>2, <1>4, <1>5, EarlyMoved DEF PC, Verified

(* The verification keeps it; what passes is good. *)
LEMMA VerifyInv == ASSUME IInv, NEW w \in Worker, Verify(w) PROVE IInv'
<1>1. worker[w].pc \in Early /\ worker[w].pc \in Past
      /\ UNCHANGED <<Quiescent, run, unit, raced>>
  BY DEF Verify, Early, Past, Quiescent
<1>2. CASE <<worker[w].ver, "good">> \in files /\ Goes(w, "rmlog")
           /\ UNCHANGED <<files, job, faults>>
  <2>1. faults' \in 0..MaxFaults /\ OneKind' /\ <<worker[w].ver, "bad">> \notin files'
    BY <1>1, <1>2, OwnFiles, Parts DEF IInv, OneKind
  <2> QED BY <1>1, <1>2, <2>1, OwnFiles, EarlyMoved DEF PC
<1>3. CASE failApplianceJob(w) /\ files' \subseteq files
           /\ (faults' = faults \/ Fault("net"))
  <2>1. faults' \in 0..MaxFaults
    BY <1>3, FaultBound, Parts DEF IInv
  <2> QED BY <1>1, <1>3, <2>1, EarlyEnded
<1> QED BY <1>2, <1>3 DEF Verify

(***************************************************************************)
(* startApplianceImageWrite                                                *)
(***************************************************************************)
(* A step of startApplianceImageWrite before the launch keeps the invariant. *)
LEMMA PreparingMoved ==
  ASSUME IInv, NEW w \in Worker, worker[w].pc \in Past, NEW pc \in {"rmrc", "meta", "log",
         "launch", "unlog"},
         pc \in Verified => worker[w].pc \in Verified,
         Goes(w, pc), UNCHANGED <<Quiescent, files, job, unit, raced>>, run' \in RunRec,
            faults' \in 0..MaxFaults,
         ~raced => Ready(w)' /\ (run'.rc = "0" => run.rc = "0" /\ run'.meta = run.meta)
  PROVE  IInv'
<1>1. Moved(w, pc) /\ worker[w].pc \in Early /\ worker[w].pc \notin Resting
  BY GoesMoved DEF IInv, PC, Early, Past, Resting
<1>2. Types'
  <2>1. worker' \in [Worker -> WorkerRec]
    BY <1>1 DEF Moved
  <2> QED BY <2>1, Parts, WorkerTypes DEF IInv, Quiescent
<1>3. OneUpgrade'
  BY <1>1, OneMoved DEF IInv
<1>4. StagedOK'
  <2>1. OneKind' /\ \A f \in files' : f[1] = worker[w].ver
    BY OwnFiles DEF OneKind
  <2>2. pc \in Verified => <<worker[w].ver, "bad">> \notin files'
    BY DEF IInv, StagedOK
  <2> QED BY <1>1, <2>1, <2>2, StagedMoved DEF IInv
<1>5. StickFollows'
  BY StickSame DEF IInv, Quiescent
<1>6. Quiet'
  BY <1>1, QuietEarly DEF IInv, Quiescent
<1> QED BY <1>2, <1>3, <1>4, <1>5, <1>6 DEF IInv

(* Types of the run directory, the faults and the versions. *)
LEMMA RunParts ==
  ASSUME IInv
  PROVE  /\ run \in RunRec /\ faults \in 0..MaxFaults
         /\ \A w \in Worker : worker[w].ver \in Version
  BY Parts DEF IInv, WorkerRec

(* Removing the log keeps the invariant. *)
LEMMA RemoveLogInv == ASSUME IInv, NEW w \in Worker, RemoveLog(w) PROVE IInv'
<1>1. /\ worker[w].pc = "rmlog" /\ Goes(w, "rmrc")
         /\ UNCHANGED <<Quiescent, files, job, unit, raced>>
      /\ faults' = faults /\ run' = [run EXCEPT !.log = FALSE]
  BY DEF RemoveLog, bounds, Quiescent
<1>2. run' \in RunRec /\ run'.rc = run.rc /\ run'.meta = run.meta
  BY <1>1, RunParts DEF RunRec
<1>3. Ready(w)'
  BY <1>1, GoesMoved, ReadyEarly DEF IInv, PC
<1> QED BY <1>1, <1>2, <1>3, RunParts, PreparingMoved DEF Past, Verified

(* Removing rc keeps it: from here on rc is empty. *)
LEMMA RemoveRCInv == ASSUME IInv, NEW w \in Worker, RemoveRC(w) PROVE IInv'
<1>1. /\ worker[w].pc = "rmrc" /\ Goes(w, "meta")
         /\ UNCHANGED <<Quiescent, files, job, unit, raced>>
      /\ faults' = faults /\ run' = [run EXCEPT !.rc = ""]
  BY DEF RemoveRC, bounds, Quiescent
<1>2. run' \in RunRec /\ run'.rc = ""
  BY <1>1, RunParts DEF RunRec
<1>3. Ready(w)'
  BY <1>1, <1>2, GoesMoved DEF IInv, PC, Moved, Ready
<1> QED BY <1>1, <1>2, <1>3, RunParts, PreparingMoved DEF Past, Verified

(* Writing meta keeps it: rc is empty, so no finished write is relabelled. *)
LEMMA WriteMetaInv == ASSUME IInv, NEW w \in Worker, WriteMeta(w) PROVE IInv'
<1>1. worker[w].pc = "meta" /\ UNCHANGED <<Quiescent, files, unit, raced>>
  BY DEF WriteMeta, Quiescent
<1>2. CASE Goes(w, "log") /\ run' = [run EXCEPT !.meta = worker[w].ver]
           /\ UNCHANGED <<job, faults>>
  <2>1. run' \in RunRec /\ run'.rc = run.rc /\ run'.meta = worker[w].ver
    BY <1>2, RunParts DEF RunRec
  <2>2. ~raced => run.rc = ""
    BY <1>1 DEF IInv, Quiet, Prepared, Ready
  <2>3. Moved(w, "log")
    BY <1>2, GoesMoved DEF IInv, PC
  <2>4. ~raced => Ready(w)'
    BY <2>1, <2>2, <2>3 DEF Moved, Ready
  <2> QED BY <1>1, <1>2, <2>1, <2>2, <2>4, RunParts, PreparingMoved DEF Past, Verified
<1>3. CASE Fault("files") /\ failApplianceJob(w) /\ UNCHANGED run
  BY <1>1, <1>3, FaultBound, EarlyEnded DEF IInv, Early, Past
<1> QED BY <1>2, <1>3 DEF WriteMeta

(* Creating the log keeps it. *)
LEMMA CreateLogInv == ASSUME IInv, NEW w \in Worker, CreateLog(w) PROVE IInv'
<1>1. worker[w].pc = "log" /\ UNCHANGED <<Quiescent, files, unit, raced>>
  BY DEF CreateLog, Quiescent
<1>2. CASE Goes(w, "launch") /\ run' = [run EXCEPT !.log = TRUE]
           /\ UNCHANGED <<job, faults>>
  <2>1. run' \in RunRec /\ run'.rc = run.rc /\ run'.meta = run.meta /\ run'.log
    BY <1>2, RunParts DEF RunRec
  <2>2. ~raced => run.rc = "" /\ run.meta = worker[w].ver
    BY <1>1 DEF IInv, Quiet, Prepared, Ready
  <2>3. Moved(w, "launch")
    BY <1>2, GoesMoved DEF IInv, PC
  <2>4. ~raced => Ready(w)'
    BY <2>1, <2>2, <2>3 DEF Moved, Ready
  <2> QED BY <1>1, <1>2, <2>1, <2>4, RunParts, PreparingMoved DEF Past, Verified
<1>3. CASE Fault("files") /\ failApplianceJob(w) /\ UNCHANGED run
  BY <1>1, <1>3, FaultBound, EarlyEnded DEF IInv, Early, Past
<1> QED BY <1>2, <1>3 DEF CreateLog

(* systemd-run keeps it: the unit finds rc empty, meta its own and the log there; when a *)
(* request was checked before, raced records it.                                         *)
LEMMA LaunchInv == ASSUME IInv, NEW w \in Worker, Launch(w) PROVE IInv'
<1>1. worker[w].pc = "launch" /\ UNCHANGED <<Quiescent, files, job, run>>
  BY DEF Launch, Quiescent
<1>2. CASE Goes(w, "unlog") /\ UNCHANGED <<unit, raced>>
           /\ (faults' = faults \/ Fault("systemd"))
  <2>1. faults' \in 0..MaxFaults
    BY <1>2, FaultBound, RunParts DEF IInv
  <2>2. Ready(w)'
    BY <1>2, GoesMoved, ReadyEarly DEF IInv, PC
  <2> QED BY <1>1, <1>2, <2>1, <2>2, RunParts, PreparingMoved DEF Past, Verified
<1>3. CASE /\ unit.st = "none" /\ Goes(w, "handover") /\ UNCHANGED faults
           /\ unit' = [st |-> "script", ver |-> worker[w].ver, mode |-> worker[w].mode,
                 good |-> TRUE]
           /\ raced' = (raced \/ req.pc = "checked" \/ power = "checked")
  <2>1. Moved(w, "handover") /\ worker[w].pc \notin Resting
    BY <1>1, <1>3, GoesMoved DEF IInv, PC, Resting
  <2>2. unit' \in UnitRec /\ unit'.st = "script" /\ unit'.ver = worker[w].ver
        /\ raced' \in BOOLEAN
    BY <1>3, Parts DEF IInv, UnitRec, WorkerRec
  <2>3. Types'
    <3>1. worker' \in [Worker -> WorkerRec]
      BY <2>1 DEF Moved
    <3> QED BY <1>1, <1>3, <2>2, <3>1, Parts, WorkerTypes DEF IInv, Quiescent
  <2>4. OneUpgrade'
    BY <1>1, <2>1, OneMoved DEF IInv
  <2>5. StagedOK'
    <3>1. OneKind' /\ \A f \in files' : f[1] = worker[w].ver
      BY <1>1, OwnFiles DEF OneKind, Past
    <3> QED BY <2>1, <3>1, StagedMoved DEF IInv, Verified
  <2>6. StickFollows'
    BY <1>1, <1>3, <2>2 DEF IInv, StickFollows, Quiescent
  <2>7. ASSUME ~raced' PROVE Exclusive' /\ Prepared' /\ DoneOK' /\ ImageOK'
    <3>1. ~raced /\ req.pc = "idle" /\ power = "idle"
      BY <1>3, <2>7, Parts DEF IInv, ReqRec
    <3>2. run.rc = "" /\ run.meta = worker[w].ver /\ run.log
          /\ <<worker[w].ver, "bad">> \notin files
      BY <1>1, <3>1 DEF IInv, Quiet, Prepared, Ready, StagedOK, Verified
    <3>3. \A u \in Worker : worker'[u].pc \in {"idle", "handover", "poll", "poll2"}
      BY <2>1, Alone DEF IInv, Moved, Resting
    <3>4. Exclusive'
      BY <1>1, <2>2, <3>1, <3>2, <3>3 DEF Exclusive, Quiescent
    <3>5. Prepared'
      BY <3>3 DEF Prepared, Ready
    <3>6. DoneOK' /\ ImageOK'
      BY <1>1, <2>2, <3>2 DEF DoneOK, ImageOK
    <3> QED BY <3>4, <3>5, <3>6
  <2> QED BY <2>3, <2>4, <2>5, <2>6, <2>7 DEF IInv, Quiet
<1> QED BY <1>2, <1>3 DEF Launch

(* A launch that failed keeps it. *)
LEMMA LaunchFailedInv == ASSUME IInv, NEW w \in Worker, LaunchFailed(w) PROVE IInv'
<1>1. worker[w].pc \in Early /\ failApplianceJob(w)
      /\ UNCHANGED <<Quiescent, files, unit, raced>> /\ faults' = faults
      /\ run' = [run EXCEPT !.log = FALSE]
  BY DEF LaunchFailed, Early, Past, Quiescent, bounds
<1> QED BY <1>1, RunParts, EarlyEnded

(***************************************************************************)
(* After the hand-over                                                     *)
(***************************************************************************)
(* The steps from the hand-over on keep the invariant. *)
LEMMA RestingInv ==
  ASSUME IInv, NEW w \in Worker, worker[w].pc \in {"handover", "poll", "poll2"},
         NEW pc \in {"poll", "poll2"}, Moved(w, pc) \/ Ended(w),
         job' = job \/ worker[w].pc = "handover", job' \in JobRec,
         files' = files \/ files' = {}, UNCHANGED <<Quiescent, run, unit, raced, faults>>
  PROVE  IInv'
<1>1. worker'[w].pc \in Resting /\ \A u \in Worker \ {w} : worker'[u] = worker[u]
  BY DEF Moved, Ended, Idle, Resting
<1>2. Types'
  <2>1. worker' \in [Worker -> WorkerRec] /\ files' \subseteq FileRec
    BY Parts DEF IInv, Moved, Ended
  <2> QED BY <2>1, Parts, WorkerTypes DEF IInv, Quiescent
<1>3. OneUpgrade'
  <2>1. CASE job' = job
    BY <1>1, <2>1 DEF IInv, OneUpgrade, Resting
  <2>2. CASE worker[w].pc = "handover"
    <3>1. \A u \in Worker : worker'[u].pc \in Resting
      BY <1>1, <2>2, Alone DEF IInv, Resting
    <3> QED BY <3>1 DEF OneUpgrade, Resting
  <2> QED BY <2>1, <2>2
<1>4. StagedOK'
  <2>1. OneVersion' /\ OneKind'
    BY DEF IInv, StagedOK, OneVersion, OneKind
  <2>2. ASSUME NEW u \in Worker
        PROVE  /\ worker'[u].pc \in Past => \A f \in files' : f[1] = worker'[u].ver
               /\ worker'[u].pc = "download" => (Iso(worker[u].ver))' = {}
               /\ worker'[u].pc \in Verified => <<worker'[u].ver, "bad">> \notin files'
    <3>1. CASE u = w
      BY <1>1, <3>1 DEF Resting, Past, Verified
    <3>2. CASE u # w
      BY <1>1, <3>2 DEF IInv, StagedOK, Iso
    <3> QED BY <3>1, <3>2
  <2> QED BY <2>1, <2>2 DEF StagedOK
<1>5. StickFollows'
  BY StickSame DEF IInv, Quiescent
<1>6. ASSUME ~raced PROVE Exclusive' /\ Prepared' /\ DoneOK' /\ ImageOK'
  <2>1. Exclusive'
    BY <1>1, <1>6 DEF IInv, Quiet, Exclusive, Writing, Resting, Quiescent
  <2>2. Prepared'
    BY <1>1, <1>6 DEF IInv, Quiet, Prepared, Ready, Resting
  <2>3. DoneOK' /\ ImageOK'
    BY <1>6 DEF IInv, Quiet, DoneOK, ImageOK, Quiescent
  <2> QED BY <2>1, <2>2, <2>3
<1> QED BY <1>2, <1>3, <1>4, <1>5, <1>6 DEF IInv, Quiet

(* The hand-over from the job to the unit keeps it. *)
LEMMA HandOverInv == ASSUME IInv, NEW w \in Worker, HandOver(w) PROVE IInv'
<1>1. Moved(w, "poll")
  BY GoesMoved DEF HandOver, IInv, PC
<1> QED BY <1>1, Consts, RestingInv DEF HandOver, bounds, Quiescent

(* Polling the files keeps it. *)
LEMMA PollFilesInv == ASSUME IInv, NEW w \in Worker, PollFiles(w) PROVE IInv'
<1>1. Moved(w, "poll2") \/ Ended(w)
  BY GoesMoved, IdleEnded DEF PollFiles, IInv, PC
<1>2. /\ worker[w].pc = "poll" /\ job' = job /\ (files' = files \/ files' = {})
      /\ UNCHANGED <<Quiescent, run, unit, raced, faults>>
  BY DEF PollFiles, bounds, Quiescent
<1> QED BY <1>1, <1>2, Parts, RestingInv DEF IInv

(* Asking systemd keeps it. *)
LEMMA PollUnitInv == ASSUME IInv, NEW w \in Worker, PollUnit(w) PROVE IInv'
<1>1. CASE worker' = [worker EXCEPT ![w] = Idle]
  <2>1. Ended(w)
    BY <1>1, IdleEnded DEF IInv
  <2> QED BY <2>1, Parts, RestingInv DEF IInv, PollUnit, bounds, Quiescent
<1>2. CASE worker' = [worker EXCEPT ![w] = [worker[w] EXCEPT !.pc = "poll"]]
  <2>1. Moved(w, "poll")
    BY <1>2, GoesMoved DEF Goes, IInv, PC
  <2> QED BY <2>1, Parts, RestingInv DEF IInv, PollUnit, bounds, Quiescent
<1> QED BY <1>1, <1>2 DEF PollUnit

(* A portal that does not say "writing" while nothing raced sees no unit before its rc. *)

(***************************************************************************)
(* Requests                                                                *)
(***************************************************************************)
(* A portal that nothing raced says "writing" until rc is there. *)
LEMMA SeenWriting == ASSUME IInv, ~raced, Writing PROVE readApplianceWriteState = "writing"
  BY DEF IInv, Quiet, Exclusive, Writing, readApplianceWriteState

(* Types of the next state, part by part. *)
LEMMA TypesNext ==
  ASSUME latest' \in Version, img' \in Version, up' \in BOOLEAN, raced' \in BOOLEAN,
         stick' \in StickRec,
         files' \subseteq FileRec, job' \in JobRec, worker' \in [Worker -> WorkerRec],
            req' \in ReqRec,
         power' \in {"idle", "checked"}, run' \in RunRec, unit' \in UnitRec,
         applies' \in 0..MaxApplies, cancels' \in 0..MaxCancels, faults' \in 0..MaxFaults
  PROVE  Types'
  BY DEF Types, StickRec, FileRec, JobRec, WorkerRec, ReqRec, RunRec, UnitRec

(* A request that is checked keeps the invariant: while the unit writes none passes. *)
LEMMA RequestInv ==
  ASSUME IInv, UNCHANGED <<stick, files, job, worker, run, unit, raced, up>>,
         latest' \in Version, img' \in Version,
         req' \in ReqRec, power' \in {"idle", "checked"}, applies' \in 0..MaxApplies,
            cancels' = cancels, faults' = faults,
         Writing /\ ~raced => req'.pc = req.pc /\ power' = power
  PROVE  IInv'
<1>1. Types'
  BY Parts, TypesNext DEF IInv
<1>2. OneUpgrade' /\ StagedOK' /\ StickFollows'
  BY DEF IInv, OneUpgrade, StagedOK, OneVersion, OneKind, Iso, StickFollows
<1>3. ASSUME ~raced PROVE Exclusive' /\ Prepared' /\ DoneOK' /\ ImageOK'
  BY <1>3 DEF IInv, Quiet, Exclusive, Writing, Prepared, Ready, DoneOK, ImageOK
<1> QED BY <1>1, <1>2, <1>3 DEF IInv, Quiet

(* A new release keeps it. *)
LEMMA PublishInv == ASSUME IInv, Publish PROVE IInv'
<1>0. latest \in Version
  BY Parts DEF IInv
<1>1. latest' \in Version
  BY <1>0, UpgradeAssumption DEF Publish, Version
<1> QED BY <1>1, Parts, RequestInv DEF Publish, bounds, IInv

(* The checks of Apply keep it. *)
LEMMA CheckApplyInv == ASSUME IInv, CheckApply PROVE IInv'
<1>1. req' \in ReqRec
  BY Parts DEF CheckApply, IInv, ReqRec
<1>2. applies' \in 0..MaxApplies
  BY UpgradeAssumption, Parts DEF CheckApply, IInv
<1> QED BY <1>1, <1>2, Parts, SeenWriting, RequestInv DEF CheckApply, world, IInv

(* The check of Reboot and Shut down keeps it. *)
LEMMA CheckPowerInv == ASSUME IInv, CheckPower PROVE IInv'
  BY Parts, SeenWriting, RequestInv DEF CheckPower, ApplianceImageWriteActive, world,
     bounds, IInv

(* Cancel keeps it. *)
LEMMA CancelInv == ASSUME IInv, HandleApplianceUpgradeCancel PROVE IInv'
<1>1. job.owner \in Worker /\ worker \in [Worker -> WorkerRec]
  BY Parts DEF HandleApplianceUpgradeCancel, IInv, JobRec
<1>2. worker' = [worker EXCEPT ![job.owner] = [worker[job.owner] EXCEPT !.cancelled = TRUE]]
  BY DEF HandleApplianceUpgradeCancel
<1>3. worker' \in [Worker -> WorkerRec]
  BY <1>1, <1>2 DEF WorkerRec
<1>4. \A u \in Worker : worker'[u].pc = worker[u].pc /\ worker'[u].ver = worker[u].ver
  BY <1>1, <1>2 DEF WorkerRec
<1>5. Types'
  <2>1. cancels \in 0..MaxCancels
    BY Parts DEF IInv
  <2>2. cancels' \in 0..MaxCancels
    BY <2>1, UpgradeAssumption DEF HandleApplianceUpgradeCancel
  <2>3. UNCHANGED <<latest, img, up, stick, files, job, req, power, run, unit, raced,
           applies, faults>>
    BY DEF HandleApplianceUpgradeCancel, world
  <2> QED BY <1>3, <2>2, <2>3, Parts, TypesNext DEF IInv
<1>6. OneUpgrade' /\ StickFollows'
  BY <1>4 DEF IInv, OneUpgrade, StickFollows, HandleApplianceUpgradeCancel
<1>7. StagedOK'
  BY <1>4 DEF IInv, StagedOK, OneVersion, OneKind, Iso, HandleApplianceUpgradeCancel
<1>8. ASSUME ~raced PROVE Exclusive' /\ Prepared' /\ DoneOK' /\ ImageOK'
  BY <1>4, <1>8 DEF IInv, Quiet, Exclusive, Writing, Prepared, Ready, DoneOK, ImageOK,
     HandleApplianceUpgradeCancel
<1> QED BY <1>5, <1>6, <1>7, <1>8 DEF IInv, Quiet, HandleApplianceUpgradeCancel

(* Apply under the lock keeps it: the new goroutine is the only one before its hand-over. *)
LEMMA ApplyInv == ASSUME IInv, HandleApplianceUpgradeApply PROVE IInv'
<1>1. CASE Busy /\ UNCHANGED <<job, worker>>
  <2>1. ASSUME Writing, ~raced PROVE FALSE
    BY <2>1 DEF HandleApplianceUpgradeApply, IInv, Quiet, Exclusive
  <2> QED BY <1>1, <2>1, Consts, Parts, RequestInv DEF HandleApplianceUpgradeApply, world,
             bounds, IInv
<1>2. ASSUME ~Busy, NEW w \in Worker, worker[w].pc = "idle",
             job' = [phase |-> "downloading", owner |-> w],
             worker' = [worker EXCEPT ![w] =
               [pc |-> "stage", ver |-> req.ver, mode |-> req.mode, cancelled |-> FALSE]]
      PROVE  IInv'
  <2>1. /\ req.pc = "checked" /\ req' = NoReq
        /\ UNCHANGED <<world, stick, files, power, run, unit, raced, bounds>>
    BY DEF HandleApplianceUpgradeApply
  <2>2. /\ worker \in [Worker -> WorkerRec] /\ req \in ReqRec /\ NoReq \in ReqRec
        /\ [pc |-> "stage", ver |-> req.ver, mode |-> req.mode,
              cancelled |-> FALSE] \in WorkerRec
    BY Parts, Consts DEF IInv, ReqRec, WorkerRec, PC
  <2>3. worker' \in [Worker -> WorkerRec]
    BY <1>2, <2>2
  <2>4. worker'[w].pc = "stage" /\ \A u \in Worker \ {w} : worker'[u] = worker[u]
    BY <1>2, <2>2
  <2>5. \A u \in Worker \ {w} : worker'[u].pc \in Resting
    BY <1>2, <2>4 DEF IInv, OneUpgrade, Busy, Resting
  <2>6. Types'
    <3>1. job' \in JobRec
      BY <1>2 DEF JobRec
    <3>2. UNCHANGED <<latest, img, up, stick, files, power, run, unit, raced, applies,
             cancels, faults>>
      BY <2>1 DEF world, bounds
    <3> QED BY <2>1, <2>2, <2>3, <3>1, <3>2, Parts, TypesNext DEF IInv
  <2>7. OneUpgrade'
    BY <1>2, <2>4, <2>5 DEF OneUpgrade, Resting, Active
  <2>8. StagedOK'
    <3>1. OneVersion' /\ OneKind'
      BY <2>1 DEF IInv, StagedOK, OneVersion, OneKind
    <3>2. \A u \in Worker : worker'[u].pc \notin Past \cup {"download"} \cup Verified
      BY <2>4, <2>5 DEF Resting, Past, Verified
    <3> QED BY <3>1, <3>2 DEF StagedOK
  <2>9. StickFollows'
    BY <2>1, StickSame DEF IInv
  <2>10. ASSUME ~raced PROVE Exclusive' /\ Prepared' /\ DoneOK' /\ ImageOK'
    <3>1. ~Writing
      BY <2>1, <2>10 DEF IInv, Quiet, Exclusive
    <3>2. Exclusive' /\ ImageOK'
      BY <2>1, <3>1 DEF Exclusive, ImageOK, Writing
    <3>3. Prepared'
      BY <2>4, <2>5 DEF Prepared, Ready, Resting
    <3>4. DoneOK'
      BY <2>1, <2>10 DEF IInv, Quiet, DoneOK
    <3> QED BY <3>2, <3>3, <3>4
  <2> QED BY <2>1, <2>6, <2>7, <2>8, <2>9, <2>10 DEF IInv, Quiet
<1> QED BY <1>1, <1>2 DEF HandleApplianceUpgradeApply

(***************************************************************************)
(* The machine, the unit and the portal                                    *)
(***************************************************************************)
(* A restart of the machine keeps the invariant. *)
LEMMA BootInv == ASSUME IInv, Boot, faults' \in 0..MaxFaults PROVE IInv'
<1>1. /\ job' = NoJob /\ worker' = [w \in Worker |-> Idle] /\ req' = NoReq
         /\ power' = "idle"
      /\ run' = NoRun /\ unit' = NoUnit /\ raced' = FALSE
      /\ UNCHANGED <<latest, files, applies, cancels>>
  BY DEF Boot
<1>2. stick' \in StickRec /\ stick'.state # "writing" /\ img' \in Version /\ up' \in BOOLEAN
  BY Parts DEF Boot, IInv, StickRec
<1>3. Types'
  BY <1>1, <1>2, Consts, Parts, TypesNext DEF IInv
<1>4. \A w \in Worker : worker'[w].pc = "idle"
  BY <1>1 DEF Idle
<1>5. OneUpgrade'
  BY <1>4 DEF OneUpgrade
<1>6. StickFollows'
  BY <1>1, <1>2 DEF StickFollows, NoUnit
<1>7. StagedOK'
  BY <1>1, <1>4 DEF IInv, StagedOK, OneVersion, OneKind, Past, Verified
<1>8. Exclusive' /\ ImageOK' /\ DoneOK'
  BY <1>1 DEF Exclusive, Writing, ImageOK, DoneOK, NoUnit, NoRun
<1>9. Prepared'
  BY <1>4 DEF Prepared, Ready
<1> QED BY <1>3, <1>5, <1>6, <1>7, <1>8, <1>9 DEF IInv, Quiet

(* The unit leaves goroutines and staged files alone. *)
LEMMA UnitFrame ==
  ASSUME IInv, UNCHANGED <<files, job, worker>> PROVE OneUpgrade' /\ StagedOK'
  BY DEF IInv, OneUpgrade, StagedOK, OneVersion, OneKind, Iso

(* What a step of the unit has to keep for type correctness. *)
LEMMA UnitTypes ==
  ASSUME IInv, UNCHANGED <<world, files, job, worker, req, power, raced, applies, cancels>>,
         stick' \in StickRec, run' \in RunRec, unit' \in UnitRec, faults' \in 0..MaxFaults
  PROVE  Types'
<1>1. UNCHANGED <<latest, img, up>>
  BY DEF world
<1> QED BY <1>1, Parts, TypesNext DEF IInv

(* The checks of the script keep it: the image that dd opens is the verified one. *)
LEMMA ScriptChecksInv == ASSUME IInv, ScriptChecks PROVE IInv'
<1>1. /\ unit.st = "script" /\ run' = [run EXCEPT !.log = TRUE]
      /\ UNCHANGED <<world, files, job, worker, req, power, raced, applies, cancels>>
  BY DEF ScriptChecks
<1>2. unit \in UnitRec /\ run \in RunRec /\ stick \in StickRec /\ faults \in 0..MaxFaults
  BY Parts DEF IInv
<1>3. run' \in RunRec /\ run'.log /\ run'.rc = run.rc /\ run'.meta = run.meta
  BY <1>1, <1>2 DEF RunRec
<1>4. CASE /\ Iso(unit.ver) # {} /\ UNCHANGED faults
              /\ stick' = [ver |-> unit.ver, state |-> "writing"]
           /\ unit' = [unit EXCEPT !.st = "dd", !.good = (<<unit.ver, "good">> \in files)]
  <2>1. /\ unit' \in UnitRec /\ unit'.st = "dd" /\ unit'.ver = unit.ver
        /\ unit'.good = (<<unit.ver, "good">> \in files) /\ stick' \in StickRec
    <3> DEFINE g == <<unit.ver, "good">> \in files
    <3>1. g \in BOOLEAN
      OBVIOUS
    <3> HIDE DEF g
    <3>2. unit' = [unit EXCEPT !.st = "dd", !.good = g]
      BY <1>4 DEF g
    <3>3. unit' \in UnitRec /\ unit'.st = "dd" /\ unit'.ver = unit.ver /\ unit'.good = g
      BY <1>2, <3>1, <3>2 DEF UnitRec
    <3>4. stick' \in StickRec
      BY <1>2, <1>4 DEF UnitRec, StickRec
    <3> QED BY <3>3, <3>4 DEF g
  <2>2. Types'
    BY <1>1, <1>2, <1>3, <1>4, <2>1, UnitTypes
  <2>3. StickFollows'
    BY <1>4, <2>1 DEF StickFollows
  <2>4. ASSUME ~raced PROVE Exclusive' /\ Prepared' /\ DoneOK' /\ ImageOK'
    <3>1. Exclusive /\ Prepared /\ Writing /\ <<unit.ver, "bad">> \notin files
      BY <1>1, <2>4 DEF IInv, Quiet, ImageOK, Writing
    <3>2. Exclusive' /\ DoneOK'
      BY <1>1, <1>3, <2>1, <3>1 DEF Exclusive, DoneOK
    <3>3. Prepared'
      BY <1>1, <1>3, <3>1 DEF Prepared, Ready
    <3>4. ImageOK'
      BY <1>4, <2>1, <3>1 DEF ImageOK, Iso
    <3> QED BY <3>2, <3>3, <3>4
  <2> QED BY <1>1, <2>2, <2>3, <2>4, UnitFrame DEF IInv, Quiet
<1>5. CASE /\ faults' \in 0..MaxFaults /\ unit' = [unit EXCEPT !.st = "exit1"]
              /\ UNCHANGED stick
  <2>1. unit' \in UnitRec /\ unit'.st = "exit1" /\ unit'.ver = unit.ver
    BY <1>2, <1>5 DEF UnitRec
  <2>2. Types'
    BY <1>1, <1>2, <1>3, <1>5, <2>1, UnitTypes
  <2>3. StickFollows'
    BY <1>1, <1>5, <2>1 DEF IInv, StickFollows
  <2>4. ASSUME ~raced PROVE Exclusive' /\ Prepared' /\ DoneOK' /\ ImageOK'
    <3>1. Exclusive /\ Prepared /\ Writing
      BY <1>1, <2>4 DEF IInv, Quiet, Writing
    <3>2. Exclusive' /\ DoneOK'
      BY <1>1, <1>3, <2>1, <3>1 DEF Exclusive, DoneOK
    <3>3. Prepared' /\ ImageOK'
      BY <1>1, <1>3, <2>1, <3>1 DEF Prepared, Ready, ImageOK
    <3> QED BY <3>2, <3>3
  <2> QED BY <1>1, <2>2, <2>3, <2>4, UnitFrame DEF IInv, Quiet
<1> QED BY <1>2, <1>4, <1>5, FaultBound DEF ScriptChecks, IInv

(* The end of dd keeps it. *)
LEMMA WriteImageInv == ASSUME IInv, WriteImage PROVE IInv'
<1>1. unit.st = "dd"
      /\ UNCHANGED <<world, files, job, worker, req, power, run, raced, applies, cancels>>
  BY DEF WriteImage
<1>2. unit \in UnitRec /\ run \in RunRec /\ stick \in StickRec /\ faults' \in 0..MaxFaults
  BY Parts, FaultBound DEF IInv, WriteImage
<1>3. \/ unit' = [unit EXCEPT !.st = "exit0"] /\ stick' = [stick EXCEPT !.state = "whole"]
      \/ unit' = [unit EXCEPT !.st = "exit1"] /\ stick' = [stick EXCEPT !.state = "broken"]
  BY DEF WriteImage
<1>4. /\ unit' \in UnitRec /\ unit'.ver = unit.ver /\ unit'.good = unit.good
      /\ stick' \in StickRec /\ stick'.ver = stick.ver
      /\ \/ unit'.st = "exit0" /\ stick' = [ver |-> stick.ver, state |-> "whole"]
         \/ unit'.st = "exit1" /\ stick'.state = "broken"
  BY <1>2, <1>3 DEF UnitRec, StickRec
<1>5. Types'
  BY <1>1, <1>2, <1>4, UnitTypes
<1>6. StickFollows'
  BY <1>1, <1>4 DEF IInv, StickFollows
<1>7. ASSUME ~raced PROVE Exclusive' /\ Prepared' /\ DoneOK' /\ ImageOK'
  <2>1. Exclusive /\ Prepared /\ Writing /\ unit.good
    BY <1>1, <1>7 DEF IInv, Quiet, ImageOK, Writing
  <2>2. Exclusive' /\ DoneOK'
    BY <1>1, <1>4, <2>1 DEF Exclusive, DoneOK
  <2>3. Prepared' /\ ImageOK'
    BY <1>1, <1>4, <2>1 DEF Prepared, Ready, ImageOK
  <2> QED BY <2>2, <2>3
<1> QED BY <1>1, <1>5, <1>6, <1>7, UnitFrame DEF IInv, Quiet

(* Writing rc keeps it: rc 0 only after all of the image is on the stick. *)
LEMMA WriteRCInv == ASSUME IInv, WriteRC PROVE IInv'
<1> DEFINE reboots == ExitCode = "0" /\ unit.mode = "reboot"
<1>1. /\ unit.st \in {"exit0", "exit1"}
      /\ UNCHANGED <<world, stick, files, job, worker, req, power, raced, applies, cancels,
            faults>>
      /\ run' = [run EXCEPT !.rc = ExitCode, !.log = @ \/ reboots]
      /\ unit' = IF reboots THEN [unit EXCEPT !.st = "reboot"] ELSE NoUnit
  BY DEF WriteRC, bounds
<1>2. unit \in UnitRec /\ run \in RunRec /\ stick \in StickRec /\ faults' \in 0..MaxFaults
  BY <1>1, Parts DEF IInv
<1>3. run' \in RunRec /\ run'.rc = ExitCode /\ run'.meta = run.meta
  BY <1>1, <1>2 DEF RunRec, ExitCode
<1>4. unit' \in UnitRec /\ unit'.st \in {"none", "reboot"}
  BY <1>1, <1>2, Consts DEF UnitRec, NoUnit
<1>5. Types'
  BY <1>1, <1>2, <1>3, <1>4, UnitTypes
<1>6. StickFollows'
  BY <1>1, <1>4 DEF IInv, StickFollows
<1>7. ASSUME ~raced PROVE Exclusive' /\ Prepared' /\ DoneOK' /\ ImageOK'
  <2>1. Exclusive /\ Writing
    BY <1>1, <1>7 DEF IInv, Quiet, Writing
  <2>2. Exclusive' /\ ImageOK'
    BY <1>4 DEF Exclusive, Writing, ImageOK
  <2>3. Prepared'
    BY <1>1, <2>1 DEF Exclusive, Prepared, Ready
  <2>4. DoneOK'
    <3>1. run'.rc = "0" => unit.st = "exit0"
      BY <1>3 DEF ExitCode
    <3>2. run'.meta = unit.ver /\ stick' = stick
      BY <1>1, <1>3, <2>1 DEF Exclusive
    <3> QED BY <3>1, <3>2 DEF IInv, StickFollows, DoneOK
  <2> QED BY <2>2, <2>3, <2>4
<1> QED BY <1>1, <1>5, <1>6, <1>7, UnitFrame DEF IInv, Quiet

(* A unit that is killed leaves a stick that is broken, and keeps it. *)
LEMMA UnitKilledInv == ASSUME IInv, UnitKilled PROVE IInv'
<1>1. /\ unit' = NoUnit
         /\ UNCHANGED <<world, files, job, worker, req, power, run, raced, applies,
            cancels>>
      /\ stick' = (IF stick.state = "writing" THEN [stick EXCEPT !.state = "broken"] ELSE stick)
  BY DEF UnitKilled
<1>2. run \in RunRec /\ stick \in StickRec /\ faults' \in 0..MaxFaults
  BY Parts, FaultBound DEF IInv, UnitKilled
<1>3. stick' \in StickRec /\ stick'.state # "writing" /\ (stick.state # "writing"
      => stick' = stick)
  BY <1>1, <1>2 DEF StickRec
<1>4. Types'
  BY <1>1, <1>2, <1>3, Consts, UnitTypes
<1>5. StickFollows'
  BY <1>1, <1>3 DEF StickFollows, NoUnit
<1>6. ASSUME ~raced PROVE Exclusive' /\ Prepared' /\ DoneOK' /\ ImageOK'
  <2>1. Exclusive' /\ ImageOK'
    BY <1>1 DEF Exclusive, Writing, ImageOK, NoUnit
  <2>2. Prepared'
    BY <1>1, <1>6 DEF IInv, Quiet, Prepared, Ready
  <2>3. DoneOK'
    BY <1>1, <1>3, <1>6 DEF IInv, Quiet, DoneOK, StickFollows, Exclusive, Writing
  <2> QED BY <2>1, <2>2, <2>3
<1> QED BY <1>1, <1>4, <1>5, <1>6, UnitFrame DEF IInv, Quiet

(* A restart of the portal keeps it. *)
LEMMA PortalRestartsInv == ASSUME IInv, PortalRestarts PROVE IInv'
<1>1. /\ job' = NoJob /\ worker' = [w \in Worker |-> Idle] /\ req' = NoReq
         /\ power' = "idle"
      /\ UNCHANGED <<latest, img, up, stick, files, run, unit, raced, applies, cancels>>
  BY DEF PortalRestarts, world
<1>2. faults' \in 0..MaxFaults
  BY FaultBound DEF PortalRestarts, IInv
<1>3. Types'
  BY <1>1, <1>2, Consts, Parts, TypesNext DEF IInv
<1>4. \A w \in Worker : worker'[w].pc = "idle"
  BY <1>1 DEF Idle
<1>5. OneUpgrade' /\ StickFollows'
  BY <1>1, <1>4, StickSame DEF IInv, OneUpgrade
<1>6. StagedOK'
  BY <1>1, <1>4 DEF IInv, StagedOK, OneVersion, OneKind, Past, Verified
<1>7. ASSUME ~raced PROVE Exclusive' /\ Prepared' /\ DoneOK' /\ ImageOK'
  <2>1. Exclusive'
    BY <1>1, <1>4, <1>7 DEF IInv, Quiet, Exclusive, Writing, NoReq
  <2>2. Prepared'
    BY <1>4 DEF Prepared, Ready
  <2>3. DoneOK' /\ ImageOK'
    BY <1>1, <1>7 DEF IInv, Quiet, DoneOK, ImageOK
  <2> QED BY <2>1, <2>2, <2>3
<1> QED BY <1>1, <1>3, <1>5, <1>6, <1>7 DEF IInv, Quiet

(***************************************************************************)
(* The theorems                                                            *)
(***************************************************************************)
(* The invariant holds initially ... *)
LEMMA IInvInit == ASSUME Init PROVE IInv
<1>1. \A w \in Worker : worker[w].pc = "idle"
  BY DEF Init, Idle
<1>2. OneUpgrade /\ StagedOK
  BY <1>1 DEF Init, OneUpgrade, StagedOK, OneVersion, OneKind, Past, Verified
<1>3. StickFollows
  BY DEF Init, StickFollows, NoUnit
<1>4. Exclusive /\ ImageOK /\ DoneOK
  BY DEF Init, Exclusive, Writing, ImageOK, DoneOK, NoUnit, NoRun
<1>5. Prepared
  BY <1>1 DEF Prepared, Ready
<1> QED BY <1>2, <1>3, <1>4, <1>5, InitTypes DEF IInv, Quiet

(* ... and every step keeps it ... *)
LEMMA IInvNext == ASSUME IInv, [Next]_vars PROVE IInv'
<1>1. ASSUME NEW w \in Worker, LocalStep(w) \/ DownloadISO(w) \/ DownloadSum(w) PROVE IInv'
  BY <1>1, StageInv, FindISOInv, DownloadFailsInv, VerifyInv, RemoveLogInv, RemoveRCInv,
     WriteMetaInv, CreateLogInv, LaunchInv, LaunchFailedInv, HandOverInv, PollFilesInv,
     PollUnitInv, DownloadISOInv, DownloadSumInv DEF LocalStep
<1>2. CASE UNCHANGED vars
  <2>1. UNCHANGED <<latest, img, stick, files, job, worker, req, power, run, unit, up,
           raced, applies, cancels, faults>>
    BY <1>2 DEF vars
  <2> QED BY <2>1, Parts, RequestInv DEF IInv
<1>3. ASSUME HandleReboot \/ UnitReboots \/ UPSShutdown PROVE IInv'
  <2>1. faults' = faults \/ Fault("ups")
    BY <1>3 DEF HandleReboot, UnitReboots, UPSShutdown
  <2>2. faults' \in 0..MaxFaults
    BY <2>1, FaultBound, Parts DEF IInv
  <2> QED BY <1>3, <2>2, BootInv DEF HandleReboot, UnitReboots, UPSShutdown
<1> QED BY <1>1, <1>2, <1>3, PublishInv, CheckApplyInv, ApplyInv, CancelInv, CheckPowerInv,
           ScriptChecksInv, WriteImageInv, WriteRCInv, UnitKilledInv,
           PortalRestartsInv DEF Next, UnitStep

(* ... so that it always holds. *)
LEMMA Invariance == Spec => []IInv
  BY IInvInit, IInvNext, PTL DEF Spec

(* Every variable keeps its type, files of one version only are staged, and at most one   *)
(* goroutine is before its hand-over, the one the job in memory names and Cancel reaches: *)
(* for every number of goroutines, faults and requests, and also after a race.            *)
THEOREM TypeCorrect == Spec => []TypeOK
<1>1. IInv => TypeOK
  BY DEF IInv, StagedOK, TypeOK
<1> QED BY <1>1, Invariance, PTL

(* While the unit checks or writes, the portal says "writing" and refuses Reboot, Shut *)
(* down and Apply (ApplianceImageWriteActive), through any number of portal restarts,  *)
(* failed launches and earlier upgrades.                                               *)
THEOREM WritesAreGuarded == Spec => []WriteGuarded
<1>1. IInv => WriteGuarded
  BY SeenWriting DEF WriteGuarded, Writing
<1> QED BY <1>1, Invariance, PTL

(* When the portal says "done", the stick holds all of the version it shows *)
(* (readApplianceWriteState, startApplianceImageWrite).                     *)
THEOREM DoneMeansWritten == Spec => []DoneIsWritten
<1>1. IInv => DoneIsWritten
  BY DEF IInv, Quiet, DoneOK, DoneIsWritten, readApplianceWriteState
<1> QED BY <1>1, Invariance, PTL

(* What dd writes matches its signature and checksum, also when the image was staged by *)
(* an earlier run of the portal (runApplianceUpgrade).                                  *)
THEOREM VerifiedOnly == Spec => []OnlyVerified
<1>1. IInv => OnlyVerified
  BY DEF IInv, Quiet, ImageOK, OnlyVerified
<1> QED BY <1>1, Invariance, PTL

(* A restart an admin or the unit makes and that leaves the machine down found a stick *)
(* that an earlier, dead write had broken.                                             *)
LEMMA RebootStep ==
  ASSUME IInv, HandleReboot \/ UnitReboots, ~up', ~raced PROVE stick.state = "broken"
<1>1. stick.state # "whole" /\ stick.state \in {"whole", "writing", "broken"}
  BY Parts DEF HandleReboot, UnitReboots, Boot, IInv, StickRec
<1>2. CASE HandleReboot
  <2>1. power = "checked"
    BY <1>2 DEF HandleReboot
  <2> QED BY <1>1, <2>1 DEF IInv, Quiet, Exclusive, Writing, StickFollows
<1>3. CASE UnitReboots
  <2>1. unit.st = "reboot"
    BY <1>3 DEF UnitReboots
  <2> QED BY <1>1, <2>1 DEF IInv, StickFollows
<1> QED BY <1>2, <1>3

(* No reboot or shutdown an admin asks for (HandleReboot, HandleShutdown), and no reboot *)
(* of the unit, interrupts a write that goes on, although the machine may also be shut   *)
(* down on battery (StartUPSShutdownWatcher), which does interrupt one.                  *)
THEOREM RebootsSpareWrites == Spec => RebootSparesWrite
<1>1. IInv /\ [Next]_vars =>
        [(HandleReboot \/ UnitReboots) /\ ~up' /\ ~raced => stick.state = "broken"]_vars
  BY RebootStep
<1> QED BY <1>1, Invariance, PTL DEF Spec, RebootSparesWrite
=============================================================================
