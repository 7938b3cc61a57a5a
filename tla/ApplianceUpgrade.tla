-------------------------- MODULE ApplianceUpgrade --------------------------
(***************************************************************************)
(* Upgrading the USB appliance: the portal downloads and verifies an image *)
(* and starts a transient systemd unit that writes it to the stick the     *)
(* appliance boots from, and may reboot afterwards.                        *)
(*                                                                         *)
(* The download is a goroutine and dies with the portal; the unit does     *)
(* not.  What the portal knows of the write it reads from three files on   *)
(* tmpfs (log, rc, meta) and from systemd, and Reboot and Shut down are    *)
(* refused on the strength of that.  The shutdown on battery is not.       *)
(*                                                                         *)
(* Images are numbered by version.  GitHub, systemd and the machine's      *)
(* restart are external.                                                   *)
(***************************************************************************)
EXTENDS Integers, FiniteSets

CONSTANTS
  Worker,      \* goroutines of runApplianceUpgrade
  MaxVersion,  \* bound: versions published
  MaxApplies,  \* bound: Apply requests
  MaxCancels,  \* bound: Cancel requests
  Faults,      \* what may fail, see Fault
  MaxFaults    \* bound: faults

ASSUME UpgradeAssumption ==
  /\ 0 \notin Worker
  /\ MaxVersion \in Nat \ {0} /\ MaxApplies \in Nat /\ MaxCancels \in Nat /\ MaxFaults \in Nat
  /\ Faults \subseteq {"stage", "net", "bad", "files", "systemd", "script", "dd", "kill", "portal",
                 "ups"}

VARIABLES
  latest,   \* the newest published version
  img,      \* the version that is running
  stick,    \* the image on the stick: its version and state
  files,    \* staged files: <<version, kind>>
  job,      \* applianceJob: its phase and whose context its cancel ends (0: nil)
  worker,   \* the goroutines
  req,      \* an Apply request between its checks and applianceJobMu
  power,    \* a Reboot or Shut down request past its check
  run,      \* /run/zfsnas-image-upgrade: log exists, contents of rc, version in meta
  unit,     \* zfsnas-image-upgrade.service
  up,       \* the appliance is running
  raced,    \* history: a write began behind the back of a request, since the boot
  applies, cancels, faults

world == <<latest, img, up>>
bounds == <<applies, cancels, faults>>
vars == <<latest, img, stick, files, job, worker, req, power, run, unit, up, raced,
          applies, cancels, faults>>

Version == 1..MaxVersion
Modes   == {"stage", "reboot"}

Idle    == [pc |-> "idle", ver |-> 1, mode |-> "stage", cancelled |-> FALSE]
NoJob   == [phase |-> "", owner |-> 0]
NoReq   == [pc |-> "idle", ver |-> 1, mode |-> "stage"]
NoRun   == [log |-> FALSE, rc |-> "", meta |-> 0]
NoUnit  == [st |-> "none", ver |-> 1, mode |-> "stage", good |-> TRUE]

Init ==
  /\ latest = 1 /\ img = 1
  /\ stick = [ver |-> 1, state |-> "whole"]
  /\ files = {}
  /\ job = NoJob /\ worker = [w \in Worker |-> Idle]
  /\ req = NoReq /\ power = "idle"
  /\ run = NoRun /\ unit = NoUnit
  /\ up = TRUE /\ raced = FALSE
  /\ applies = 0 /\ cancels = 0 /\ faults = 0

Fault(f) == f \in Faults /\ faults < MaxFaults /\ faults' = faults + 1

Publish ==
  /\ up /\ latest < MaxVersion
  /\ latest' = latest + 1
  /\ UNCHANGED <<img, stick, files, job, worker, req, power, run, unit, up, raced, bounds>>

(***************************************************************************)
(* What the portal knows of the write                                      *)
(***************************************************************************)
readApplianceWriteState ==
  IF ~run.log THEN ""
  ELSE IF run.rc = "0" THEN "done"
  ELSE IF run.rc = "1" THEN "failed"
  ELSE IF unit.st # "none" THEN "writing" ELSE "failed"

\* Mutant: asks the job in memory.
MutApplianceImageWriteActive == job.phase = "verifying"

ApplianceImageWriteActive == readApplianceWriteState = "writing"

(***************************************************************************)
(* Requests                                                                *)
(***************************************************************************)
Active == {"downloading", "verifying"}

\* Apply up to the lock.
CheckApply ==
  /\ up /\ req.pc = "idle" /\ applies < MaxApplies
  /\ latest > img /\ readApplianceWriteState # "writing"
  /\ \E m \in Modes : req' = [pc |-> "checked", ver |-> latest, mode |-> m]
  /\ applies' = applies + 1
  /\ UNCHANGED <<world, stick, files, job, worker, power, run, unit, raced, cancels, faults>>

\* Mutant: a verification in progress does not count.
MutBusy == job.phase = "downloading"

Busy == job.phase \in Active

\* Apply under the lock: refused, or a new job and its goroutine.
HandleApplianceUpgradeApply ==
  /\ req.pc = "checked" /\ req' = NoReq
  /\ \/ Busy /\ UNCHANGED <<job, worker>>
     \/ /\ ~Busy
        /\ \E w \in Worker :
             /\ worker[w].pc = "idle"
             /\ job' = [phase |-> "downloading", owner |-> w]
             /\ worker' = [worker EXCEPT ![w] =
                  [pc |-> "stage", ver |-> req.ver, mode |-> req.mode, cancelled |-> FALSE]]
  /\ UNCHANGED <<world, stick, files, power, run, unit, raced, bounds>>

HandleApplianceUpgradeCancel ==
  /\ up /\ cancels < MaxCancels /\ cancels' = cancels + 1
  /\ job.phase \in Active /\ job.owner # 0
  /\ worker' = [worker EXCEPT ![job.owner].cancelled = TRUE]
  /\ UNCHANGED <<world, stick, files, job, req, power, run, unit, raced, applies, faults>>

\* HandleReboot and HandleShutdown: the check.
CheckPower ==
  /\ up /\ power = "idle" /\ ~ApplianceImageWriteActive
  /\ power' = "checked"
  /\ UNCHANGED <<world, stick, files, job, worker, req, run, unit, raced, bounds>>

\* Everything in memory and on tmpfs is gone; a stick that is not whole does
\* not boot.
Boot ==
  /\ up' = (stick.state = "whole")
  /\ img' = stick.ver
  /\ stick' = IF stick.state = "writing" THEN [stick EXCEPT !.state = "broken"] ELSE stick
  /\ job' = NoJob /\ worker' = [w \in Worker |-> Idle]
  /\ req' = NoReq /\ power' = "idle"
  /\ run' = NoRun /\ unit' = NoUnit /\ raced' = FALSE
  /\ UNCHANGED <<latest, files, applies, cancels>>

\* system.Reboot, or system.Shutdown and a later start.
HandleReboot == power = "checked" /\ Boot /\ UNCHANGED faults

\* The portal's watcher shuts down on battery, whatever the unit does.
UPSShutdown == up /\ Fault("ups") /\ Boot

(***************************************************************************)
(* runApplianceUpgrade: staging, download, verification                    *)
(***************************************************************************)
Goes(w, pc) == worker' = [worker EXCEPT ![w].pc = pc]

failApplianceJob(w) ==
  /\ job' = [phase |-> "failed", owner |-> 0]
  /\ worker' = [worker EXCEPT ![w] = Idle]

\* The files that are for v.
StagedFor(v) == {f \in files : f[1] = v}

\* The staging directory may be another one than last time: then what was
\* staged for this version goes as well.
Stage(w) ==
  /\ worker[w].pc = "stage"
  /\ \/ Goes(w, "iso") /\ files' \in {{}, StagedFor(worker[w].ver)} /\ UNCHANGED <<job, faults>>
     \/ Fault("stage") /\ failApplianceJob(w) /\ UNCHANGED files
  /\ UNCHANGED <<world, stick, req, power, run, unit, raced, applies, cancels>>

Iso(v) == files \cap {<<v, "good">>, <<v, "bad">>}

\* Mutant: a complete download is taken for a verified one.
MutReuse(w) == Goes(w, "rmlog")

Reuse(w) == Goes(w, "sum")

\* Reuse an image of the right size, or begin to download it.
FindISO(w) ==
  LET v == worker[w].ver
  IN /\ worker[w].pc = "iso"
     /\ \/ Iso(v) # {} /\ Reuse(w) /\ UNCHANGED <<files, job, faults>>
        \/ Iso(v) = {} /\ Goes(w, "download") /\ files' = files \cup {<<v, "part">>}
             /\ UNCHANGED <<job, faults>>
        \/ Iso(v) = {} /\ Fault("stage") /\ failApplianceJob(w) /\ UNCHANGED files
     /\ UNCHANGED <<world, stick, req, power, run, unit, raced, applies, cancels>>

\* The last byte came: .part gets its name, unless it was cleared away.
DownloadISO(w) ==
  LET v == worker[w].ver
      Renamed(kind) == files' = (files \ {<<v, "part">>}) \cup {<<v, kind>>}
  IN /\ worker[w].pc = "download"
     /\ \/ /\ <<v, "part">> \in files /\ Goes(w, "sum") /\ UNCHANGED job
           /\ \/ Renamed("good") /\ UNCHANGED faults
              \/ Fault("bad") /\ Renamed("bad")
        \/ <<v, "part">> \notin files /\ failApplianceJob(w) /\ UNCHANGED <<files, faults>>
     /\ UNCHANGED <<world, stick, req, power, run, unit, raced, applies, cancels>>

\* Mutant: the context does not reach the request.
MutAborted(w) == FALSE

\* A cancelled context ends a request on its way.
Aborted(w) == worker[w].cancelled

\* The connection breaks or the context is cancelled.
DownloadFails(w) ==
  /\ worker[w].pc \in {"download", "sum"}
  /\ \/ Aborted(w) /\ UNCHANGED faults
     \/ Fault("net")
  /\ failApplianceJob(w)
  /\ files' = files \ {<<worker[w].ver, "part">>}
  /\ UNCHANGED <<world, stick, req, power, run, unit, raced, applies, cancels>>

DownloadSum(w) ==
  /\ worker[w].pc = "sum"
  /\ files' = files \cup {<<worker[w].ver, "sum">>}
  /\ job' = [job EXCEPT !.phase = "verifying"]
  /\ Goes(w, "verify")
  /\ UNCHANGED <<world, stick, req, power, run, unit, raced, bounds>>

\* Signature and checksum; then the context is looked at for the last time.
Verify(w) ==
  LET v == worker[w].ver
      good == {<<v, "good">>, <<v, "sum">>} \subseteq files
  IN /\ worker[w].pc = "verify"
     /\ \/ good /\ ~worker[w].cancelled /\ Goes(w, "rmlog") /\ UNCHANGED <<files, job, faults>>
        \/ good /\ worker[w].cancelled /\ failApplianceJob(w) /\ UNCHANGED <<files, faults>>
        \/ /\ IF good THEN Fault("net") ELSE UNCHANGED faults
           /\ failApplianceJob(w)
           /\ files' = files \ {<<v, "good">>, <<v, "bad">>, <<v, "sum">>}
     /\ UNCHANGED <<world, stick, req, power, run, unit, raced, applies, cancels>>

(***************************************************************************)
(* startApplianceImageWrite, one file operation after the other            *)
(***************************************************************************)
RemoveLog(w) ==
  /\ worker[w].pc = "rmlog" /\ Goes(w, "rmrc")
  /\ run' = [run EXCEPT !.log = FALSE]
  /\ UNCHANGED <<world, stick, files, job, req, power, unit, raced, bounds>>

\* Mutant: rc of the write before is left.
MutRemoveRC(w) ==
  /\ worker[w].pc = "rmrc" /\ Goes(w, "meta")
  /\ UNCHANGED <<world, stick, files, job, req, power, run, unit, raced, bounds>>

RemoveRC(w) ==
  /\ worker[w].pc = "rmrc" /\ Goes(w, "meta")
  /\ run' = [run EXCEPT !.rc = ""]
  /\ UNCHANGED <<world, stick, files, job, req, power, unit, raced, bounds>>

WriteMeta(w) ==
  /\ worker[w].pc = "meta"
  /\ \/ /\ Goes(w, "log") /\ run' = [run EXCEPT !.meta = worker[w].ver]
        /\ UNCHANGED <<job, faults>>
     \/ Fault("files") /\ failApplianceJob(w) /\ UNCHANGED run
  /\ UNCHANGED <<world, stick, files, req, power, unit, raced, applies, cancels>>

\* The log is there before the unit starts.
CreateLog(w) ==
  /\ worker[w].pc = "log"
  /\ \/ /\ Goes(w, "launch") /\ run' = [run EXCEPT !.log = TRUE]
        /\ UNCHANGED <<job, faults>>
     \/ Fault("files") /\ failApplianceJob(w) /\ UNCHANGED run
  /\ UNCHANGED <<world, stick, files, req, power, unit, raced, applies, cancels>>

\* systemd-run: one unit of this name at a time.
Launch(w) ==
  /\ worker[w].pc = "launch"
  /\ \/ /\ unit.st = "none" /\ Goes(w, "handover")
        /\ unit' = [st |-> "script", ver |-> worker[w].ver, mode |-> worker[w].mode, good |-> TRUE]
        /\ raced' = (raced \/ req.pc = "checked" \/ power = "checked")
        /\ UNCHANGED faults
     \/ /\ IF unit.st # "none" THEN UNCHANGED faults ELSE Fault("systemd")
        /\ Goes(w, "unlog") /\ UNCHANGED <<unit, raced>>
  /\ UNCHANGED <<world, stick, files, job, req, power, run, applies, cancels>>

LaunchFailed(w) ==
  /\ worker[w].pc = "unlog" /\ failApplianceJob(w)
  /\ run' = [run EXCEPT !.log = FALSE]
  /\ UNCHANGED <<world, stick, files, req, power, unit, raced, bounds>>

HandOver(w) ==
  /\ worker[w].pc = "handover" /\ Goes(w, "poll")
  /\ job' = NoJob
  /\ UNCHANGED <<world, stick, files, req, power, run, unit, raced, bounds>>

\* Every 3 seconds: the files first, then systemd.  A write that ends in
\* between looks like one that was killed.
PollFiles(w) ==
  /\ worker[w].pc = "poll"
  /\ \/ run.log /\ run.rc = "" /\ Goes(w, "poll2") /\ UNCHANGED files
     \/ run.log /\ run.rc = "0" /\ files' = {} /\ worker' = [worker EXCEPT ![w] = Idle]
     \/ /\ ~run.log \/ run.rc = "1"
        /\ worker' = [worker EXCEPT ![w] = Idle] /\ UNCHANGED files
  /\ UNCHANGED <<world, stick, job, req, power, run, unit, raced, bounds>>

PollUnit(w) ==
  /\ worker[w].pc = "poll2"
  /\ worker' = [worker EXCEPT ![w] = IF unit.st # "none" THEN [@ EXCEPT !.pc = "poll"] ELSE Idle]
  /\ UNCHANGED <<world, stick, files, job, req, power, run, unit, raced, bounds>>

(***************************************************************************)
(* The unit: zfsnas-upgrade-image, then rc, then perhaps a reboot          *)
(***************************************************************************)
\* The checks before dd: the image must be there; the shell opens the log.
ScriptChecks ==
  LET v == unit.ver
      found == Iso(v) # {}
  IN /\ unit.st = "script"
     /\ run' = [run EXCEPT !.log = TRUE]
     /\ \/ /\ found /\ UNCHANGED faults
           /\ unit' = [unit EXCEPT !.st = "dd", !.good = (<<v, "good">> \in files)]
           /\ stick' = [ver |-> v, state |-> "writing"]
        \/ /\ IF found THEN Fault("script") ELSE UNCHANGED faults
           /\ unit' = [unit EXCEPT !.st = "exit1"] /\ UNCHANGED stick
     /\ UNCHANGED <<world, files, job, worker, req, power, raced, applies, cancels>>

WriteImage ==
  /\ unit.st = "dd"
  /\ \/ /\ unit' = [unit EXCEPT !.st = "exit0"] /\ UNCHANGED faults
        /\ stick' = [stick EXCEPT !.state = "whole"]
     \/ /\ Fault("dd") /\ unit' = [unit EXCEPT !.st = "exit1"]
        /\ stick' = [stick EXCEPT !.state = "broken"]
  /\ UNCHANGED <<world, files, job, worker, req, power, run, raced, applies, cancels>>

\* Mutant: the exit code of the script is lost.
MutExitCode == "0"

ExitCode == IF unit.st = "exit0" THEN "0" ELSE "1"

\* rc, and before the reboot a line more in the log.
WriteRC ==
  LET reboots == ExitCode = "0" /\ unit.mode = "reboot"
  IN /\ unit.st \in {"exit0", "exit1"}
     /\ run' = [run EXCEPT !.rc = ExitCode, !.log = @ \/ reboots]
     /\ unit' = IF reboots THEN [unit EXCEPT !.st = "reboot"] ELSE NoUnit
     /\ UNCHANGED <<world, stick, files, job, worker, req, power, raced, bounds>>

UnitReboots == unit.st = "reboot" /\ Boot /\ UNCHANGED faults

(***************************************************************************)
(* The rest of the world                                                   *)
(***************************************************************************)
\* The unit is stopped or killed.
UnitKilled ==
  /\ unit.st # "none" /\ Fault("kill") /\ unit' = NoUnit
  /\ stick' = IF stick.state = "writing" THEN [stick EXCEPT !.state = "broken"] ELSE stick
  /\ UNCHANGED <<world, files, job, worker, req, power, run, raced, applies, cancels>>

\* The portal restarts (an update, a crash): the unit goes on.
PortalRestarts ==
  /\ up /\ Fault("portal")
  /\ job' = NoJob /\ worker' = [w \in Worker |-> Idle]
  /\ req' = NoReq /\ power' = "idle"
  /\ UNCHANGED <<world, stick, files, run, unit, raced, applies, cancels>>

\* What ends without the network answering.
LocalStep(w) ==
  \/ Stage(w) \/ FindISO(w) \/ DownloadFails(w) \/ Verify(w)
  \/ RemoveLog(w) \/ RemoveRC(w) \/ WriteMeta(w) \/ CreateLog(w)
  \/ Launch(w) \/ LaunchFailed(w) \/ HandOver(w)
  \/ PollFiles(w) \/ PollUnit(w)

UnitStep == ScriptChecks \/ WriteImage \/ WriteRC \/ UnitReboots

Next ==
  \/ Publish
  \/ CheckApply \/ HandleApplianceUpgradeApply \/ HandleApplianceUpgradeCancel
  \/ CheckPower \/ HandleReboot
  \/ \E w \in Worker : LocalStep(w) \/ DownloadISO(w) \/ DownloadSum(w)
  \/ UnitStep \/ UnitKilled \/ PortalRestarts \/ UPSShutdown

Spec == Init /\ [][Next]_vars

\* Goroutines run and the unit makes progress.  Downloads have no timeout:
\* that one ends is not assumed.  The signature's client has one.
FairSpec == Spec /\ WF_vars(UnitStep) /\ \A w \in Worker : WF_vars(LocalStep(w))

(***************************************************************************)
(* Properties                                                              *)
(***************************************************************************)
PC == {"idle", "stage", "iso", "download", "sum", "verify", "rmlog", "rmrc", "meta", "log",
       "launch", "unlog", "handover", "poll", "poll2"}

Types ==
  /\ latest \in Version /\ img \in Version /\ up \in BOOLEAN /\ raced \in BOOLEAN
  /\ stick \in [ver : Version, state : {"whole", "writing", "broken"}]
  /\ files \subseteq Version \X {"part", "good", "bad", "sum"}
  /\ job \in [phase : {"", "downloading", "verifying", "failed"}, owner : Worker \cup {0}]
  /\ worker \in [Worker -> [pc : PC, ver : Version, mode : Modes, cancelled : BOOLEAN]]
  /\ req \in [pc : {"idle", "checked"}, ver : Version, mode : Modes]
  /\ power \in {"idle", "checked"}
  /\ run \in [log : BOOLEAN, rc : {"", "0", "1"}, meta : Version \cup {0}]
  /\ unit \in [st : {"none", "script", "dd", "exit0", "exit1", "reboot"}, ver : Version,
               mode : Modes, good : BOOLEAN]
  /\ applies \in 0..MaxApplies /\ cancels \in 0..MaxCancels /\ faults \in 0..MaxFaults

OneVersion == \A f, g \in files : f[1] = g[1]

OneUpgrade ==
  \A w \in Worker :
    worker[w].pc \notin {"idle", "poll", "poll2"} => job.phase \in Active /\ job.owner = w

\* Types; and files of one version only are staged (clearApplianceStaged), and
\* at most one goroutine is before its hand-over, the one the job in memory
\* names and Cancel reaches: no failure, restart, hand-over or race leaves one
\* that nobody knows of (failApplianceJob, Apply).
TypeOK == Types /\ OneVersion /\ OneUpgrade

\* While the unit writes the portal says so: Reboot, Shut down and Apply are
\* refused, through portal restarts and second upgrades, wherever an earlier
\* one failed and whatever it left in the run directory.
WriteGuarded ==
  unit.st \in {"script", "dd"} /\ ~raced => readApplianceWriteState = "writing"

\* "done" means that the stick holds all of the version the portal shows.
DoneIsWritten ==
  readApplianceWriteState = "done" /\ ~raced => stick = [ver |-> run.meta, state |-> "whole"]

\* An image that does not match its signature and checksum never gets to the
\* stick, although the script is told not to verify and a portal that died
\* between download and verification leaves an image that is reused.
OnlyVerified == unit.st \in {"dd", "exit0"} /\ ~raced => unit.good

\* A reboot or shutdown an admin asks for (HandleReboot, HandleShutdown), and
\* the unit's own reboot, never find the stick half written by a write that goes
\* on.  The shutdown on battery asks nobody and is not among them.
RebootSparesWrite ==
  [][(HandleReboot \/ UnitReboots) /\ ~up' /\ ~raced => stick.state = "broken"]_vars

\* A cancelled upgrade ends, also when the network never answers again.
CancelEnds ==
  \A w \in Worker : worker[w].cancelled ~> worker[w].pc = "idle"
=============================================================================
