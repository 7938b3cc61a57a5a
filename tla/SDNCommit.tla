----------------------------- MODULE SDNCommit -----------------------------
(***************************************************************************)
(* Commit-confirm of the Firewall (SDN) feature: handlers/sdn.go,          *)
(* system/sdn_apply.go, system/sdn_revert.go, system/sdn_boot.go,          *)
(* main_sdn.go and the files of internal/sdn/store.go.                     *)
(*                                                                         *)
(* An apply moves the kernel to a new configuration; with auto-revert a    *)
(* marker (pending.json) and a transient systemd service guarantee that    *)
(* the change is undone unless the admin confirms it.  The portal, the     *)
(* revert service and the boot unit share the files; the flock of          *)
(* Store.Lock serialises them, so at most one `job' (the lock holder) is   *)
(* in progress.  A crash may fall between any two of its steps.            *)
(***************************************************************************)
EXTENDS Naturals, FiniteSets

CONSTANTS
    Config,       \* the configurations an admin can write (internal/sdn.Config)
    Default,      \* DefaultConfig(): no interface, no rule
    Stanza,       \* rendered stanzas of firewall-owned interfaces
    Owned,        \* Owned[c]: the stanzas configuration c renders
    NoFile,       \* a JSON file that does not exist
    PreSDN,       \* the interfaces file as captured before enabling
    Off,          \* no firewall table in the kernel
    Safe,         \* the safe-mode ruleset
    NoMark,       \* no pending.json
    Ops,          \* the operations a run exercises
    AutoChoices,  \* the values of auto_revert a run exercises
    Faults,       \* the failures a run injects
    MaxApplies,   \* bound: changes recorded in the history
    MaxCrashes    \* bound: portal crashes plus reboots

OpNames == {"apply", "restore", "confirm", "revertnow", "enable", "disable",
            "instance", "refresh"}

(* "link": an interface step fails; "nft": nft refuses the ruleset (or the  *)
(* boot finds a port missing); "safe": the safe-mode ruleset fails too;     *)
(* "save": SaveConfirmed fails; "write": another write fails (the unit,     *)
(* state.json, revert.json, applying.json, pending.json, the history);      *)
(* "arm": systemd-run fails; "undo": a step of SDNRestorePreSDN fails;      *)
(* "portal", "reboot", "powercut": crashes.                                 *)
FaultNames == {"link", "nft", "safe", "save", "write", "arm", "undo",
               "portal", "reboot", "powercut"}

ASSUME ConfigAssumption ==
    /\ Default \in Config
    /\ Owned \in [Config -> SUBSET Stanza]
    /\ Owned[Default] = {}
ASSUME SpecialAssumption ==
    /\ {NoFile, NoMark, PreSDN, Off, Safe, "none", "todo", "read"} \cap Config = {}
    /\ Off # Safe
    /\ NoMark \notin [target : {"previous", "pre-sdn"}, applied : Nat]
ASSUME BoundAssumption ==
    /\ MaxApplies \in Nat /\ MaxCrashes \in Nat
    /\ Ops \subseteq OpNames /\ Faults \subseteq FaultNames
    /\ AutoChoices \subseteq BOOLEAN

VARIABLES
    enabled,      \* state.json: Enabled
    bootunit,     \* znas-sdn.service is installed
    config,       \* config.json
    revert,       \* revert.json
    applying,     \* applying.json
    pending,      \* pending.json as the running system sees it
    pendingDisk,  \* pending.json as a power cut would leave it (never fsynced)
    ifaces,       \* /etc/network/interfaces: whose stanzas it holds
    hist,         \* sdn-history: change id -> its configuration and outcome
    last,         \* number of change ids handed out by NewID
    rules,        \* the ruleset loaded in the kernel
    links,        \* firewall-owned stanzas that are up
    safemode,     \* /run/.../safemode exists
    svc,          \* target of the sleeping revert service, or "none"
    phase,        \* "up", or how far the boot has come
    job,          \* the holder of the lock and where it is
    refresh,      \* the portal-start refresh: "none", "todo", "read" or the
                  \* configuration it has read
    inst,         \* an instance-forward change has passed its Enabled check
    accepted,     \* history: the configurations the admin has accepted
    crashes       \* crashes so far

feature   == <<enabled, bootunit>>
marker    == <<pending, pendingDisk>>
snapshots == <<hist, last>>
disk      == <<feature, config, revert, applying, marker, ifaces, snapshots>>
kernel    == <<rules, links, safemode>>
others    == <<svc, phase, refresh, inst>>
history   == <<accepted, crashes>>
vars      == <<disk, kernel, others, job, history>>

Id       == 1..MaxApplies
Outcomes == {"unrecorded", "pending", "confirmed", "reverted", "auto-reverted"}
Marker   == [target : {"previous", "pre-sdn"}, applied : Id]
File     == Config \cup {NoFile}
PCs      == {"unit", "state", "check", "revertpoint", "applying", "mark", "arm",
             "down", "splice", "up", "nft", "safe", "save", "clear", "record",
             "stop", "load", "unmark", "outcome",
             "predown", "preifaces", "prerules", "preunit", "prestate", "resave"}
Modes    == {"apply", "undo", "revert", "confirm", "instance", "disable"}
Job      == [op : {"none", "apply", "enable", "disable", "revert", "confirm", "instance"},
             who : {"none", "portal", "service", "boot"},
             mode : Modes, pc : PCs, from : Config, to : Config,
             auto : BOOLEAN, id : 0..MaxApplies, err : BOOLEAN]

NoJob == [op |-> "none", who |-> "none", mode |-> "apply", pc |-> "check",
          from |-> Default, to |-> Default, auto |-> FALSE, id |-> 0, err |-> FALSE]

LoadConfirmed == IF config = NoFile THEN Default ELSE config
OwnedIn(file) == IF file \in Config THEN Owned[file] ELSE {}

DiskOK ==
    /\ enabled \in BOOLEAN /\ bootunit \in BOOLEAN
    /\ config \in File /\ revert \in File /\ applying \in File
    /\ pending \in Marker \cup {NoMark} /\ pendingDisk \in Marker \cup {NoMark}
    /\ ifaces \in Config \cup {PreSDN}
    /\ hist \in [Id -> [cfg : Config, outcome : Outcomes]]
    /\ last \in 0..MaxApplies

KernelOK ==
    /\ rules \in Config \cup {Off, Safe}
    /\ links \subseteq Stanza
    /\ safemode \in BOOLEAN

ProcessOK ==
    /\ svc \in {"none", "previous", "pre-sdn"}
    /\ phase \in {"up", "boot", "net"}
    /\ refresh \in Config \cup {"none", "todo", "read"}
    /\ inst \in BOOLEAN
    /\ accepted \subseteq Config
    /\ crashes \in 0..MaxCrashes

TypeOK == DiskOK /\ KernelOK /\ ProcessOK /\ job \in Job

(* Either never enabled, or running a configuration the admin accepted.     *)
Init ==
    /\ \/ /\ enabled = FALSE /\ config = NoFile /\ ifaces = PreSDN /\ rules = Off
          /\ accepted = {} /\ "enable" \in Ops
       \/ /\ enabled = TRUE /\ config \in Config \ {Default}
          /\ ifaces = config /\ rules = config /\ accepted = {config}
          /\ "enable" \notin Ops
    /\ bootunit = enabled
    /\ revert = NoFile /\ applying = NoFile
    /\ pending = NoMark /\ pendingDisk = NoMark
    /\ hist = [i \in Id |-> [cfg |-> Default, outcome |-> "unrecorded"]]
    /\ last = 0
    /\ links = OwnedIn(config) /\ safemode = FALSE
    /\ svc = "none" /\ phase = "up" /\ job = NoJob
    /\ refresh = "none" /\ inst = FALSE /\ crashes = 0

----------------------------------------------------------------------------
(* Control of the lock holder.                                              *)

Goto(pc) == job' = [job EXCEPT !.pc = pc]
Unlock   == job' = NoJob
At(pc)   == job.pc = pc /\ job # NoJob

(* Mutant of Rollback: the undo applies the new configuration again.        *)
MutRollback == job' = [job EXCEPT !.mode = "undo",
                                  !.pc = IF job.auto THEN "stop" ELSE "down"]

(* The failure path of sdnApplyConfig: disarm if armed, then apply the      *)
(* running configuration over the new one.                                  *)
Rollback == job' = [job EXCEPT !.mode = "undo", !.from = job.to, !.to = job.from,
                               !.pc = IF job.auto THEN "stop" ELSE "down"]

(* Where SDNApply's caller goes when it returns an error ...                *)
ApplyFailed ==
    \/ job.mode = "apply"    /\ Rollback
    \/ job.mode = "undo"     /\ Goto("clear")
    \/ job.mode = "revert"   /\ job' = [job EXCEPT !.pc = "safe", !.err = TRUE]
    \/ job.mode = "instance" /\ Unlock

(* ... and when SDNRestorePreSDN returns.                                   *)
PreSDNReturns(failed) ==
    \/ job.op = "revert"  /\ job' = [job EXCEPT !.pc = "outcome", !.err = failed]
    \/ job.op = "enable"  /\ Goto("resave")
    \/ job.op = "disable" /\ Unlock

(* pending.json is written and removed without fsync: the durable copy      *)
(* follows at some later time (Flush).                                      *)
SetMark(m) ==
    /\ pending' = m
    /\ pendingDisk' = IF "powercut" \in Faults THEN pendingDisk ELSE m

EnterSafeMode ==
    /\ safemode' = TRUE
    /\ \/ rules' = Safe
       \/ "safe" \in Faults /\ rules' = rules

----------------------------------------------------------------------------
(* Requests to the portal: each takes the lock and passes its checks.       *)

PortalFree == phase = "up" /\ job = NoJob

(* Mutant of CanApply: a second apply while one waits for confirmation.     *)
MutCanApply(cur, next) == next # cur \/ safemode

CanApply(cur, next) == pending = NoMark /\ (next # cur \/ safemode)

BeginApply(op, pc, from, to, auto) ==
    /\ last < MaxApplies
    /\ last' = last + 1
    /\ hist' = [hist EXCEPT ![last + 1].cfg = to]
    /\ job' = [op |-> op, who |-> "portal", mode |-> "apply", pc |-> pc,
               from |-> from, to |-> to, auto |-> auto, id |-> last + 1, err |-> FALSE]
    /\ UNCHANGED <<feature, config, revert, applying, marker, ifaces, kernel, others, crashes>>

(* What the admin has accepted once an apply of `next' starts, of what is   *)
(* saved and what runs: a change without auto-revert is accepted by the     *)
(* request itself.                                                          *)
AcceptOnApply(next, auto) ==
    accepted' = (accepted \cap {LoadConfirmed, rules}) \cup (IF auto THEN {} ELSE {next})

HandleSDNApply(next, auto) ==
    /\ "apply" \in Ops /\ PortalFree /\ enabled
    /\ CanApply(LoadConfirmed, next)
    /\ BeginApply("apply", "revertpoint", LoadConfirmed, next, auto)
    /\ AcceptOnApply(next, auto)

(* Restoring a history entry does not look at Enabled.                      *)
HandleSDNRestore(i, auto) ==
    /\ "restore" \in Ops /\ PortalFree
    /\ hist[i].outcome # "unrecorded"
    /\ CanApply(LoadConfirmed, hist[i].cfg)
    /\ BeginApply("apply", "revertpoint", LoadConfirmed, hist[i].cfg, auto)
    /\ AcceptOnApply(hist[i].cfg, auto)

HandleSDNEnable(next) ==
    /\ "enable" \in Ops /\ PortalFree /\ ~enabled
    /\ BeginApply("enable", "unit", Default, next, TRUE)
    /\ accepted' = {}

Begin(op, who, mode, pc) ==
    job' = [NoJob EXCEPT !.op = op, !.who = who, !.mode = mode, !.pc = pc,
                         !.id = IF pending = NoMark THEN 0 ELSE pending.applied]

(* Mutant of HandleSDNDisable: accepted while a change is pending.          *)
MutHandleSDNDisable ==
    /\ "disable" \in Ops /\ PortalFree /\ enabled
    /\ Begin("disable", "portal", "disable", "predown")
    /\ UNCHANGED <<disk, kernel, others, history>>

HandleSDNDisable ==
    /\ "disable" \in Ops /\ PortalFree /\ enabled /\ pending = NoMark
    /\ Begin("disable", "portal", "disable", "predown")
    /\ UNCHANGED <<disk, kernel, others, history>>

(* Mutant of HandleSDNConfirm: the recorded outcome is not looked at.       *)
MutHandleSDNConfirm ==
    /\ "confirm" \in Ops /\ PortalFree /\ pending # NoMark
    /\ Begin("confirm", "portal", "confirm", "stop")
    /\ UNCHANGED <<disk, kernel, others, history>>

(* Refused when the applied snapshot is no longer "pending" (a revert has   *)
(* already recorded its outcome); a missing snapshot does not refuse.       *)
HandleSDNConfirm ==
    /\ "confirm" \in Ops /\ PortalFree /\ pending # NoMark
    /\ hist[pending.applied].outcome \in {"pending", "unrecorded"}
    /\ Begin("confirm", "portal", "confirm", "stop")
    /\ UNCHANGED <<disk, kernel, others, history>>

HandleSDNRevertNow ==
    /\ "revertnow" \in Ops /\ PortalFree
    /\ Begin("revert", "portal", "revert", "stop")
    /\ UNCHANGED <<disk, kernel, others, history>>

(* sdnInstanceChange: its callers look at Enabled before taking the lock;   *)
(* under the lock only the marker is looked at.  Port forwards do not       *)
(* change the owned interfaces.                                             *)
InstanceForwardsActive ==
    /\ "instance" \in Ops /\ phase = "up" /\ enabled /\ ~inst
    /\ inst' = TRUE
    /\ UNCHANGED <<disk, kernel, svc, phase, job, refresh, history>>

SDNInstanceChange(next) ==
    /\ inst /\ PortalFree /\ pending = NoMark
    /\ next # LoadConfirmed /\ Owned[next] = OwnedIn(LoadConfirmed)
    /\ last < MaxApplies
    /\ inst' = FALSE
    /\ last' = last + 1
    /\ hist' = [hist EXCEPT ![last + 1].cfg = next]
    /\ job' = [op |-> "instance", who |-> "portal", mode |-> "instance",
               pc |-> IF safemode THEN "save" ELSE "nft",
               from |-> LoadConfirmed, to |-> next, auto |-> FALSE,
               id |-> last + 1, err |-> FALSE]
    /\ AcceptOnApply(next, FALSE)
    /\ UNCHANGED <<feature, config, revert, applying, marker, ifaces, kernel, svc, phase, refresh, crashes>>

----------------------------------------------------------------------------
(* Steps of HandleSDNEnable and sdnApplyConfig around SDNApply.             *)

InstallUnit ==
    /\ At("unit")
    /\ \/ bootunit' = TRUE /\ Goto("state")
       \/ "write" \in Faults /\ bootunit' \in {bootunit, TRUE} /\ Unlock
    /\ UNCHANGED <<enabled, config, revert, applying, marker, ifaces, snapshots, kernel, others, history>>

SaveEnabled ==
    /\ At("state")
    /\ \/ enabled' = TRUE /\ Goto("check")
       \/ "write" \in Faults /\ enabled' = enabled /\ Unlock
    /\ UNCHANGED <<bootunit, config, revert, applying, marker, ifaces, snapshots, kernel, others, history>>

(* sdnApplyConfig returns an error before it has armed or touched anything: *)
(* an enable is undone.                                                     *)
NotStarted == IF job.op = "enable" THEN job' = [job EXCEPT !.mode = "undo", !.pc = "predown"]
              ELSE Unlock

(* sdnApplyConfig may still refuse an enable.                               *)
EnableCheck ==
    /\ At("check")
    /\ IF CanApply(job.from, job.to) THEN Goto("revertpoint") ELSE NotStarted
    /\ UNCHANGED <<disk, kernel, others, history>>

SaveRevertPoint ==
    /\ At("revertpoint")
    /\ \/ revert' = job.from /\ Goto("applying")
       \/ "write" \in Faults /\ revert' = revert /\ NotStarted
    /\ UNCHANGED <<feature, config, applying, marker, ifaces, snapshots, kernel, others, history>>

SaveApplying ==
    /\ At("applying")
    /\ \/ applying' = job.to /\ Goto(IF job.auto THEN "mark" ELSE "down")
       \/ "write" \in Faults /\ applying' = applying /\ NotStarted
    /\ UNCHANGED <<feature, config, revert, marker, ifaces, snapshots, kernel, others, history>>

Target == IF job.op = "enable" THEN "pre-sdn" ELSE "previous"

(* The timer could not be armed: nothing was touched.                       *)
NotArmed == job' = [job EXCEPT !.mode = "undo", !.pc = "clear"]

WritePending ==
    /\ At("mark")
    /\ \/ SetMark([target |-> Target, applied |-> job.id]) /\ Goto("arm")
       \/ "write" \in Faults /\ UNCHANGED marker /\ NotArmed
    /\ UNCHANGED <<feature, config, revert, applying, ifaces, snapshots, kernel, others, history>>

(* systemd-run: refused while a unit of that name still exists.             *)
ArmRevert ==
    /\ At("arm")
    /\ \/ /\ svc = "none" /\ svc' = Target /\ Goto("down")
          /\ UNCHANGED <<marker>>
       \/ /\ svc # "none" \/ "arm" \in Faults
          /\ SetMark(NoMark) /\ svc' = svc /\ NotArmed
    /\ UNCHANGED <<feature, config, revert, applying, ifaces, snapshots, kernel, phase, refresh, inst, history>>

SaveConfirmed ==
    /\ At("save")
    /\ \/ /\ config' = job.to
          /\ \/ job.mode = "apply"    /\ Goto("clear")
             \/ job.mode = "revert"   /\ Goto("outcome")
             \/ job.mode = "instance" /\ Goto("record")
       \/ /\ "save" \in Faults /\ config' = config
          /\ \/ job.mode = "apply"    /\ Rollback
             \/ job.mode = "revert"   /\ Goto("outcome")
             \/ job.mode = "instance" /\ Unlock
    /\ UNCHANGED <<feature, revert, applying, marker, ifaces, snapshots, kernel, others, history>>

(* Mutant of ClearApplying: the failure paths forget applying.json.         *)
MutClearApplying ==
    /\ At("clear") /\ applying' = IF job.mode = "apply" THEN NoFile ELSE applying
    /\ \/ job.mode = "apply"  /\ Goto("record")
       \/ job.mode = "revert" /\ Goto("unmark")
       \/ job.mode = "undo"   /\ IF job.op = "enable" THEN Goto("predown") ELSE Unlock
    /\ UNCHANGED <<feature, config, revert, marker, ifaces, snapshots, kernel, others, history>>

ClearApplying ==
    /\ At("clear") /\ applying' = NoFile
    /\ \/ job.mode = "apply"  /\ Goto("record")
       \/ job.mode = "revert" /\ Goto("unmark")
       \/ job.mode = "undo"   /\ IF job.op = "enable" THEN Goto("predown") ELSE Unlock
    /\ UNCHANGED <<feature, config, revert, marker, ifaces, snapshots, kernel, others, history>>

AddSnapshot ==
    /\ At("record")
    /\ \/ hist' = [hist EXCEPT ![job.id].outcome = IF job.auto THEN "pending" ELSE "confirmed"]
       \/ "write" \in Faults /\ hist' = hist
    /\ Unlock
    /\ UNCHANGED <<feature, config, revert, applying, marker, ifaces, last, kernel, others, history>>

----------------------------------------------------------------------------
(* SDNApply: only stanzas that differ are bounced; the ruleset is replaced  *)
(* last, in one transaction.  A revert carries on past a failed interface   *)
(* step (linkErr); the boot unit touches no link (sdnNoLinkOps).            *)

IfDown ==
    /\ At("down")
    /\ LET gone == Owned[job.from] \ Owned[job.to] IN
       \/ links' = links \ gone /\ Goto("splice")
       \/ "link" \in Faults /\ links' \in {links, links \ gone} /\ ApplyFailed
    /\ UNCHANGED <<disk, rules, safemode, others, history>>

AfterSplice == IF job.who = "boot" THEN "nft" ELSE "up"

SpliceOwned ==
    /\ At("splice")
    /\ \/ ifaces' = job.to /\ Goto(AfterSplice)
       \/ /\ "link" \in Faults /\ ifaces' = ifaces
          /\ IF job.mode = "revert" THEN Goto(AfterSplice) ELSE ApplyFailed
    /\ UNCHANGED <<feature, config, revert, applying, marker, snapshots, kernel, others, history>>

IfUp ==
    /\ At("up")
    /\ LET up == (Owned[job.to] \ Owned[job.from]) \cap OwnedIn(ifaces) IN
       \/ links' = links \cup up /\ Goto("nft")
       \/ \E S \in SUBSET up :
            /\ "link" \in Faults
            /\ links' = links \cup S
            /\ IF job.mode = "revert" THEN Goto("nft") ELSE ApplyFailed
    /\ UNCHANGED <<disk, rules, safemode, others, history>>

(* Mutant of AfterNft: a revert does not save its target.                   *)
MutAfterNft == CASE job.mode = "undo"   -> "clear"
                 [] job.mode = "revert" -> "outcome"
                 [] OTHER               -> "save"

AfterNft == IF job.mode = "undo" THEN "clear" ELSE "save"

LoadRuleset ==
    /\ At("nft")
    /\ \/ /\ rules' = job.to
          /\ safemode' = IF job.mode = "instance" THEN safemode ELSE FALSE
          /\ Goto(AfterNft)
       \/ "nft" \in Faults /\ UNCHANGED <<rules, safemode>> /\ ApplyFailed
    /\ UNCHANGED <<disk, links, others, history>>

----------------------------------------------------------------------------
(* SDNCancelRevert / SDNStopRevertService and SDNRevertPendingNow.          *)

StopService ==
    /\ At("stop") /\ svc' = "none"
    /\ Goto(IF job.mode = "revert" THEN "load" ELSE "unmark")
    /\ UNCHANGED <<disk, kernel, phase, refresh, inst, history>>

MutRevertApplying == applying

(* What the kernel may hold: the configuration being applied when the       *)
(* portal died, else the confirmed one.                                     *)
RevertFrom == IF applying # NoFile THEN applying ELSE LoadConfirmed

LoadTarget ==
    /\ At("load")
    /\ IF pending = NoMark THEN Unlock /\ UNCHANGED applying
       ELSE IF pending.target = "pre-sdn" THEN Goto("predown") /\ UNCHANGED applying
       ELSE IF revert = NoFile
         THEN job' = [job EXCEPT !.pc = "outcome", !.err = TRUE] /\ UNCHANGED applying
       ELSE /\ applying' = RevertFrom \/ ("write" \in Faults /\ applying' = applying)
            /\ job' = [job EXCEPT !.from = RevertFrom, !.to = revert, !.pc = "down"]
    /\ UNCHANGED <<feature, config, revert, marker, ifaces, snapshots, kernel, others, history>>

(* Mutant of RevertSafeMode: the reason is written, no ruleset is loaded.    *)
MutRevertSafeMode ==
    /\ At("safe") /\ safemode' = TRUE /\ Goto("save")
    /\ UNCHANGED <<disk, rules, links, others, history>>

RevertSafeMode ==
    /\ At("safe") /\ EnterSafeMode /\ Goto("save")
    /\ UNCHANGED <<disk, links, others, history>>

(* A change whose snapshot was never recorded has nothing to update.        *)
SetOutcome ==
    /\ At("outcome")
    /\ \/ hist' = IF hist[job.id].outcome = "unrecorded" THEN hist
                  ELSE [hist EXCEPT ![job.id].outcome =
                          IF job.op = "confirm" THEN "confirmed"
                          ELSE IF job.who = "portal" THEN "reverted" ELSE "auto-reverted"]
       \/ "write" \in Faults /\ hist' = hist
    /\ IF job.op = "confirm" THEN Unlock ELSE Goto("clear")
    /\ UNCHANGED <<feature, config, revert, applying, marker, ifaces, last, kernel, others, history>>

(* Mutant of RemovePending: a confirmation stops the service and leaves the  *)
(* marker.                                                                   *)
MutRemovePending ==
    /\ At("unmark")
    /\ \/ job.mode = "undo"    /\ SetMark(NoMark) /\ Goto("down")
       \/ job.mode = "confirm" /\ SetMark(pending) /\ Goto("outcome")
       \/ job.mode = "revert"  /\ SetMark(NoMark) /\ Unlock
    /\ UNCHANGED <<feature, config, revert, applying, ifaces, snapshots, kernel, others, history>>

(* Removes the marker: the last step of a revert, the disarm of a failed    *)
(* apply, or the admin's confirmation.  A boot that could not restore the   *)
(* target loads the safe-mode ruleset afterwards.                           *)
RemovePending ==
    /\ At("unmark") /\ SetMark(NoMark)
    /\ \/ job.mode = "undo"    /\ Goto("down")
       \/ job.mode = "confirm" /\ Goto("outcome")
       \/ job.mode = "revert"  /\ Unlock
    /\ accepted' = IF job.mode = "confirm" THEN accepted \cup {hist[job.id].cfg}
                   ELSE accepted
    /\ IF job.who = "boot" /\ job.err /\ ~safemode
         THEN EnterSafeMode ELSE UNCHANGED <<rules, safemode>>
    /\ UNCHANGED <<feature, config, revert, applying, ifaces, snapshots, links, others, crashes>>

----------------------------------------------------------------------------
(* SDNRestorePreSDN: the revert of an enable, a failed enable, Disable.     *)

PreSDNDown ==
    /\ At("predown") /\ links' = links \ OwnedIn(ifaces) /\ Goto("preifaces")
    /\ UNCHANGED <<disk, rules, safemode, others, history>>

PreSDNInterfaces ==
    /\ At("preifaces")
    /\ \/ ifaces' = PreSDN /\ Goto("prerules")
       \/ "undo" \in Faults /\ ifaces' = ifaces /\ PreSDNReturns(TRUE)
    /\ UNCHANGED <<feature, config, revert, applying, marker, snapshots, kernel, others, history>>

DeleteTable ==
    /\ At("prerules") /\ rules' = Off /\ Goto("preunit")
    /\ UNCHANGED <<disk, links, safemode, others, history>>

SDNRemoveUnit ==
    /\ At("preunit")
    /\ \/ bootunit' = FALSE /\ Goto("prestate")
       \/ "undo" \in Faults /\ bootunit' = bootunit /\ PreSDNReturns(TRUE)
    /\ UNCHANGED <<enabled, config, revert, applying, marker, ifaces, snapshots, kernel, others, history>>

SaveDisabled ==
    /\ At("prestate")
    /\ \/ enabled' = FALSE /\ PreSDNReturns(FALSE)
       \/ "undo" \in Faults /\ enabled' = enabled /\ PreSDNReturns(TRUE)
    /\ UNCHANGED <<bootunit, config, revert, applying, marker, ifaces, snapshots, kernel, others, history>>

(* A failed enable writes the configuration it had loaded back.             *)
ResaveConfirmed ==
    /\ At("resave") /\ Unlock
    /\ config' = LoadConfirmed \/ ("save" \in Faults /\ config' = config)
    /\ UNCHANGED <<feature, revert, applying, marker, ifaces, snapshots, kernel, others, history>>

----------------------------------------------------------------------------
(* The revert service, the boot unit, the portal-start refresh.             *)

(* Mutant of RevertServiceFires: gives up when the lock is taken.            *)
MutRevertServiceFires ==
    /\ svc # "none" /\ phase = "up"
    /\ svc' = "none"
    /\ IF job = NoJob /\ pending # NoMark /\ pending.target = svc
         THEN Begin("revert", "service", "revert", "load")
         ELSE UNCHANGED job
    /\ UNCHANGED <<disk, kernel, phase, refresh, inst, history>>

(* The countdown is over and the service has the lock: nothing to do when   *)
(* the marker is gone or names another target.                              *)
RevertServiceFires ==
    /\ svc # "none" /\ phase = "up" /\ job = NoJob
    /\ svc' = "none"
    /\ IF pending # NoMark /\ pending.target = svc
         THEN Begin("revert", "service", "revert", "load")
         ELSE UNCHANGED job
    /\ UNCHANGED <<disk, kernel, phase, refresh, inst, history>>

(* SDNBoot; the unit does not start at all without config.json.             *)
SDNBoot ==
    /\ phase = "boot" /\ phase' = "net"
    /\ \/ /\ ~(bootunit /\ enabled /\ config # NoFile)
          /\ UNCHANGED <<rules, safemode, job>>
       \/ /\ bootunit /\ enabled /\ config # NoFile /\ pending # NoMark
          /\ Begin("revert", "boot", "revert", "load")
          /\ UNCHANGED <<rules, safemode>>
       \/ /\ bootunit /\ enabled /\ config # NoFile /\ pending = NoMark
          /\ \/ rules' = config /\ safemode' = FALSE
             \/ "nft" \in Faults /\ EnterSafeMode
          /\ UNCHANGED job
    /\ UNCHANGED <<disk, links, svc, refresh, inst, history>>

(* networking.service brings every stanza of the interfaces file up; the    *)
(* portal starts.                                                           *)
NetworkUp ==
    /\ phase = "net" /\ job = NoJob
    /\ phase' = "up" /\ links' = OwnedIn(ifaces)
    /\ refresh' = IF "refresh" \in Ops THEN "todo" ELSE "none"
    /\ UNCHANGED <<disk, rules, safemode, svc, job, inst, history>>

(* The goroutine main starts, without the lock: reinstall the units of an   *)
(* enabled firewall, then SDNRefreshRuleset.                                *)
RefreshUnit ==
    /\ refresh = "todo" /\ refresh' = "read"
    /\ bootunit' = (bootunit \/ enabled)
    /\ UNCHANGED <<enabled, config, revert, applying, marker, ifaces, snapshots, kernel,
                   svc, phase, job, inst, history>>

RefreshRead ==
    /\ refresh = "read"
    /\ refresh' = IF enabled /\ pending = NoMark /\ ~safemode THEN LoadConfirmed ELSE "none"
    /\ UNCHANGED <<disk, kernel, svc, phase, job, inst, history>>

RefreshLoad ==
    /\ refresh \in Config
    /\ rules' = refresh /\ refresh' = "none"
    /\ UNCHANGED <<disk, links, safemode, svc, phase, job, inst, history>>

----------------------------------------------------------------------------
(* Crashes.                                                                 *)

(* Mutant of PortalCrash: the countdown is the portal's and dies with it.    *)
MutPortalCrash ==
    /\ "portal" \in Faults /\ crashes < MaxCrashes /\ phase = "up"
    /\ crashes' = crashes + 1
    /\ job' = IF job.who = "portal" THEN NoJob ELSE job
    /\ refresh' = IF "refresh" \in Ops THEN "todo" ELSE "none"
    /\ inst' = FALSE /\ svc' = "none"
    /\ UNCHANGED <<disk, kernel, phase, accepted>>

(* The portal dies and systemd starts it again; the flock dies with it.     *)
PortalCrash ==
    /\ "portal" \in Faults /\ crashes < MaxCrashes /\ phase = "up"
    /\ crashes' = crashes + 1
    /\ job' = IF job.who = "portal" THEN NoJob ELSE job
    /\ refresh' = IF "refresh" \in Ops THEN "todo" ELSE "none"
    /\ inst' = FALSE
    /\ UNCHANGED <<disk, kernel, svc, phase, accepted>>

Restart(mark) ==
    /\ crashes < MaxCrashes /\ crashes' = crashes + 1
    /\ pending' = mark /\ pendingDisk' = mark
    /\ rules' = Off /\ links' = {} /\ safemode' = FALSE
    /\ svc' = "none" /\ phase' = "boot" /\ job' = NoJob
    /\ refresh' = "none" /\ inst' = FALSE
    /\ UNCHANGED <<feature, config, revert, applying, ifaces, snapshots, accepted>>

Reboot   == "reboot" \in Faults /\ Restart(pending)
PowerCut == "powercut" \in Faults /\ Restart(pendingDisk)

Flush ==
    /\ pendingDisk # pending /\ pendingDisk' = pending
    /\ UNCHANGED <<feature, config, revert, applying, pending, ifaces, snapshots, kernel, others, job, history>>

----------------------------------------------------------------------------
Request ==
    \/ \E c \in Config, a \in AutoChoices : HandleSDNApply(c, a)
    \/ \E i \in Id, a \in AutoChoices : HandleSDNRestore(i, a)
    \/ \E c \in Config : HandleSDNEnable(c)
    \/ HandleSDNDisable
    \/ HandleSDNConfirm
    \/ HandleSDNRevertNow
    \/ InstanceForwardsActive
    \/ \E c \in Config : SDNInstanceChange(c)

JobStep ==
    \/ InstallUnit \/ SaveEnabled \/ EnableCheck
    \/ SaveRevertPoint \/ SaveApplying \/ WritePending \/ ArmRevert
    \/ SaveConfirmed \/ ClearApplying \/ AddSnapshot
    \/ IfDown \/ SpliceOwned \/ IfUp \/ LoadRuleset
    \/ StopService \/ LoadTarget \/ RevertSafeMode \/ SetOutcome \/ RemovePending
    \/ PreSDNDown \/ PreSDNInterfaces \/ DeleteTable \/ SDNRemoveUnit
    \/ SaveDisabled \/ ResaveConfirmed

Background ==
    \/ RevertServiceFires \/ SDNBoot \/ NetworkUp
    \/ RefreshUnit \/ RefreshRead \/ RefreshLoad

Crash == PortalCrash \/ Reboot \/ PowerCut

Next == Request \/ JobStep \/ Background \/ Crash \/ Flush

Spec == Init /\ [][Next]_vars

(* The scheduler runs a lock holder that can take a step, systemd runs the  *)
(* revert service at the end of its countdown and starts the boot unit and  *)
(* the network.  Nothing obliges an admin to act or a crash to happen.      *)
FairSpec == Spec /\ WF_vars(JobStep) /\ WF_vars(RevertServiceFires)
                 /\ WF_vars(SDNBoot) /\ WF_vars(NetworkUp)

----------------------------------------------------------------------------
(* Properties.                                                              *)

(* A reboot at any moment brings up a configuration the admin accepted:     *)
(* while no marker exists, config.json is one the admin confirmed, applied  *)
(* without auto-revert, or was running before ("Never fall through to       *)
(* config.json: it holds the unconfirmed change", SDNBoot).  The window of  *)
(* an enable before its marker exists is left out.                          *)
BootsAccepted ==
    enabled /\ pending = NoMark /\ job.op # "enable" => LoadConfirmed \in accepted

(* The kernel enforces rules the admin has not accepted only while a marker *)
(* says so or the lock holder is still at work on it: SDNApply, the disarm  *)
(* of a failed apply and the revert never leave them behind.                *)
RulesGuarded ==
    rules \in accepted \cup {Off, Safe} \/ pending # NoMark \/ job # NoJob

(* At rest the files and the kernel agree: no job in progress, nothing      *)
(* pending, then config.json ("confirmed (what the kernel runs)", store.go) *)
(* is what the ruleset, the interfaces file and the links hold.             *)
AtRest == phase = "up" /\ job = NoJob /\ pending = NoMark /\ refresh = "none"
SettledAgrees ==
    AtRest /\ enabled =>
      /\ rules = IF safemode THEN Safe ELSE config
      /\ ifaces = config /\ links = Owned[config]

(* At rest no applying.json is left: while it exists the self-healer and    *)
(* the gateway monitor leave the links alone (system/sdn_selfheal.go).      *)
HealingResumes == AtRest => applying = NoFile

(* A disabled feature leaves nothing behind: once SDNRestorePreSDN has      *)
(* returned, no table, no owned link, the captured interfaces file.         *)
DisabledIsClean ==
    AtRest /\ ~enabled => rules = Off /\ links = {} /\ ifaces = PreSDN

(* A change whose revert was recorded is never confirmed afterwards, in     *)
(* whatever order confirm, revert-now, the service and the boot run and     *)
(* whatever crash falls between their steps (HandleSDNConfirm's "too late").*)
Undone == {"reverted", "auto-reverted"}
NeverReconfirmed ==
    [][\A i \in Id : hist[i].outcome \in Undone => hist'[i].outcome \in Undone]_vars

(* A confirmed change is not undone behind the admin's back.                *)
ConfirmedStays ==
    [][\A i \in Id : hist[i].outcome = "confirmed" => hist'[i].outcome = "confirmed"]_vars

(* What the lock holder is doing about the change on trial.                 *)
Verdict ==
    IF pending = NoMark THEN "none"
    ELSE IF job.mode = "confirm" THEN "keep"
    ELSE IF job.mode \in {"undo", "revert"} THEN "drop"
    ELSE "none"

(* The files and processes implement the trial of SDNTrial: what a reboot   *)
(* would bring up changes only by a change applied without auto-revert or   *)
(* when the admin confirms (HandleSDNConfirm), to exactly what was tried;   *)
(* Revert now, the revert service, the boot and a failed apply put back     *)
(* what there was before (SDNRevertPendingNow, sdnApplyConfig).             *)
Trial == INSTANCE SDNTrial WITH
    kept    <- IF pending # NoMark THEN revert ELSE LoadConfirmed,
    trial   <- IF pending # NoMark THEN hist[pending.applied].cfg ELSE NoMark,
    verdict <- Verdict,
    NoTrial <- NoMark
ImplementsTrial == Trial!Spec

(* The countdown ends: a marker is eventually removed, by a confirmation,   *)
(* the revert service or the boot after a reboot.                           *)
PendingResolves == (pending # NoMark) ~> (pending = NoMark)

(* An unaccepted ruleset does not stay: from its apply on and while the     *)
(* countdown runs it is eventually replaced or accepted, whenever the       *)
(* portal dies ("if the browser loses the portal or the portal dies, the    *)
(* revert still happens", SDNArmRevert), unless the admin answers before    *)
(* the countdown ends: Revert now and a confirmation stop the service       *)
(* before they do anything else.                                            *)
Unaccepted  == rules \notin accepted \cup {Off, Safe}
CountedDown == job.op = "apply" \/ svc # "none"
Answered    == job.who = "portal" /\ job.op \in {"confirm", "revert"}
TrialEnds   == (Unaccepted /\ CountedDown) ~> (~Unaccepted \/ Answered)

----------------------------------------------------------------------------
(* The strengthening that makes BootsAccepted inductive, for runs without   *)
(* an enable, a failing SaveConfirmed or a power cut.                        *)

(* While a marker exists its revert point is acceptable and config.json     *)
(* holds either an accepted configuration or the one on trial; otherwise    *)
(* config.json is accepted.                                                 *)
MarkInv ==
    IF pending = NoMark THEN LoadConfirmed \in accepted
    ELSE /\ pending.target = "previous"
         /\ revert \in accepted
         /\ LoadConfirmed \in accepted \cup {hist[pending.applied].cfg}

(* An apply: from the running configuration, the revert point taken before  *)
(* the marker, the marker before the kernel is touched.                     *)
ApplyInv ==
    /\ job.id \in Id /\ hist[job.id].cfg = job.to
    /\ job.pc \in {"revertpoint", "applying", "mark", "arm", "down", "splice", "up",
                   "nft", "save", "clear", "record"}
    /\ job.pc \in {"revertpoint", "applying", "mark"} => pending = NoMark
    /\ job.pc \notin {"clear", "record"} => job.from = LoadConfirmed
    /\ job.pc \notin {"revertpoint", "clear", "record"} => job.from = revert
    /\ IF job.auto
         THEN job.pc \notin {"revertpoint", "applying", "mark"} =>
                pending # NoMark /\ pending.applied = job.id
         ELSE pending = NoMark /\ job.to \in accepted /\ job.pc \notin {"mark", "arm"}

UndoInv ==
    /\ LoadConfirmed \in accepted
    /\ job.pc \in {"stop", "unmark", "down", "splice", "up", "nft", "clear"}

RevertInv ==
    /\ job.pc \in {"stop", "load", "down", "splice", "up", "nft", "safe", "save",
                   "outcome", "clear", "unmark"}
    /\ job.pc \notin {"stop", "load"} => pending # NoMark /\ job.id \in Id
    /\ job.pc \in {"down", "splice", "up", "nft", "safe", "save"} => job.to = revert
    /\ job.pc \in {"outcome", "clear", "unmark"} => LoadConfirmed \in accepted
    /\ pending # NoMark => job.id = pending.applied

ConfirmInv ==
    /\ job.id \in Id /\ job.pc \in {"stop", "unmark", "outcome"}
    /\ job.pc # "outcome" => pending # NoMark /\ job.id = pending.applied

InstanceInv ==
    /\ job.id \in Id /\ job.pc \in {"nft", "save", "record"}
    /\ pending = NoMark /\ job.to \in accepted

JobInv ==
    /\ job.op = "none"     => job = NoJob
    /\ job.op = "apply"    => \/ job.mode = "apply" /\ ApplyInv
                              \/ job.mode = "undo" /\ UndoInv
    /\ job.op = "revert"   => job.mode = "revert" /\ RevertInv
    /\ job.op = "confirm"  => job.mode = "confirm" /\ ConfirmInv
    /\ job.op = "instance" => job.mode = "instance" /\ InstanceInv
    /\ job.op = "disable"  => job.mode = "disable" /\ job.pc \in
                                {"predown", "preifaces", "prerules", "preunit", "prestate"}
    /\ job.op # "enable"

IInv == TypeOK /\ MarkInv /\ JobInv
=============================================================================
