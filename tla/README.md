# Verification of ZNAS

ZNAS is a NAS appliance: one Go binary, started as the web portal and, with
flags, as several small daemons. It drives ZFS, shares, instances and the
routing and packet filter of the host it is administered through. This project
models the parts where a wrong step costs data or locks the admin out:

- the firewall's **commit-confirm** (a change is undone unless confirmed) and
  its **gateway monitor** (traffic follows the Internet links that work);
- the **backups of an instance**: incremental chains, retention, restore;
- **snapshot policies**: retention, local and remote replication;
- the **upgrade of the USB appliance**: an image is written to the stick the
  machine boots from;
- **terminals** that survive the browser window they were opened in.

Contents: [inventory](#1-inventory), [modules](#2-modules),
[runs](#3-runs), [fairness](#4-fairness), [proofs](#5-proofs),
[known divergences](#6-known-divergences), [limits](#7-what-is-not-modelled),
[plan](#8-plan).

Run a configuration with `tlc -config SDNCommit_crash.cfg MCSDNCommit` and
check the proofs of a module with `tlapm SDNCommit_proofs.tla`.

## 1. Inventory

`PROJECT.json` lists every component with its sources. This table gives the
ones that carry logic of their own: the state they keep, what is hard about
them, what makes them correct.

| Component | State | Operations and partners | Hard part | Correct when |
|---|---|---|---|---|
| Commit-confirm (`handlers/sdn.go`, `system/sdn_apply.go`, `sdn_revert.go`, `sdn_boot.go`, `main_sdn.go`) | `config.json`, `revert.json`, `applying.json`, `pending.json`, `state.json`, the history, the interfaces file, the kernel's ruleset and links | apply, restore, confirm, revert now, enable, disable from the portal; a systemd timer service and the boot unit in processes of their own; a flock between them | a crash between any two writes; confirm against the countdown; every step can fail and its undo too | a boot loads only what was accepted; unaccepted rules never stay; files and kernel agree at rest |
| Drafts and history (`internal/sdn/store.go`) | `draft.json` with its base, 15 snapshots | put, discard, apply | two browsers; read, compare, write without a lock | no edit is lost silently |
| Gateway monitor (`system/sdn_gwmon.go`, `sdn_route.go`, `internal/sdn/gwstate.go`) | trackers, last plan, redial pauses, `gateways.json`, ip rules and tables | a loop of probe, decide, route, publish; pppd, DHCP, hooks and disable write the same routes | state cached across kernel changes; restart between steps; failing commands | routes follow the verdicts; no flapping; only dead links are hung up; failover and failback happen |
| Self-healing, PPPoE watch (`sdn_selfheal.go`, `sdn_pppwatch.go`) | back-off per interface | repair loops, suspended while `applying.json` exists | an apply that starts or dies while they look | never act during an apply, always resume |
| Instance forwards (`sdn_instfwd.go`) | the forwards inside `config.json` | changed with an instance, without a trial | check and lock are apart | never a rule on a disabled firewall |
| Compilers, validation | none (pure) | called by apply | text formats | out of a state model's reach |
| Sessions, TOTP, rate limit | maps under mutexes, expiry | login, middleware | expiry against use | no session outlives its logout |
| Terminals (`internal/termsessions`) | a PTY, a ring of its last output, the windows attached, who controls it | attach, detach, take control, close; a goroutine that reads and broadcasts | a window attaches between ring and broadcast; one that stops reading blocks the others; every way to end | no window misses output, one that stops reading does not hold the others up, and what ended is cleaned up |
| Instance backups (`handlers/lxd_backups.go`, `system/lxd_backups.go`, `lxd_restore.go`) | snapshots on the instance, datasets at the destinations, jobs in memory | scheduled and manual jobs, retention, deletion, instant restore, syncoid, the linked server | a job cut off half-way; retention of both sides against the chain; overlapping jobs | the chain is kept unless the user breaks it, "done" means stored, a healthy run succeeds |
| Snapshot policies (`handlers/schedules.go`, `internal/scheduler`, `system/replication.go`, `local_replication.go`) | `snapshot-schedules.json` with the base of the next stream, snapshots on both sides | a minute ticker, Run now, edits; zfs send, receive, ssh | the file is written back as a whole after minutes of work; retention removes bases; streams break half-way | a remembered base can be built on; a failed replication recovers; retention keeps its number |
| Appliance upgrade (`handlers/appliance_upgrade.go`, `power.go`, `zfsnas-upgrade-image`) | a job in memory, staged files, log, rc and meta on tmpfs, a systemd unit, the stick | apply, cancel, reboot; the unit outlives the portal | the portal restarts anywhere; what it knows of the write it reads back from files | the portal knows of a write in progress; only verified images are written; no reboot anyone asks for into half an image |
| Updater of the binary | downloaded binary | download, swap, restart | a crash in the swap | one working binary always |
| Job board, alerts, UPS, metrics rings | lists and timers | append, expire, repeat, shut down | repeat suppression, ring edges | no alert lost, shutdown in time |
| ZFS, shares, instances, host settings, web pages | in external programs | thin wrappers | I/O | not modelled |

Interactions that matter: the portal, the revert service and the boot unit
share files and a lock; the gateway monitor and the self-healer only read
those files, and share the kernel with everyone. Backups and snapshot policies
share the snapshots of ZFS, not their code: retention of each only counts its
own names. The appliance upgrade meets the rest of the portal in Reboot and
Shut down, which ask it first, and in the shutdown on battery, which does not.

## 2. Modules

| Module | Models | Extends |
|---|---|---|
| `SDNCommit` | commit-confirm, boot, enable and disable, instance forwards, the portal-start refresh | |
| `SDNTrial` | what commit-confirm promises: three variables | |
| `SDNCommit_proofs` | type correctness of `SDNCommit` | `SDNCommit` |
| `SDNBoot_proofs` | `BootsAccepted`, `ImplementsTrial`, `RulesGuarded` | `SDNCommit_proofs` |
| `SDNSettled_proofs` | `NeverReconfirmed`, `ConfirmedStays`; `HealingResumes`, `SettledAgrees`, `DisabledIsClean` | `SDNCommit_proofs` |
| `SDNGateway` | the gateway monitor, the kernel's routes, the undo of a disable | |
| `SDNGateway_proofs` | its types and its four action properties | `SDNGateway` |
| `LXDBackup` | the backups of one instance | |
| `LXDBackup_proofs` | its types and its three safety properties | `LXDBackup` |
| `SnapSchedule` | the snapshot policies of one dataset | |
| `SnapSchedule_proofs` | its types and its three safety properties | `SnapSchedule` |
| `ApplianceUpgrade` | the upgrade of the USB appliance | |
| `ApplianceUpgrade_proofs` | its types and its four safety properties | `ApplianceUpgrade` |
| `TermSession` | one terminal and its windows | |
| `TermSession_proofs` | its five invariants | `TermSession` |
| `MCSDNCommit`, `MCSDNGateway`, `MCLXDBackup`, `MCSnapSchedule`, `MCTermSession` | the instances for TLC | |

`ApplianceUpgrade` needs no model values and is checked as it is. The modules
are independent but for `SDNTrial`, which `SDNCommit` refines.

### SDNCommit

*State.* One variable per file and per thing of the kernel: `config`, `revert`,
`applying`, `pending` (with `pendingDisk`, what a power cut leaves, since the
file is never fsynced), `ifaces`, `hist`; `rules`, `links`, `safemode`; the
sleeping revert service `svc`, the boot's `phase`. The flock makes the holder
of the lock unique, so one record `job` holds its operation, its process and
its control point. A configuration is an element of `Config`; all the model
asks of it is which interface stanzas the firewall owns in it (`Owned`).

*Actions.* A request (`HandleSDNApply`, `HandleSDNConfirm`, ...) takes the lock
and passes the handler's checks. Each following step is one action, cut where
the code writes a file, calls the kernel or starts a process, because that is
where a crash can fall: `SaveRevertPoint`, `SaveApplying`, `WritePending`,
`ArmRevert`, `IfDown`, `SpliceOwned`, `IfUp`, `LoadRuleset`, `SaveConfirmed`,
`ClearApplying`, `AddSnapshot` for an apply, and the same interface and ruleset
steps again with another `mode` for the undo of a failed apply and for a
revert. `RevertServiceFires` and `SDNBoot` start the same revert from the
other two processes. `PortalCrash` ends a job of the portal only; `Reboot`
ends all and empties the kernel; `PowerCut` loses unsynced writes as well.
A failing step takes the error path of its caller: `ApplyFailed` for the steps
of `SDNApply`, `NotStarted` for a revert point or `applying.json` that cannot
be written, `NotArmed` for a marker or a service that cannot be set.

`accepted` is a history variable: what the admin confirmed, applied without
auto-revert or was running at the start.

### SDNTrial

`kept` is what a reboot would bring up, `trial` the change on trial, `verdict`
what is being done about it. Only a trial the admin confirms (`Decide("keep")`)
ends in `Keep`, which keeps exactly what was tried; one that the admin, the end
of the countdown, the boot or a failing apply reverts ends in `Drop`; an
outright change (`Adopt`) is the only other thing that alters `kept`. A reboot
forgets the verdict. `ImplementsTrial` maps the files and the operation of the
lock holder to it (`Verdict`): a confirmation that lost the change or a revert
that left it would be no step of `SDNTrial`.

### SDNGateway

*State.* The kernel: `link`, `route` (the main default and a "follow", "only"
and "probe" table per gateway), `rules`. The daemon's memory: `tr`
(`GWTracker`), `rc` (`gwReconnect`), `due`, `lastPlan` (the key of the plan
last written without an error) with `relinked` (which PPPoE devices have
another ifindex than that key says), `active`, `rulesFor`. `state` is the
published file. Times are ages, capped at the threshold the code compares them
with. A next hop is named by its gateway.

*Actions.* One round of the loop is cut in three, where the code waits or
where a crash makes a difference: `Probe` (rules, next hops, the pings that
are due), `Decide` (verdicts, hang-ups, plan, routes) and `Publish`.
`NoGateways` is the branch without gateways. Around it: `LinkDown`, `LinkUp`,
`StealDefault` (kernel, pppd, ifupdown, hooks: external, as the comments of
the code describe them), `ConfigChange` (who writes the configuration is
`SDNCommit`'s matter), `Restart`, and a disable in the order of
`SDNRestorePreSDN`: `StopMonitor`, `SdnUndoRouting`, `SDNRemoveUnit`, or
`RestoreFails`, which returns early and leaves the firewall enabled and the
daemon stopped until `SDNInstallUnit` starts it (the next enable, or the next
start of the portal, which does not take the firewall's lock: fault "start").

`lastOK`, `quiet`, `failed`, `lost` (the tables changed behind the daemon since
it last wrote a plan in full) and `halfSynced` (the last attempt to add the
rules stopped half-way) are history variables for the properties; no guard
reads them.

### LXDBackup

*State.* Snapshots are numbered in the order of creation and carry the prefix
they were taken under: a destination's (`bkp-to-<label>`) or the snapshot
schedule's. Pruning selects names that begin with a prefix and a dash, so a
prefix may cover others (`Covers`; in the runs each covers itself). `src` is what the instance has, `dst[d][p]` what part `p` (root
file system, block device) has at destination `d`, `job` the backup
goroutines, `inst` an instance that runs off a backup.

*Actions.* A job is cut where it calls out: `StartBackupJob`,
`CreateSnapshot`, `PrepLocalBackupChain` or `RemotePrepChain` (which wipe the
destination when no common snapshot is left), `RunSyncoid` per part, pruning of
anchors on the instance and of restore points at the destination. Beside it:
the snapshot schedule, deletions of snapshots, restore points and backups,
cancel, instant restore, crashes. syncoid and ZFS are external. `sound` is the
history that says when the chain of a destination is owed.

### SnapSchedule

*State.* `file` is the policy file; a job (`"tick"` or `"now"`) holds the copy
it read, `mem`, until it writes it back; so does an edit (`adm`). `src` and
`dst` are the snapshots on the dataset and at the destinations.

*Actions.* `TickPolicies` and `HandleRunScheduleNow` begin a job; then per due
policy `CreateSnapshot`, `PruneList`, `PruneDestroy` one by one,
`RunLocalReplication`, `PrepareReplication` (base, and cleaning of the remote,
which fails when it has several snapshots), `RunReplication`, and at the end
`SavePolicies`. Edits are cut into load and save. Which policies are due is free, so the calendar is not part of it. What
a broken stream leaves is any prefix of it (`Cut`). `calm`, `solo`, `strikes`
are history: nothing overlapped, a job had the file to itself, failures in a
row that no fault explains.

### ApplianceUpgrade

*State.* `job` (applianceJob) and the goroutines `worker`, which die with the
portal; `files` (what is staged), `stick`; `run` (log, rc, meta on tmpfs) and
`unit`, which do not. `req` and `power` are requests between their check and
their act.

*Actions.* Apply is `CheckApply` and, under the lock,
`HandleApplianceUpgradeApply`; a goroutine goes through `Stage`, `FindISO`,
`DownloadISO`, `DownloadSum`, `Verify`, then the file operations of
startApplianceImageWrite one by one, `Launch`, `HandOver` and the polling
(`PollFiles`, `PollUnit`: the two halves of readApplianceWriteState). The
unit's steps are `ScriptChecks`, `WriteImage`, `WriteRC`, `UnitReboots`.
`PortalRestarts`, `UnitKilled` and the shutdown on battery (`UPSShutdown`,
which asks nobody) fall between any two of all these.

`raced` is history: a write began while a request was past its check. The
properties except that case, because the code does (section 6).

### TermSession

*State.* The PTY's output as positions, the `ring` with its cells, the set of
`viewers` and the `controller`; per connection where its Attach stands (`at`)
and whether the network takes writes (`conn`); `drain`, the reading goroutine.

*Actions.* One per critical section and per write to a connection:
`ReadPTY`, `Broadcast`, `BroadcastTo`, `Attach`, `Replay`, `TakeControl`,
`ReleaseControl`, `RemoveViewer` through `Leave`, `MarkTerminated` from each
way to end, `Reap`. A write to a stalled connection is not enabled: the
goroutine waits, as it does in the code, which sets no write deadline.

## 3. Runs

Four minutes each at most, with two workers.

| Run | Instance | Shows |
|---|---|---|
| `sdn_crash` | three configurations that differ in rules, 2 changes, 2 crashes; failing links, rulesets, arming, undo, writes | whatever is interrupted, the boot loads an accepted configuration (`BootsAccepted`), unaccepted rules are guarded by a marker or a job (`RulesGuarded`), and the invariant of the proof holds (`IInv`) |
| `sdn_settled` | configurations that differ in interfaces as well, 3 changes, no crash; failing rulesets, arming and writes; enable and disable | at rest `config.json`, ruleset, interfaces file and links agree; no `applying.json` is left; a disabled firewall leaves nothing; a confirmation is final |
| `sdn_revert` | changes under auto-revert, 3 changes, 2 crashes (portal or reboot); restored entries, instance forwards, Revert now; failing writes and arming | the same agreement after crashes in applies and reverts; the countdown replaces unaccepted rules whenever the portal dies (`TrialEnds`) |
| `sdn_trial` | 2 changes, 2 reboots, failing links, rulesets, safe mode, arming, writes | the files implement `SDNTrial`; a pending change is resolved |
| `sdn_faults` | every operation but instance forwards, every fault but failing links, 2 changes, 1 crash | types; a change recorded as reverted is never confirmed |
| `gw_faults` | a preferred PPPoE link with a spare one, alone, or no gateway; every fault but a portal that starts during a disable (`start`), 2 events | default route and tables follow the verdicts after each cycle whose commands worked; the hold time is served across restarts; only dead links are hung up |
| `gw_settles` | two monitored gateways, any probe may be lost, 1 event | traffic ends on the best gateway that answers |
| `backup_chain` | a local and a remote destination, two parts, one job at a time, 4 snapshots, 1 fault, 2 user operations | a destination and the instance keep a common snapshot unless the user removes it (`ChainKept`); a job that says done has stored its snapshot (`DoneStored`); a job that meets no fault succeeds (`HealthySucceeds`) |
| `backup_v_overlap` | two jobs to one destination | violation of `ChainKept`, section 6 |
| `snap_runs` | a policy that replicates remotely and may be moved, one that replicates locally, labels of which one begins with the other; 4 snapshots, 1 fault, 2 admin operations | the remembered base can be built on (`BaseUsable`); a remote replication succeeds or recovers, unless the remote cannot be cleaned (`RemoteRecovers`); retention keeps its number (`RetentionFloor`) |
| `upgrade_write` | two goroutines, three versions, 2 requests, 1 cancellation, 2 faults | one upgrade at a time (`TypeOK`); a write in progress is known (`WriteGuarded`), "done" is true (`DoneIsWritten`), only verified images are written (`OnlyVerified`), the admin's and the unit's reboots spare the write (`RebootSparesWrite`), a cancelled upgrade ends (`CancelEnds`) |
| `term_views` | two connections, a ring of 3, chunks of 2 and 4, 4 bytes, 1 stall that may last for ever | the ring replays the end of the output (`RingIsTail`), nothing is missed (`NothingMissed`), what ended has nobody (`EndedIsEmpty`), the controller is attached (`ControllerAttached`), ends are cleaned up and output flows, unless a window is stuck in a write of its own goroutine (`EndCleansUp`, `OutputFlows`) |

*Why the bounds are enough.* Commit-confirm: at most one change is pending, so
two changes give every pair of "one pending, one before or after it"; a second
crash falls into the recovery from the first. The third change of
`sdn_settled` is the one after an enable and its revert, that of `sdn_revert`
the restored entry. Two configurations
besides the default are the old and the new one. Gateway: two gateways of
which one is preferred give failover, failback and "nothing usable"; a window
of 3 with a threshold of 60 % needs two losses of three, as 5 with 50 % needs
three of five; hold and down times of two cycles tell "once" from
"long enough"; a `MaxPause` of twice the first lets the pause double and
stop. Two events are a fault in the recovery from another. Backups: with
retention 2, four snapshots are a full and two incremental runs and one more
that prunes; a fault and two user operations fall between any two of them.
Snapshot policies: four snapshots at retention 1 or 2 make a base, lose it to
retention, fail once and recover; the two jobs and an edit can all overlap.
Appliance: the second request meets whatever the first left, the second fault
falls into the recovery from the first; a third version tells the staged files
apart. Terminal: two chunks of 2 wrap a ring of 3, one of 4 is larger than it; one
that ends at its end rests on the theorem `RingTail`.
The constants named `Max...` are the only bounds on behaviours.

Deadlock is checked in the firewall's runs where some process or the admin can
always act. In the others the system may really stop: the admin deletes the last policy, the snapshots or requests of the bound are used up, a terminal has
ended, an appliance has been rebooted with a stick on which a write failed.

## 4. Fairness

`SDNCommit`'s `FairSpec`: a lock holder that can take a step takes it
(`JobStep`: the process runs and the commands it waits for
return); the service's countdown ends (`RevertServiceFires`: a systemd
unit); after a boot, the boot unit and networking run (`SDNBoot`,
`NetworkUp`). Nothing forces an admin to act, and nothing forces or forbids a
crash. `SDNGateway`'s: the loop keeps turning unless it is stopped by a disable
(`SDNGatewayMonitor` never returns; its unit says `Restart=always`).
`TrafficSettles` asks for nothing of the links: its premise is that the best
answering gateway stays the same.

`ApplianceUpgrade`'s: goroutines run, and the unit's script makes progress. No
download is assumed to end: its client has no timeout; what ends it is the
cancelled context (`DownloadFails`). The signature's client gives up after 30
seconds, so `Verify` is fair.

`TermSession`'s: timers fire, and a goroutine goes on while none of the
connections it has to write to is stalled. Nothing is assumed of the network:
TCP may give a stalled connection up, and need not, since it never gives up a
peer that acknowledges the probes of its full window. What ends such a one is
the read deadline of the window's own goroutine (`ReadFails`), as long as that
goroutine reads. While it writes itself (`Stuck`: the replay, a control frame)
nothing does, which is the exception of `EndCleansUp` and `OutputFlows`.

## 5. Proofs

Machine-checked with TLAPS, for every set of configurations, gateways, windows
and versions, every bound and every combination of operations and faults the
hypothesis allows, from the named assumptions of the modules only.

| Theorem | Module | States | Hypothesis |
|---|---|---|---|
| `TypeCorrect` | `SDNCommit_proofs` | `[]TypeOK` | |
| `BootInvariant`, `BootSafe` | `SDNBoot_proofs` | `[]IInv`, `[]BootsAccepted` | `Scope` |
| `TrialRefined` | `SDNBoot_proofs` | `ImplementsTrial` | `Whole` |
| `RulesAreGuarded` | `SDNBoot_proofs` | `[]RulesGuarded` | `Guarded` |
| `NoLateConfirm` | `SDNSettled_proofs` | `NeverReconfirmed` | |
| `ConfirmedKept` | `SDNSettled_proofs` | `ConfirmedStays` | no power cut |
| `HealingAlwaysResumes` | `SDNSettled_proofs` | `[]HealingResumes` | `NoCrash` |
| `AllSettled`, `DisableCleans` | `SDNSettled_proofs` | `[]SettledAgrees`, `[]DisabledIsClean` | `Calm` |
| `TypeCorrect` | `SDNGateway_proofs` | `[]TypeOK` | |
| `HoldAlwaysServed` | `SDNGateway_proofs` | `HoldServed` | `NoHop` |
| `OnlyDeadHungUp` | `SDNGateway_proofs` | `HangsUpOnlyDead` | |
| `DefaultRouteFollows` | `SDNGateway_proofs` | `DefaultFollows` | |
| `TablesAlwaysFollow` | `SDNGateway_proofs` | `TablesFollow` | no portal starts during a disable |
| `TypeCorrect` | `ApplianceUpgrade_proofs` | `[]TypeOK`, with one upgrade at a time | |
| `WritesAreGuarded`, `DoneMeansWritten`, `VerifiedOnly` | `ApplianceUpgrade_proofs` | `[]WriteGuarded`, `[]DoneIsWritten`, `[]OnlyVerified` | |
| `RebootsSpareWrites` | `ApplianceUpgrade_proofs` | `RebootSparesWrite` | |
| `TypeCorrect`, `ControllerSeated` | `TermSession_proofs` | `[]TypeOK`, `[]ControllerAttached` | |
| `RingTail`, `EndStays`, `NoOutputLost` | `TermSession_proofs` | `[]RingIsTail`, `[]EndedIsEmpty`, `[]NothingMissed` | |
| `TypeCorrect` | `LXDBackup_proofs` | `[]TypeOK`, with the snapshots a restored instance hangs off | |
| `DoneMeansStored`, `HealthyRunsSucceed` | `LXDBackup_proofs` | `[]DoneStored`, `[]HealthySucceeds` | `OneJob` |
| `ChainIsKept` | `LXDBackup_proofs` | `[]ChainKept` | `OneJob`, `Apart`, `Room` |
| `TypeCorrect` | `SnapSchedule_proofs` | `[]TypeOK` | |
| `RetentionKeeps` | `SnapSchedule_proofs` | `RetentionFloor` | `Prudent` |
| `NeverTwice` | `SnapSchedule_proofs` | `[](\A p \in Policy : strikes[p] < 2)`, the second half of `RemoteRecovers` | |
| `BasesUsable`, `Recovers` | `SnapSchedule_proofs` | `[]BaseUsable`, `[]RemoteRecovers` | `DestApart` |

*The hypotheses* say which failures a property survives; each leaves out only
what breaks the property in the code (section 6). `Scope`: no enable, no failing
`SaveConfirmed`, no power cut. `Whole`: `Scope`, no death of the portal without
the machine (`handlers/sdn.go:391` below), no disable (a history entry may be restored on a
disabled firewall, whose marker no boot looks at). `Guarded`: `Scope`, no refresh of the rules at the
start of the portal, and the rules of safe mode load. `NoCrash`: neither the
portal nor the machine crashes. `Calm`: of all faults only rulesets that do not
load, a service that does not arm and writes that fail (all but
`config.json`'s), and no instance forward, refresh or
restored history entry (`HandleSDNRestore` does not ask whether the firewall is
enabled). `NoHop`: the time a gateway has no next hop does not count against
its health. `OneJob`: backups of an instance follow one another. `Apart`: no
prefix covers another one, no two destinations share theirs. `Room`: a snapshot
schedule keeps fewer snapshots than the backup retention. `Prudent`: nobody uses
Run now, or (`Ordered`) of two labels one of which begins the other's names the
longer keeps at least as many. `DestApart`: no dataset receives from two
policies, nor locally and remotely from one. The runs satisfy them:
`sdn_crash` is within `Scope`, `sdn_trial` is `Whole`, `sdn_settled` is `Calm`,
`gw_faults` has no `"hop"` interruption, `backup_chain` has one job, distinct
prefixes, and keeps 1 scheduled snapshot and 2 restore points; `MCSnapSchedule`
assumes `Prudent` and `DestApart` (`Respected`), which TLC evaluates before
`snap_runs`.

*Types.* `TypeOK` of `SDNCommit` is not inductive: the steps that index the
history with the change id of the job need it to be an id. `TypeInv` adds, per
operation, where the job may stand and that its id is one.

*Boot.* `BootsAccepted` says nothing while a marker exists, which is
when all of the work happens. `MarkInv` says what the marker is worth: its
revert point is accepted, and `config.json` holds an accepted configuration or
the one on trial. Preserving it needs to know what a job in the middle is
about to write; `JobInv` says so for each operation: an apply under
auto-revert has taken its revert point from the running configuration and has
set its marker before it reaches the interfaces; one without is of an accepted
configuration; a revert writes back what the revert point holds; a
confirmation confirms the change of the marker. Most actions touch none of the
files of `core` and are dispatched by two frame lemmas.

*Trial.* The refinement needs to know which of two configurations `config.json`
holds when the marker goes. `TrialInv`: the one to go back to, when a revert or
a failed apply removes it. `WholeInv`: the change on trial, when a confirmation
does. The latter needs that whoever finds the lock free while a marker exists
finds the change saved (`Confirmable`): an apply lets the lock go only after
saving or without a marker, and after a reboot the boot reverts before the
portal starts (`PhaseInv`). Most steps write none of these files and stutter,
decide (`Decide`) or are forgotten (`RefineMove`); `WritePending` is `Try`, a
failed `ArmRevert` is `Drop`, `RemovePending` is `Keep` or `Drop`,
`SaveConfirmed` without a marker is `Adopt`. `RulesInv` says of the ruleset
what `TrialInv` says of the files and gives `RulesGuarded`.

*Outcomes.* Two steps write them. `FreshInv`: `AddSnapshot` finds an entry that
nobody has written, and a confirmation works on one that no revert has written;
`FinalInv`: a revert works on what the marker names, which is never a confirmed
change.

*Settled.* `SettledAgrees` says nothing while a job is under way. `SInv` says
where it stands at each control point: which points it reaches (`ShapeInv`),
when there is a marker to undo (`MarkerInv`), how far the links and the
interfaces file have been brought (`LinkInv`), which rules are loaded, and from
where on all agree again (`KernelInv`). `HealingResumes` needs only where
`applying.json` is between being written and removed (`HealInv`).

*Gateways.* `HoldServed` relates a history (`quiet`) to a published state:
`HealthInv` ties the health clock of a tracker to `quiet`, with the exception of
a probe that failed in the round under way, and `PublishedInv` the published
state to the trackers, restarts included. `HangsUpOnlyDead`: a record that says
"failed last" is about a link that has not answered since (`DeadInv`), although
rounds pass in which it is not probed. `DefaultFollows` needs what `PlanRoutes`
computes (`BestIs`, `PlanIs`, `PlanTables`), and both routes properties that a
write is skipped only when the kernel still holds the plan: `TableInv` says what
it holds of the last plan, `SyncInv` how many rules.

*Appliance.* One invariant for all five: `StickFollows` ties the stick to the
unit, `StagedOK` says whose files are staged at each control point, `Quiet` what
holds until a write begins behind a request that was already checked
(`raced`): nobody else is under way while the unit writes, what
startApplianceImageWrite has done so far is still so, rc 0 stands for a whole
stick, the image in hand is verified.

*Terminal.* Of the ring, the invariant says which byte
each cell holds in terms of `pos`, `full` and the length of the output; a write
is then arithmetic modulo its size. `NothingMissed` speaks of the moments
between two reads; its invariant (`Shape`, `Sent`) says where the bytes a
window is owed are meanwhile: in the snapshot of the ring it is to be sent, or
in the chunk in hand while the window is among those still to be reached.
`Seated` says of a window that stays that it is in the set unless a write to it
failed.

*Backups.* Along the parts of a job: what is still to be sent is older than its
snapshot (`FreshInv`), what was sent is not (`StoredInv`), and nothing is sent
to a dataset whose chain is broken (`HealthyInv`). `ChainKept` is about the time
between jobs, but what decides it happens within one: `ChainInv` says that the
job's snapshot has its destination's prefix, that only scheduled ones are newer
(`Marked`), that these are fewer than retention keeps (`FewAutos`), so that
retention never removes the job's snapshot from a part that was sent (`Held`),
and that pruning the anchors leaves it as the newest of its prefix. A transfer
that breaks off rolls back only what is newer than the common snapshot. For a
job that was interfered with, `Held` is claimed only while the destination is
still sound from an earlier one (`Owed`). The lemmas on `Newest` and `NewestN`
need a least element and finite sets, taken from the library.

*Snapshot policies.* `RetentionFloor` is about one moment, the destruction of a
snapshot that was listed earlier: `KeptInv` says of every snapshot a job still
means to destroy that enough newer ones exist. The oldest goes first, so a job
never takes away what its own remaining victims are counted by; what the other
job takes away has itself enough newer ones, and these count for the victim
as well if the labels are the same or `Ordered`. `Covers` is what a prefix of
names can be, which is where comparing labels comes from (`ScheduleAssumption`).
For the replications the question is what a copy of the file is worth while
others write. `SoleInv` follows a job that has the file to itself: its copy is
the file with the results so far, the newest snapshot survives retention, and
what `PrepareReplication` found still holds at the send. Hence a send without a
fault fails only for a base that is on the dataset and not on the remote
(`SoleFlows`); after such a failure no base is left (`StrikeInv`), so that the
next is a full one. To a remote that could be cleaned it does not fail:
`NeverTwice`, without a hypothesis. A remote with several snapshots cannot be
cleaned; the failures of such sends are not counted (`hit`).
`CalmInv` says that while nothing overlapped such a base does not exist in any
copy of the file: a stream, whole or broken, keeps the base it started from,
and a remote is cleaned only when the base is gone from the dataset, which
touches no other policy (`WhereIs`).

*Only model-checked.* Liveness (`PendingResolves`, `TrialEnds`,
`TrafficSettles`, `CancelEnds`, `EndCleansUp`, `OutputFlows`), since this prover
does neither fairness nor `ENABLED`. Every other property of a passing run is
stated by a theorem.

## 6. Known divergences

Kept as a run that TLC must find violated (`findings` of `PROJECT.json` quotes
the lines): `backup_v_overlap` (`handlers/lxd_backups.go:760`). Nothing keeps
two backups of an instance to one destination apart. The first to finish prunes
every anchor but the newest, which is the other's and was not sent yet; no
common snapshot is left and the next job wipes the destination.

Met while modelling, and shown by the same modules with these constants (what
is not named is as in the component's first passing run); a formula that is
not a property of the modules is given in full:

| Where | Constants | What happens |
|---|---|---|
| `handlers/sdn.go:437` | `Ops = {apply, revertnow}`, `AutoChoices = {TRUE}`, `Faults = {portal}`, `FairSpec`: `TrialEnds` without `Answered` | Revert now stops the service before it reverts; the portal dies in between, and the revert that "still happens" if "the portal dies" (`sdn_revert.go:59`) does not: the rules stay until somebody answers or reboots |
| `handlers/sdn.go:391` | `Ops = {apply, confirm}`, `AutoChoices = {TRUE}`, `Faults = {portal}`: `SettledAgrees`, `ImplementsTrial` | Confirm looks at the marker and not whether `config.json` holds the change: one the portal died on, loaded but not saved, is confirmed, and the next reboot brings up the old one |
| `sdn_gwmon.go:509` | `gw_faults` with `Faults = {config, write}`, `MaxEvents = 3`: `[][CleanCycle /\ rulesFor = Len(seen.c) => rules = Len(seen.c)]_vars` | the ip rules are synced when the number of gateways differs from the last one synced without an error; a sync that failed for another number in between leaves them incomplete for good, against "SDNSyncRules makes the ip rules match the config" (`sdn_route.go:16`) |
| `main.go:160` | `gw_faults` with `Faults = {disable, start}`: `disable = "done" => rules = 0` | a portal that starts while a disable undoes the routing starts the stopped monitor again, which puts rules back; "must not put its routes back while we undo them" (`sdn_boot.go:264`) |
| `system/replication.go:104` | `snap_runs` with `Faults = {send}`, `AdminOps = {}`: `[][\A j \in Jobs : (job[j].pc = "send" /\ job[j].base = 0 /\ RunReplication(j) /\ UNCHANGED faults) => job'[j].mem[At(j)].lastRep = job[j].snap]_vars` | all snapshots of the remote are given to one `zfs destroy`, which takes one argument; with two or more the cleaning fails, the full send is refused, and so is every later one: what line 95 says the cleaning is there to prevent |
| `system/ups.go:900` | `upgrade_write` with `Faults = {ups}`: `[][UPSShutdown /\ ~raced => stick.state # "writing"]_vars` | the shutdown on battery does not ask whether the stick is being written; "Reboot and shutdown refuse while it is" (`appliance_upgrade.go:396`) |
| `internal/termsessions/store.go:207` | `term_views` with one window: `\A v \in Viewers : at[v] = "gone" => controller # v` | a window whose connection was removed by a failed write takes control with a message that was still to be processed; nobody controls the terminal then ("the session goes uncontrolled", line 176), and no window that attaches gets it |
| `sdn_boot.go:300` | `Ops = {enable}`, `Faults = {undo}`: `RulesGuarded` | the revert of an enable fails to write the interfaces file; the marker goes, the unconfirmed table stays |
| `sdn_selfheal.go:424` | `Ops = {apply}`, `AutoChoices = {FALSE}`, `Faults = {portal}`: `HealingResumes` | `applying.json` of a killed apply stays and self-healing with it |
| `sdn_boot.go:405` | `Ops = {apply, refresh}`, `AutoChoices = {FALSE}`, `Faults = {reboot}`: the ruleset part of `SettledAgrees` | the refresh loads a configuration it read before an apply |
| `sdn_boot.go:36` | `Ops = {enable}`, `Faults = {reboot}`, `FairSpec`: `PendingResolves` | the boot unit is skipped while `config.json` does not exist yet |
| `handlers/sdn.go:313` | `Ops = {apply}`, `AutoChoices = {TRUE}`, `Faults = {nft, reboot}`: `SettledAgrees` | the marker is removed before the interfaces are restored |
| `sdn_instfwd.go:108` | `Ops = {enable, confirm, disable, instance}`, the configurations of `sdn_crash`: `DisabledIsClean` | a forward is applied after a disable |
| `sdn_revert.go:130` | `Faults` with `save`: `BootsAccepted` | a revert ignores that `config.json` could not be written |
| `handlers/sdn.go:512` | `Ops = {enable}`, `Faults = {portal}`: `BootsAccepted` | an enable cut off before its marker is kept |
| `sdn_revert.go:40` | `Ops = {apply}`, `Faults = {powercut}`: `BootsAccepted` | `pending.json` is not fsynced, `config.json` is: the power cut loses the marker and keeps the change |
| `internal/termsessions/store.go:138`, `617` | without `Stuck`: `EndCleansUp`, `OutputFlows` | writes have no deadline, and the keepalive's ping waits for the same lock: a window that stops reading in its replay, or in a control frame it sends itself, is not reached by its read deadline; the broadcast waits for it, and with it the output of every window, and so does the end of the session |
| `handlers/power.go:10`, `handlers/appliance_upgrade.go:503` | without `~raced`: `RebootSparesWrite`, `WriteGuarded` | a write begins between the check and the act; a second upgrade accepted this way removes the log of the first one's write, and with it the guard |
| `system/lxd_backups.go:1261` | `backup_chain` with `Keep = 1`: `ChainKept` | retention counts the schedule's snapshots, which are replicated too: a schedule that keeps as many pushes the anchor out of the destination |
| `system/lxd_backups.go:1428` | `backup_chain` with `Covers[la] = {la, lb}` for the prefixes of two destinations: `ChainKept` | `HasPrefix(name, prefix + "-")` also takes the anchors of a datastore "tank-2" for those of "tank"; two pools of one peer even share the prefix (`handlers/lxd_backups.go:692`) |
| `handlers/lxd_backups.go:760` | `backup_chain` with `Jobs = {j1, j2}`: `HealthySucceeds`, `DoneStored` | a job, also one to another destination, prunes the snapshot a second one found in common between that one's look at the chain and its transfer, which is then refused; to one destination the second job also wipes what the first has just reported as stored (`DoneStored`) |
| `handlers/schedules.go:417` | `First = <<p1, p2>>` without replication, p1 keeping 2 of "auto" and p2 1 of "auto-db" (not `Ordered`), `AdminOps = {now}`, `Faults = {}`, `MaxSnaps = 6`: `RetentionFloor` | retention of "auto" counts the snapshots of "auto-db"; a Run now of p2 destroys what a tick counted when it listed its victims, and these go although fewer than 2 are left |
| `system/replication.go:104` | the same with both keeping 4 and replicating to one remote dataset (not `DestApart`): `BaseUsable`, `RemoteRecovers` | the full send of one policy destroys the base of the other on the remote, whose next run fails |
| `system/replication.go:98` | p1 replicating to one dataset locally and remotely (not `DestApart`), a failed send: `BaseUsable` | the cleaning before the remote send destroys what the local replication builds on |

This is why the passing runs of `SDNCommit` each restrict operations and
faults: each says under which failures its properties do hold.

Met while modelling, and read off the actions:

- `schedules.go:300`: a local replication that fails keeps its base. Once
  retention has destroyed it (at retention 2 after one failed run, at retention
  1 at once), or the policy has another destination, every later run fails the
  same way; the remote path resets the base "so next run does a full send
  instead of retrying a stale base" (`schedules.go:378`).
- `schedules.go:244`: a tick writes back the file as it was before its
  replications; an edit made meanwhile is lost, a deleted policy comes back.
- `schedules.go:417`: retention of the label "auto" counts and destroys the
  snapshots of a label "auto-db".
- `appliance_upgrade.go:347`: rc is read before systemd is asked. A write that
  ends in between is logged as "stopped unexpectedly", and its files stay
  staged.
- `sdn_gwmon.go`: the time a PPPoE gateway has no session counts as health
  (`gwstate.go:77`); after a partly failed write, returning to the plan before
  it counts as written (347); an Ethernet gateway taken down and up has empty
  tables under an unchanged plan (333); a restart forgets that a PPPoE link
  ever answered (419). `sdn_boot.go:301`: a disable that cannot write the
  interfaces file returns with the firewall enabled and the monitor stopped,
  until the portal starts again.
- `store.go:365`: a window that attaches between the write of a chunk to the
  ring and its broadcast is sent the chunk twice.
- `lxd_backups.go:600`, `lxd_snap_schedule.go:259`,
  `mergerfs_snap_schedule.go:298`: "every 1 month" is accepted and never due
  (`month % 1 == 1`).

## 7. What is not modelled

In the modelled parts: the text of rulesets, stanzas and messages; the
optional services an apply also restarts (DNS, DHCP, WireGuard, IDS, dynamic
DNS), whose failures it only logs; the 15-entry limit of the history; the
length of the countdown; a `pending.json` or `applying.json` that cannot be
removed (writes fail in the model, removals do not). In the gateway monitor: latency rings, the event
list, connection flushing, static routes, disabled interfaces, the metric of a
DHCP client's own default route (a DHCP router is known while the lease
lasts), per-gateway thresholds (one set for all). A whole round of `ip`
commands is one step; which of them fail is free: the ones through a link
that is down, and at most one more.

In the backups: custom volumes, encryption keys, the lists of the user
interface, restore as a new instance beyond its clone. In the snapshot
policies: the calendar, recursive streams, destinations nested in one another
(the cleaning of a remote is recursive), the setting up of ssh keys, a
half-written policy file (`SavePolicies` does not rename). In the appliance
upgrade: the choice of the release and of the staging pool, sizes and free
space (a fault), progress counters, power cuts. In the terminals: keystrokes
and sizes, the list and the cap of a user's terminals, spawning.

Compilers and validation are pure text work; the ZFS, share and instance parts
are wrappers around external programs; the web pages are browser code.

## 8. Plan

In this order; each joins the runs above where it shares their state.

1. `SDNDraft`: drafts with their base and the two-browser race
   (`store.go` 90-134, the draft handlers), composed with an apply.
2. `SDNHeal`: self-healing and the PPPoE watch against an apply in progress,
   with the redial as a liveness property.
3. Sessions with TOTP and rate limit and their file; the swap and roll-back of
   the portal's binary; Interlink pushes with retries; job board; alert
   repeats; the UPS thresholds; the calendars and metrics rings as pure functions
   against a reference.
