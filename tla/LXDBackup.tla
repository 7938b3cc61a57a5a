----------------------------- MODULE LXDBackup -----------------------------
(***************************************************************************)
(* The backups of one instance: the snapshots taken on it, the datasets    *)
(* they are replicated to, retention on both sides, the self-heal of a     *)
(* broken incremental chain, and restoring from a destination.             *)
(*                                                                         *)
(* A snapshot is its position in fam, the order of creation; fam names the *)
(* prefix it was taken under.  The root file system and the block device   *)
(* of an instance are snapshotted together, so src is one set, while each  *)
(* destination keeps one dataset per part.  Custom volumes, which syncoid  *)
(* snapshots on its own, are left out.                                     *)
(*                                                                         *)
(* syncoid and ZFS are external: they are modelled by what the code relies *)
(* on (incremental from the newest common snapshot, all snapshots in       *)
(* between included; a stream that breaks leaves the snapshots it has      *)
(* completed; a snapshot with a clone cannot be destroyed).                *)
(***************************************************************************)
EXTENDS Integers, Sequences, FiniteSets

CONSTANTS
  Dests,      \* destinations the instance is backed up to
  Remote,     \* the destinations on a linked server
  LabelOf,    \* prefix "bkp-to-<label>" of each destination's snapshots
  AutoLabel,  \* prefix of the instance's snapshot schedule
  Covers,     \* Covers[l]: prefixes whose snapshot names begin with l and a dash
  Parts,      \* the parts of a backup in the order they are sent
  Keep,       \* RetentionCount of the backup policy
  AutoKeep,   \* KeepLast of the snapshot schedule
  Jobs,       \* backup goroutines that may run at a time
  None,       \* no destination, no snapshot, no instance
  Faults,     \* faults that may happen, see below
  UserOps,    \* what happens besides backups, see below
  MaxSnaps,   \* bound: snapshots ever taken
  MaxFaults,  \* bound: faults
  MaxUser     \* bound: cancellations, deletions, restores

PartSet == {Parts[i] : i \in 1..Len(Parts)}
Label   == {LabelOf[d] : d \in Dests} \cup {AutoLabel}

ASSUME BackupAssumption ==
  /\ IsFiniteSet(Dests) /\ Remote \subseteq Dests
  /\ AutoLabel \notin {LabelOf[d] : d \in Dests}
  /\ Covers \in [Label -> SUBSET Label] /\ \A l \in Label : l \in Covers[l]
  /\ Parts \in Seq(PartSet) /\ Len(Parts) >= 1
  /\ \A i, k \in DOMAIN Parts : Parts[i] = Parts[k] => i = k
  /\ Keep \in Nat \ {0} /\ AutoKeep \in Nat \ {0}
  /\ MaxSnaps \in Nat /\ MaxFaults \in Nat /\ MaxUser \in Nat
  /\ Faults \subseteq {"step", "stream", "peer", "crash"}
  /\ UserOps \subseteq {"auto", "cancel", "delsnap", "delpoint", "delbackup",
                        "instant", "drop"}

VARIABLES
  fam,      \* the prefix of every snapshot ever taken
  src,      \* snapshots on the instance
  has,      \* has[d]: the parts that have a dataset at d
  dst,      \* dst[d][p]: the snapshots of that dataset
  job,      \* job[j]: the backup goroutines
  inst,     \* the instance restored from a backup, or None
  sound,    \* history: d completed a backup and the user removed nothing since
  faults, user

vars == <<fam, src, has, dst, job, inst, sound, faults, user>>

Idle == [pc |-> "idle", dest |-> None, snap |-> 0, at |-> 0,
         status |-> "none", cut |-> FALSE, hit |-> FALSE]

Init ==
  /\ fam = <<>> /\ src = {}
  /\ has = [d \in Dests |-> {}]
  /\ dst = [d \in Dests |-> [p \in PartSet |-> {}]]
  /\ job = [j \in Jobs |-> Idle]
  /\ inst = None
  /\ sound = {}
  /\ faults = 0 /\ user = 0

(***************************************************************************)
(* Snapshots and retention                                                 *)
(***************************************************************************)
Newest(S) == CHOOSE x \in S : \A y \in S : y <= x

\* The newest n of a set of snapshots.
NewestN(S, n) == {x \in S : Cardinality({y \in S : y > x}) < n}

\* The snapshots whose name begins with a prefix.
Family(l, S) == {x \in S : fam[x] \in Covers[l]}

\* BackupDependents: an instance runs off a backup at d.
BackupDependents(d) == inst # None /\ inst.from = d

\* Snapshots of part p at d that a restored instance hangs off.
Pinned(d, p) ==
  IF BackupDependents(d) /\ p \in DOMAIN inst.at THEN {inst.at[p]} ELSE {}

\* LXDPruneRetentionByCount with an empty prefix: every snapshot counts, one
\* with a clone refuses to die and is skipped.
PruneRetentionByCount(d, p) ==
  NewestN(dst[d][p], Keep) \cup (dst[d][p] \cap Pinned(d, p))

HasCommonSnapshot(d, p) == src \cap dst[d][p] # {}

\* Mutant: a broken chain is noticed but the destination is left as it is.
MutBroken(d) == {}

\* The datasets of d whose chain is broken and that can be destroyed.
Broken(d) == {p \in has[d] : ~HasCommonSnapshot(d, p) /\ Pinned(d, p) = {}}

Wipe(d, ps) ==
  /\ has' = [has EXCEPT ![d] = @ \ ps]
  /\ dst' = [dst EXCEPT ![d] = [p \in PartSet |-> IF p \in ps THEN {} ELSE @[p]]]

(***************************************************************************)
(* A backup job.                                                           *)
(*   queued -> [reach] -> prep -> send -> retain ... -> prune -> [peer]    *)
(* Local destinations prepare, send and retain part after part; a remote   *)
(* one prepares all, sends all, and retains at the end.                    *)
(***************************************************************************)
Dest(j) == job[j].dest
Part(j) == Parts[job[j].at]
IsLast(j) == job[j].at = Len(Parts)

Goto(j, pc) == job' = [job EXCEPT ![j].pc = pc]

\* The end of the goroutine: a job the user cancelled stays canceled, any
\* other error is an error.
Finish(j, ok, fault) ==
  /\ job' = [job EXCEPT ![j].pc = "idle",
                        ![j].status = IF @ = "canceled" THEN @
                                      ELSE IF ok THEN "done" ELSE "error",
                        ![j].hit = @ \/ fault]
  /\ sound' = IF ok /\ ~job[j].hit THEN sound \cup {Dest(j)} ELSE sound

Fault(f) == f \in Faults /\ faults < MaxFaults /\ faults' = faults + 1

\* startBackupJob, by the schedule or by Backup now.
StartBackupJob(j, d) ==
  /\ job[j].pc = "idle"
  /\ Len(fam) < MaxSnaps
  /\ job' = [job EXCEPT ![j] = [Idle EXCEPT !.pc = "queued", !.dest = d, !.status = "queued"]]
  /\ UNCHANGED <<fam, src, has, dst, inst, sound, faults, user>>

\* The first lines of runBackupJob; the running status overwrites a cancel
\* that came first.
CreateSnapshot(j) ==
  /\ job[j].pc = "queued"
  /\ Len(fam) < MaxSnaps
  /\ fam' = Append(fam, LabelOf[Dest(j)])
  /\ src' = src \cup {Len(fam) + 1}
  /\ job' = [job EXCEPT ![j].pc = IF Dest(j) \in Remote THEN "reach" ELSE "prep",
                        ![j].status = "running",
                        ![j].snap = Len(fam) + 1, ![j].at = 1]
  /\ UNCHANGED <<has, dst, inst, sound, faults, user>>

\* The snapshot, the dataset enumeration, the parent dataset or the peer
\* fails: the job ends with its snapshot in place.
StepFails(j) ==
  /\ \/ job[j].pc \in {"queued", "reach"}
     \/ job[j].pc = "prep" /\ job[j].at = 1
  /\ Fault("step")
  /\ Finish(j, FALSE, TRUE)
  /\ UNCHANGED <<fam, src, has, dst, inst, user>>

\* The peer compares the names it is sent with what it holds.
RemotePrepChain(j) ==
  /\ job[j].pc = "reach"
  /\ Wipe(Dest(j), Broken(Dest(j)))
  /\ Goto(j, "send")
  /\ UNCHANGED <<fam, src, inst, sound, faults, user>>

\* The prep-chain call fails: the job goes on.
RemotePrepChainFails(j) ==
  /\ job[j].pc = "reach"
  /\ Fault("peer")
  /\ job' = [job EXCEPT ![j].pc = "send", ![j].hit = TRUE]
  /\ UNCHANGED <<fam, src, has, dst, inst, sound, user>>

PrepLocalBackupChain(j) ==
  /\ job[j].pc = "prep"
  /\ Wipe(Dest(j), Broken(Dest(j)) \cap {Part(j)})
  /\ Goto(j, "send")
  /\ UNCHANGED <<fam, src, inst, sound, faults, user>>

\* The newest snapshot both sides have.
Common(j) == Newest(src \cap dst[Dest(j)][Part(j)])

\* What syncoid has to build on, and what it sends: everything on the
\* instance for a new dataset, everything after the common snapshot else.
\* Snapshots the destination has after the common one are rolled back.
Base(j) ==
  IF Part(j) \notin has[Dest(j)] THEN {}
  ELSE {x \in dst[Dest(j)][Part(j)] : x <= Common(j)}

Stream(j) ==
  IF Part(j) \notin has[Dest(j)] THEN src ELSE {x \in src : x > Common(j)}

\* syncoid refuses: no common snapshot, or a clone stands in the way of the
\* rollback.
Refused(j) ==
  LET d == Dest(j) p == Part(j) IN
  /\ p \in has[d]
  /\ HasCommonSnapshot(d, p) =>
       Stream(j) # {} /\ \E x \in Pinned(d, p) : x > Common(j)

Land(j, S) ==
  /\ has' = [has EXCEPT ![Dest(j)] = @ \cup {Part(j)}]
  /\ dst' = [dst EXCEPT ![Dest(j)][Part(j)] =
                IF Stream(j) = {} THEN @ ELSE Base(j) \cup S]

\* RunSyncoidLocal or RunSyncoidRemote of one part.
RunSyncoid(j) ==
  /\ job[j].pc = "send" /\ ~job[j].cut /\ ~Refused(j)
  /\ Land(j, Stream(j))
  /\ job' = [job EXCEPT
       ![j].pc = IF Dest(j) \notin Remote THEN "retain"
                 ELSE IF IsLast(j) THEN "prune" ELSE "send",
       ![j].at = IF Dest(j) \in Remote /\ ~IsLast(j) THEN @ + 1 ELSE @]
  /\ UNCHANGED <<fam, src, inst, sound, faults, user>>

SyncoidRefuses(j) ==
  /\ job[j].pc = "send" /\ ~job[j].cut /\ Refused(j)
  /\ Finish(j, FALSE, FALSE)
  /\ UNCHANGED <<fam, src, has, dst, inst, faults, user>>

\* Mutant: the error of syncoid is logged and the job goes on to its end.
MutSyncoidBreaks(j) ==
  /\ job[j].pc = "send" /\ ~job[j].cut /\ ~Refused(j)
  /\ Fault("stream")
  /\ Finish(j, TRUE, FALSE)
  /\ UNCHANGED <<fam, src, has, dst, inst, user>>

\* The stream breaks after some of its snapshots.  Broken within the first one
\* of a new dataset it leaves an empty dataset to resume into, or nothing.
SyncoidBreaks(j) ==
  /\ job[j].pc = "send" /\ ~job[j].cut /\ ~Refused(j)
  /\ Fault("stream")
  /\ Finish(j, FALSE, TRUE)
  /\ \/ \E m \in Stream(j) : Land(j, {x \in Stream(j) : x < m})
     \/ UNCHANGED <<has, dst>>
  /\ UNCHANGED <<fam, src, inst, user>>

\* A cancelled context kills syncoid, or keeps it from starting.
SyncoidKilled(j) ==
  /\ job[j].pc = "send" /\ job[j].cut
  /\ Finish(j, FALSE, FALSE)
  /\ \/ /\ ~Refused(j)
        /\ \E m \in Stream(j) : Land(j, {x \in Stream(j) : x < m})
     \/ UNCHANGED <<has, dst>>
  /\ UNCHANGED <<fam, src, inst, faults, user>>

\* applyBackupRetention of the part just sent to a local destination.
ApplyBackupRetention(j) ==
  LET d == Dest(j) p == Part(j) IN
  /\ job[j].pc = "retain"
  /\ dst' = [dst EXCEPT ![d][p] = PruneRetentionByCount(d, p)]
  /\ job' = [job EXCEPT ![j].pc = IF IsLast(j) THEN "prune" ELSE "prep",
                        ![j].at = IF IsLast(j) THEN @ ELSE @ + 1]
  /\ UNCHANGED <<fam, src, has, inst, sound, faults, user>>

\* Mutant: the list is sorted the other way and the oldest anchor stays.
MutPrunedAnchors(l) ==
  (src \ Family(l, src)) \cup {x \in Family(l, src) : \A y \in Family(l, src) : x <= y}

\* PruneSourceBackupAnchors: of the destination's prefix only the newest
\* snapshot stays on the instance.
PrunedAnchors(l) == (src \ Family(l, src)) \cup NewestN(Family(l, src), 1)

PruneSourceBackupAnchors(j) ==
  /\ job[j].pc = "prune"
  /\ src' = PrunedAnchors(LabelOf[Dest(j)])
  /\ IF Dest(j) \in Remote
     THEN Goto(j, "peer") /\ UNCHANGED sound
     ELSE Finish(j, TRUE, FALSE)
  /\ UNCHANGED <<fam, has, dst, inst, faults, user>>

\* Retention on the peer; when the call fails the job is done all the same.
RemotePruneRetention(j) ==
  LET d == Dest(j) IN
  /\ job[j].pc = "peer"
  /\ Finish(j, TRUE, FALSE)
  /\ \/ /\ dst' = [dst EXCEPT ![d] = [p \in PartSet |-> PruneRetentionByCount(d, p)]]
        /\ UNCHANGED faults
     \/ Fault("peer") /\ UNCHANGED dst
  /\ UNCHANGED <<fam, src, has, inst, user>>

BackupStep(j) ==
  \/ CreateSnapshot(j) \/ StepFails(j)
  \/ RemotePrepChain(j) \/ RemotePrepChainFails(j) \/ PrepLocalBackupChain(j)
  \/ RunSyncoid(j) \/ SyncoidRefuses(j) \/ SyncoidBreaks(j) \/ SyncoidKilled(j)
  \/ ApplyBackupRetention(j) \/ PruneSourceBackupAnchors(j) \/ RemotePruneRetention(j)

\* The process ends: the job registry and its goroutines are gone.
Crash ==
  /\ \E j \in Jobs : job[j].pc # "idle"
  /\ Fault("crash")
  /\ job' = [j \in Jobs |-> Idle]
  /\ UNCHANGED <<fam, src, has, dst, inst, sound, user>>

(***************************************************************************)
(* The snapshot schedule and the user                                      *)
(***************************************************************************)
\* History: the step takes the last snapshot a part at d shares with the
\* instance, as pruning can to one whose first backup broke off.
Cuts(d) ==
  d \in Dests /\ \E p \in has[d] : HasCommonSnapshot(d, p) /\ src' \cap dst[d][p] = {}

\* runLXDSnapshotPolicy: a snapshot, then all but the newest AutoKeep go.
AutoSnapshot ==
  /\ "auto" \in UserOps
  /\ Len(fam) < MaxSnaps
  /\ fam' = Append(fam, AutoLabel)
  /\ src' = LET all == src \cup {Len(fam) + 1}
                autos == {x \in all : fam'[x] \in Covers[AutoLabel]}
            IN  (all \ autos) \cup NewestN(autos, AutoKeep)
  /\ job' = [j \in Jobs |-> [job[j] EXCEPT !.hit = @ \/ Cuts(Dest(j))]]
  /\ UNCHANGED <<has, dst, inst, sound, faults, user>>

User(op) == op \in UserOps /\ user < MaxUser /\ user' = user + 1

\* History: the user steps into the backups running to ds.
Touch(ds) == job' = [j \in Jobs |-> [job[j] EXCEPT !.hit = @ \/ Dest(j) \in ds]]

\* The user removes something: what the backups of ds promise starts again
\* with the next one.
Interfere(ds) == Touch(ds) /\ sound' = sound \ ds

Cancel(j) ==
  /\ User("cancel")
  /\ job[j].status \in {"queued", "running"}
  /\ job' = [job EXCEPT ![j].status = "canceled", ![j].cut = TRUE, ![j].hit = TRUE]
  /\ UNCHANGED <<fam, src, has, dst, inst, sound, faults>>

\* A snapshot is deleted from the instance's Snapshots page.
DeleteSnapshot ==
  /\ User("delsnap")
  /\ \E x \in src : src' = src \ {x}
  /\ Interfere(Dests)
  /\ UNCHANGED <<fam, has, dst, inst, faults>>

\* DeleteWorkloadBackup of one restore point: every part is tried, a part
\* whose snapshot has a clone keeps it.
DeletePoint(d) ==
  /\ User("delpoint")
  /\ Parts[1] \in has[d]
  /\ \E x \in UNION {dst[d][p] : p \in PartSet} :
       dst' = [dst EXCEPT ![d] = [p \in PartSet |-> @[p] \ ({x} \ Pinned(d, p))]]
  /\ Interfere({d})
  /\ UNCHANGED <<fam, src, has, inst, faults>>

\* Mutant: the backup is destroyed with its dependents unasked.
MutDeleteBackup(d) ==
  /\ User("delbackup")
  /\ Parts[1] \in has[d]
  /\ Wipe(d, has[d])
  /\ Interfere({d})
  /\ UNCHANGED <<fam, src, inst, faults>>

\* DeleteWorkloadBackup of the whole backup, refused while an instance runs
\* off it.
DeleteBackup(d) ==
  /\ User("delbackup")
  /\ Parts[1] \in has[d]
  /\ ~BackupDependents(d)
  /\ Wipe(d, has[d])
  /\ Interfere({d})
  /\ UNCHANGED <<fam, src, inst, faults>>

\* resolveCloneSnapshot: the one asked for, else the newest of a backup, else
\* the newest.
ResolveCloneSnapshot(S, x) ==
  LET bkps == {y \in S : fam[y] # AutoLabel} IN
  IF x \in S THEN x ELSE IF bkps # {} THEN Newest(bkps) ELSE Newest(S)

\* LXDInstantCloneRestore from a local destination: the snapshot is chosen on
\* the root file system, each other part takes the same or its own newest.
InstantCloneRestore(d) ==
  /\ User("instant")
  /\ inst = None
  /\ d \notin Remote
  /\ Parts[1] \in has[d]
  /\ \A p \in has[d] : dst[d][p] # {}
  /\ \E x \in dst[d][Parts[1]] :
       inst' = [from |-> d,
                at |-> [p \in has[d] |-> ResolveCloneSnapshot(dst[d][p], x)]]
  /\ Touch({d})
  /\ UNCHANGED <<fam, src, has, dst, sound, faults>>

\* The restored instance is deleted, or promoted to a full copy.
DropInstance ==
  /\ User("drop")
  /\ inst # None
  /\ inst' = None
  /\ Touch({inst.from})
  /\ UNCHANGED <<fam, src, has, dst, sound, faults>>

Next ==
  \/ \E j \in Jobs : BackupStep(j) \/ Cancel(j) \/ \E d \in Dests : StartBackupJob(j, d)
  \/ AutoSnapshot \/ Crash
  \/ DeleteSnapshot \/ DropInstance
  \/ \E d \in Dests : DeletePoint(d) \/ DeleteBackup(d) \/ InstantCloneRestore(d)

Spec == Init /\ [][Next]_vars

(***************************************************************************)
(* Properties                                                              *)
(***************************************************************************)
JobType ==
  [pc : {"idle", "queued", "reach", "prep", "send", "retain", "prune", "peer"},
   dest : Dests \cup {None}, snap : 0..MaxSnaps, at : 0..Len(Parts),
   status : {"none", "queued", "running", "done", "error", "canceled"},
   cut : BOOLEAN, hit : BOOLEAN]

\* Type correctness: a part without a dataset has no snapshots, and nothing
\* holds a snapshot that was never taken (PrepLocalBackupChain, RunSyncoidLocal).
TypeOK ==
  /\ fam \in Seq(Label) /\ Len(fam) <= MaxSnaps
  /\ src \subseteq 1..Len(fam)
  /\ has \in [Dests -> SUBSET PartSet]
  /\ \A d \in Dests : \A p \in PartSet :
       dst[d][p] \subseteq 1..Len(fam) /\ (p \notin has[d] => dst[d][p] = {})
  /\ job \in [Jobs -> JobType]
  /\ inst = None \/ (inst.from \in Dests /\ \A p \in DOMAIN inst.at : inst.at[p] \in dst[inst.from][p])
  /\ sound \subseteq Dests
  /\ faults \in 0..MaxFaults /\ user \in 0..MaxUser

\* Between a completed backup and the next one the chain holds: whatever
\* faults, retention, snapshot schedules and backups to other destinations do,
\* every part at the destination shares a snapshot with the instance, so that
\* PrepLocalBackupChain and HandleInterlinkPrepChain never wipe it.
ChainKept ==
  \A d \in sound : \A p \in PartSet : p \in has[d] /\ HasCommonSnapshot(d, p)

\* A job that reports "done" has stored what it was started for: every part at
\* the destination holds its snapshot or a newer one (runBackupJob).
DoneStored ==
  \A j \in Jobs : job[j].status = "done" /\ ~job[j].hit =>
     \A p \in PartSet : \E x \in dst[Dest(j)][p] : x >= job[j].snap

\* Self-heal: a job that met no fault and no user ends with an error only when
\* a restored instance hangs off the destination (PrepLocalBackupChain).
HealthySucceeds ==
  \A j \in Jobs : job[j].status = "error" =>
     job[j].hit \/ BackupDependents(Dest(j))
=============================================================================
