-------------------------- MODULE LXDBackup_proofs --------------------------
(***************************************************************************)
(* The backups of an instance for every set of destinations and prefixes,  *)
(* every number of parts and every retention count.                        *)
(*                                                                         *)
(* TypeCorrect holds for any number of concurrent jobs. The three theorems *)
(* about what a backup achieves are about jobs that follow one another     *)
(* (OneJob); ChainIsKept also needs prefixes that do not cover each other  *)
(* (Apart) and a backup retention above that of the snapshot schedule      *)
(* (Room). The program enforces none of the three, and without any one of  *)
(* them the property it is needed for fails.                               *)
(*                                                                         *)
(* BaseInv is the type invariant with what relates the variables. The      *)
(* other invariants follow a job through its parts: CourseInv is the order *)
(* of its steps, FreshInv says that a part still to be sent is older than  *)
(* the snapshot of the job, StoredInv that a part already sent is not,     *)
(* HealthyInv that a chain which was broken has been wiped before the part *)
(* is sent. ChainInv holds the argument that retention on both sides keeps *)
(* one snapshot in common: the job's own snapshot survives because only    *)
(* scheduled ones are newer and these are fewer than retention keeps, and  *)
(* between jobs it is the newest of its prefix.                            *)
(***************************************************************************)
EXTENDS LXDBackup, FiniteSetTheorems, WellFoundedInduction, TLAPS

(***************************************************************************)
(* What the operators compute.                                             *)
(***************************************************************************)
(* A set of numbers has a least one. *)
LEMMA LeastNat == ASSUME NEW T \in SUBSET Nat, T # {} PROVE \E m \in T : \A n \in T : m <= n
<1>1. PICK x \in T : \A y \in T : ~(<<y, x>> \in OpToRel(<, Nat))
  BY WFMin, NatLessThanWellFounded
<1>2. \A y \in T : ~(y < x)
  BY <1>1 DEF OpToRel
<1> QED BY <1>2

(* Newest picks the greatest of a set of snapshots. *)
LEMMA NewestIs == ASSUME NEW n \in Nat, NEW S \in SUBSET (1..n), S # {}
    PROVE  Newest(S) \in S /\ \A y \in S : y <= Newest(S)
<1> DEFINE T == {k \in Nat : \E x \in S : k = n - x}
<1>1. T # {}
  <2>1. PICK x \in S : TRUE
    OBVIOUS
  <2>2. n - x \in Nat
    OBVIOUS
  <2> QED BY <2>2
<1>2. PICK m \in T : \A k \in T : m <= k
  BY <1>1, LeastNat
<1>3. PICK x \in S : m = n - x
  BY <1>2
<1>4. ASSUME NEW y \in S PROVE y <= x
  <2>1. n - y \in T
    OBVIOUS
  <2> QED BY <1>2, <1>3, <2>1
<1> HIDE DEF T
<1> QED BY <1>4 DEF Newest

(* Sets of snapshots are finite. *)
LEMMA FiniteSnaps == ASSUME NEW n \in Nat, NEW S \in SUBSET (1..n)
    PROVE  IsFiniteSet(S) /\ Cardinality(S) \in Nat
<1>1. IsFiniteSet(1..n)
  BY FS_Interval
<1>2. IsFiniteSet(S)
  BY <1>1, FS_Subset
<1> QED BY <1>2, FS_CardinalityType

(* Keeping the newest k loses no snapshot without keeping a newer one. *)
LEMMA NewestKept ==
  ASSUME NEW n \in Nat, NEW S \in SUBSET (1..n), NEW k \in Nat \ {0}, NEW x \in S
    PROVE  \E y \in NewestN(S, k) : y >= x
<1>1. PICK m \in S : \A y \in S : y <= m
  BY NewestIs
<1>2. {y \in S : y > m} = {}
  <2>1. \A y \in S : y \in Int /\ m \in Int /\ y <= m
    BY <1>1
  <2>2. \A y \in S : ~(y > m)
    BY <2>1
  <2> QED BY <2>2, Zenon
<1>3. Cardinality({y \in S : y > m}) = 0
  BY <1>2, FS_EmptySet
<1>4. m \in NewestN(S, k)
  BY <1>1, <1>3 DEF NewestN
<1> QED BY <1>1, <1>4

(* The newest k are at most k. *)
LEMMA NewestFew == ASSUME NEW n \in Nat, NEW S \in SUBSET (1..n), NEW k \in Nat
    PROVE  Cardinality(NewestN(S, k)) <= k
<1> DEFINE T == NewestN(S, k)
<1>1. T \in SUBSET S
  BY DEF NewestN
<1>2. ASSUME NEW m \in T PROVE m \in S /\ Cardinality({y \in S : y > m}) < k
  BY <1>2 DEF NewestN
<1> HIDE DEF T
<1>3. CASE T = {}
  BY <1>3, FS_EmptySet DEF T
<1>4. CASE T # {}
  <2>0. T \in SUBSET Nat
    BY <1>1
  <2>1. PICK m \in T : \A y \in T : m <= y
    BY <1>4, <2>0, LeastNat
  <2> DEFINE U == {y \in S : y > m}
  <2>2. Cardinality(U) < k /\ m \in S
    BY <1>2, <2>1
  <2>3. U \in SUBSET (1..n) /\ T \in SUBSET (1..n)
    BY <1>1
  <2>4. T \ {m} \in SUBSET U
    BY <1>1, <2>0, <2>1
  <2> HIDE DEF U
  <2>5. IsFiniteSet(U) /\ IsFiniteSet(T) /\ Cardinality(U) \in Nat /\ Cardinality(T) \in Nat
    BY <2>3, FiniteSnaps
  <2>6. Cardinality(T \ {m}) <= Cardinality(U)
    BY <2>5, <2>4, FS_Subset
  <2>7. Cardinality(T \ {m}) = Cardinality(T) - 1
    BY <2>1, <2>5, FS_RemoveElement
  <2>8. Cardinality(T) <= k
    BY <2>2, <2>5, <2>6, <2>7
  <2> QED BY <2>8 DEF T
<1> QED BY <1>3, <1>4

(* A snapshot among the newest k stays among them when others are removed. *)
LEMMA NewestStays == ASSUME NEW n \in Nat, NEW S \in SUBSET (1..n), NEW k \in Nat,
           NEW T \in SUBSET S, NEW x \in NewestN(S, k), x \in T
    PROVE  x \in NewestN(T, k)
<1>1. {y \in T : y > x} \in SUBSET {y \in S : y > x}
  OBVIOUS
<1>2. IsFiniteSet({y \in S : y > x}) /\ Cardinality({y \in S : y > x}) \in Nat
  BY FiniteSnaps
<1>3. Cardinality({y \in T : y > x}) <= Cardinality({y \in S : y > x})
  BY <1>1, <1>2, FS_Subset
<1>4. Cardinality({y \in T : y > x}) \in Nat
  <2>1. {y \in T : y > x} \in SUBSET (1..n)
    OBVIOUS
  <2> QED BY <2>1, FiniteSnaps
<1>5. Cardinality({y \in S : y > x}) < k
  BY DEF NewestN
<1>6. Cardinality({y \in T : y > x}) < k
  BY <1>2, <1>3, <1>4, <1>5
<1> QED BY <1>6 DEF NewestN

(***************************************************************************)
(* Types.                                                                  *)
(***************************************************************************)
(* Types of the snapshots and the datasets. *)
Store ==
  /\ fam \in Seq(Label) /\ Len(fam) \in Nat /\ Len(fam) <= MaxSnaps
  /\ src \subseteq 1..Len(fam)
  /\ has \in [Dests -> SUBSET PartSet]
  /\ dst \in [Dests -> [PartSet -> SUBSET Nat]]
  /\ \A d \in Dests : \A p \in PartSet :
       dst[d][p] \subseteq 1..Len(fam) /\ (p \notin has[d] => dst[d][p] = {})

(* A job that has taken its snapshot and not ended. *)
Active == {"reach", "prep", "send", "retain", "prune", "peer"}

(* Types of the jobs; a running job has a destination, an active one a part and a *)
(* snapshot.                                                                      *)
JobsInv ==
  /\ job \in [Jobs -> JobType]
  /\ \A j \in Jobs :
       /\ job[j].pc # "idle" => Dest(j) \in Dests
       /\ job[j].pc \in Active => job[j].at \in 1..Len(Parts) /\ job[j].snap \in 1..Len(fam)

(* A restored instance hangs off snapshots that exist. *)
HangInv ==
  inst # None =>
    /\ inst.from \in Dests /\ DOMAIN inst.at \subseteq PartSet
    /\ \A p \in DOMAIN inst.at : inst.at[p] \in dst[inst.from][p]

(* Types of the rest. *)
CountInv == sound \subseteq Dests /\ faults \in 0..MaxFaults /\ user \in 0..MaxUser

(* All of these. *)
BaseInv == Store /\ JobsInv /\ HangInv /\ CountInv

(* Parts are numbered. *)
LEMMA PartIn == ASSUME NEW i \in 1..Len(Parts) PROVE Parts[i] \in PartSet
  BY DEF PartSet

(* What an active job works on. *)
LEMMA JobAt == ASSUME BaseInv, NEW j \in Jobs, job[j].pc \in Active
    PROVE  /\ Dest(j) \in Dests /\ Part(j) \in PartSet
           /\ job[j].at \in 1..Len(Parts) /\ job[j].snap \in 1..Len(fam)
<1>1. /\ job[j].pc # "idle" => Dest(j) \in Dests
      /\ job[j].at \in 1..Len(Parts) /\ job[j].snap \in 1..Len(fam)
  BY DEF BaseInv, JobsInv
<1>2. job[j].pc # "idle"
  BY DEF Active
<1> QED BY <1>1, <1>2, PartIn DEF Part

(* Wipe, dataset by dataset. *)
LEMMA WipeIs == ASSUME Store, NEW d \in Dests, NEW ps, Wipe(d, ps)
    PROVE  /\ has' \in [Dests -> SUBSET PartSet]
              /\ dst' \in [Dests -> [PartSet -> SUBSET Nat]]
           /\ \A e \in Dests : e # d => has'[e] = has[e] /\ dst'[e] = dst[e]
           /\ has'[d] = has[d] \ ps
           /\ \A p \in PartSet : dst'[d][p] = IF p \in ps THEN {} ELSE dst[d][p]
  BY DEF Store, Wipe

(* The common snapshot is the newest that both sides have. *)
LEMMA CommonIs ==
  ASSUME BaseInv, NEW j \in Jobs, job[j].pc \in Active, HasCommonSnapshot(Dest(j), Part(j))
    PROVE  /\ Common(j) \in src \cap dst[Dest(j)][Part(j)]
           /\ \A x \in src \cap dst[Dest(j)][Part(j)] : x <= Common(j)
<1> DEFINE S == src \cap dst[Dest(j)][Part(j)]
<1>1. S # {} /\ S \in SUBSET (1..Len(fam)) /\ Len(fam) \in Nat
  BY DEF BaseInv, Store, HasCommonSnapshot
<1> HIDE DEF S
<1>2. Newest(S) \in S /\ \A y \in S : y <= Newest(S)
  BY <1>1, NewestIs
<1> QED BY <1>2 DEF S, Common

(* Land, dataset by dataset. *)
LEMMA LandIs ==
  ASSUME BaseInv, NEW j \in Jobs, job[j].pc \in Active, NEW S \in SUBSET Stream(j),
         Land(j, S)
    PROVE  /\ has' \in [Dests -> SUBSET PartSet]
              /\ dst' \in [Dests -> [PartSet -> SUBSET Nat]]
           /\ \A e \in Dests : e # Dest(j) => has'[e] = has[e] /\ dst'[e] = dst[e]
           /\ has'[Dest(j)] = has[Dest(j)] \cup {Part(j)}
           /\ \A p \in PartSet : p # Part(j) => dst'[Dest(j)][p] = dst[Dest(j)][p]
           /\ dst'[Dest(j)][Part(j)] = IF Stream(j) = {} THEN dst[Dest(j)][Part(j)]
                ELSE Base(j) \cup S
<1>1. Dest(j) \in Dests /\ Part(j) \in PartSet
  BY JobAt
<1>2. Stream(j) \subseteq src /\ src \subseteq Nat
  BY DEF Stream, BaseInv, Store
<1>3. Base(j) \subseteq dst[Dest(j)][Part(j)]
  BY DEF Base
<1>4. has \in [Dests -> SUBSET PartSet] /\ dst \in [Dests -> [PartSet -> SUBSET Nat]]
  BY DEF BaseInv, Store
<1>5. Base(j) \in SUBSET Nat /\ S \in SUBSET Nat
  BY <1>1, <1>2, <1>3, <1>4
<1> HIDE DEF BaseInv
<1> QED BY <1>1, <1>4, <1>5 DEF Land

(* What any step may do to the destinations: add snapshots of the instance, drop a    *)
(* dataset with all its snapshots, and never remove a snapshot that an instance hangs *)
(* off.                                                                               *)
Moves ==
  /\ has' \in [Dests -> SUBSET PartSet] /\ dst' \in [Dests -> [PartSet -> SUBSET Nat]]
  /\ \A d \in Dests : \A p \in PartSet :
       /\ dst'[d][p] \subseteq dst[d][p] \cup src
       /\ p \notin has'[d] => dst'[d][p] = {}
       /\ Pinned(d, p) \cap dst[d][p] \subseteq dst'[d][p]

(* A wipe that spares pinned datasets does so ... *)
LEMMA WipeMoves ==
  ASSUME Store, NEW d \in Dests, NEW ps, \A p \in ps : Pinned(d, p) = {}, Wipe(d, ps)
    PROVE  Moves
<1>1. /\ has' \in [Dests -> SUBSET PartSet] /\ dst' \in [Dests -> [PartSet -> SUBSET Nat]]
      /\ \A e \in Dests : e # d => has'[e] = has[e] /\ dst'[e] = dst[e]
      /\ has'[d] = has[d] \ ps
      /\ \A p \in PartSet : dst'[d][p] = IF p \in ps THEN {} ELSE dst[d][p]
  BY WipeIs
<1>2. \A e \in Dests : \A p \in PartSet : p \notin has[e] => dst[e][p] = {}
  BY DEF Store
<1>3. ASSUME NEW e \in Dests, NEW p \in PartSet
      PROVE  /\ dst'[e][p] \subseteq dst[e][p] \cup src
             /\ p \notin has'[e] => dst'[e][p] = {}
             /\ Pinned(e, p) \cap dst[e][p] \subseteq dst'[e][p]
  <2>1. CASE e # d
    BY <1>1, <1>2, <2>1
  <2>2. CASE e = d
    BY <1>1, <1>2, <2>2
  <2> QED BY <2>1, <2>2
<1> QED BY <1>1, <1>3 DEF Moves

(* ... and a transfer that is not refused. *)
LEMMA LandMoves == ASSUME BaseInv, NEW j \in Jobs, job[j].pc \in Active, ~Refused(j),
           NEW S \in SUBSET Stream(j), Land(j, S)
    PROVE  Moves
<1> DEFINE d == Dest(j)
           p == Part(j)
<1>1. /\ has' \in [Dests -> SUBSET PartSet] /\ dst' \in [Dests -> [PartSet -> SUBSET Nat]]
      /\ \A e \in Dests : e # d => has'[e] = has[e] /\ dst'[e] = dst[e]
      /\ has'[d] = has[d] \cup {p}
      /\ \A q \in PartSet : q # p => dst'[d][q] = dst[d][q]
      /\ dst'[d][p] = IF Stream(j) = {} THEN dst[d][p] ELSE Base(j) \cup S
  BY LandIs
<1>2. \A e \in Dests : \A q \in PartSet : p \notin has[e] => dst[e][p] = {}
  BY JobAt DEF BaseInv, Store
<1>3. \A e \in Dests : \A q \in PartSet : q \notin has[e] => dst[e][q] = {}
  BY DEF BaseInv, Store
<1>4. d \in Dests /\ p \in PartSet
  BY JobAt
<1>5. Base(j) \subseteq dst[d][p] /\ Stream(j) \subseteq src
  BY DEF Base, Stream
<1>6. Stream(j) # {} => Pinned(d, p) \cap dst[d][p] \subseteq Base(j)
  <2>1. SUFFICES ASSUME Stream(j) # {}, NEW x \in Pinned(d, p) \cap dst[d][p]
                 PROVE  x \in Base(j)
    OBVIOUS
  <2>2. p \in has[d]
    BY <1>3, <1>4
  <2>3. HasCommonSnapshot(d, p) /\ ~(x > Common(j))
    BY <2>1, <2>2 DEF Refused
  <2>4. x \in Nat /\ Common(j) \in Nat
    <3>1. src \subseteq Nat /\ dst[d][p] \subseteq Nat
      BY <1>4 DEF BaseInv, Store
    <3>2. Common(j) \in src
      BY <2>3, CommonIs
    <3> QED BY <3>1, <3>2
  <2>5. x <= Common(j)
    BY <2>3, <2>4
  <2> QED BY <2>2, <2>5 DEF Base
<1>7. ASSUME NEW e \in Dests, NEW q \in PartSet
      PROVE  /\ dst'[e][q] \subseteq dst[e][q] \cup src
             /\ q \notin has'[e] => dst'[e][q] = {}
             /\ Pinned(e, q) \cap dst[e][q] \subseteq dst'[e][q]
  <2> HIDE DEF d, p
  <2>1. CASE e # d
    BY <1>1, <1>3, <2>1
  <2>2. CASE e = d /\ q # p
    BY <1>1, <1>3, <2>2
  <2>3. CASE e = d /\ q = p
    BY <1>1, <1>5, <1>6, <2>3
  <2> QED BY <2>1, <2>2, <2>3
<1> QED BY <1>1, <1>7 DEF Moves

(* Retention keeps the newest and the pinned snapshots. *)
LEMMA PruneIs == ASSUME NEW d, NEW p
    PROVE  /\ PruneRetentionByCount(d, p) \subseteq dst[d][p]
           /\ NewestN(dst[d][p], Keep) \subseteq PruneRetentionByCount(d, p)
           /\ Pinned(d, p) \cap dst[d][p] \subseteq PruneRetentionByCount(d, p)
  BY DEF PruneRetentionByCount, NewestN

(* A step that leaves the destinations alone. *)
LEMMA StillMoves == ASSUME BaseInv, UNCHANGED <<has, dst>> PROVE Moves
  BY DEF BaseInv, Store, Moves

(* Every step of a job obeys Moves ... *)
LEMMA JobMoves ==
  ASSUME BaseInv, NEW j \in Jobs,
         BackupStep(j) \/ Cancel(j) \/ \E d \in Dests : StartBackupJob(j, d)
    PROVE  Moves
<1>1. CASE \/ CreateSnapshot(j) \/ StepFails(j) \/ RemotePrepChainFails(j) \/ SyncoidRefuses(j)
           \/ PruneSourceBackupAnchors(j) \/ Cancel(j) \/ \E d \in Dests : StartBackupJob(j,
                 d)
  <2>1. UNCHANGED <<has, dst>>
    BY <1>1 DEF CreateSnapshot, StepFails, RemotePrepChainFails, SyncoidRefuses,
       PruneSourceBackupAnchors, Cancel, StartBackupJob
  <2> QED BY <2>1, StillMoves
<1>2. CASE RemotePrepChain(j)
  <2>1. Dest(j) \in Dests /\ Wipe(Dest(j), Broken(Dest(j)))
    BY <1>2, JobAt DEF RemotePrepChain, Active
  <2>2. \A p \in Broken(Dest(j)) : Pinned(Dest(j), p) = {}
    BY DEF Broken
  <2> QED BY <2>1, <2>2, WipeMoves DEF BaseInv
<1>3. CASE PrepLocalBackupChain(j)
  <2>1. Dest(j) \in Dests /\ Wipe(Dest(j), Broken(Dest(j)) \cap {Part(j)})
    BY <1>3, JobAt DEF PrepLocalBackupChain, Active
  <2>2. \A p \in Broken(Dest(j)) \cap {Part(j)} : Pinned(Dest(j), p) = {}
    BY DEF Broken
  <2> QED BY <2>1, <2>2, WipeMoves DEF BaseInv
<1>4. CASE RunSyncoid(j)
  <2>1. job[j].pc \in Active /\ ~Refused(j) /\ Land(j, Stream(j))
    BY <1>4 DEF RunSyncoid, Active
  <2> QED BY <2>1, LandMoves
<1>5. CASE SyncoidBreaks(j)
  <2>1. job[j].pc \in Active /\ ~Refused(j)
    BY <1>5 DEF SyncoidBreaks, Active
  <2>2. CASE UNCHANGED <<has, dst>>
    BY <2>2, StillMoves
  <2>3. ASSUME NEW m \in Stream(j), Land(j, {x \in Stream(j) : x < m}) PROVE Moves
    <3>1. {x \in Stream(j) : x < m} \in SUBSET Stream(j)
      OBVIOUS
    <3> QED BY <2>1, <2>3, <3>1, LandMoves
  <2> QED BY <1>5, <2>2, <2>3 DEF SyncoidBreaks
<1>6. CASE SyncoidKilled(j)
  <2>1. job[j].pc \in Active
    BY <1>6 DEF SyncoidKilled, Active
  <2>2. CASE UNCHANGED <<has, dst>>
    BY <2>2, StillMoves
  <2>3. ASSUME ~Refused(j), NEW m \in Stream(j), Land(j, {x \in Stream(j) : x < m})
        PROVE  Moves
    <3>1. {x \in Stream(j) : x < m} \in SUBSET Stream(j)
      OBVIOUS
    <3> QED BY <2>1, <2>3, <3>1, LandMoves
  <2> QED BY <1>6, <2>2, <2>3 DEF SyncoidKilled
<1>7. CASE ApplyBackupRetention(j)
  <2>1. job[j].pc \in Active
    BY <1>7 DEF ApplyBackupRetention, Active
  <2>2. Dest(j) \in Dests /\ Part(j) \in PartSet
    BY <2>1, JobAt
  <2>3. dst' = [dst EXCEPT ![Dest(j)][Part(j)] = PruneRetentionByCount(Dest(j), Part(j))]
        /\ has' = has
    BY <1>7 DEF ApplyBackupRetention
  <2>4. PruneRetentionByCount(Dest(j), Part(j)) \subseteq dst[Dest(j)][Part(j)]
    BY PruneIs
  <2>5. Pinned(Dest(j),
           Part(j)) \cap dst[Dest(j)][Part(j)] \subseteq PruneRetentionByCount(Dest(j),
           Part(j))
    BY PruneIs
  <2> QED BY <2>2, <2>3, <2>4, <2>5 DEF BaseInv, Store, Moves
<1>8. CASE RemotePruneRetention(j)
  <2>1. job[j].pc \in Active
    BY <1>8 DEF RemotePruneRetention, Active
  <2>2. Dest(j) \in Dests
    BY <2>1, JobAt
  <2>3. CASE UNCHANGED <<has, dst>>
    BY <2>3, StillMoves
  <2>4. CASE /\ has' = has
             /\ dst' = [dst EXCEPT ![Dest(j)] =
                          [p \in PartSet |-> PruneRetentionByCount(Dest(j), p)]]
    <3>1. \A p : /\ PruneRetentionByCount(Dest(j), p) \subseteq dst[Dest(j)][p]
                 /\ Pinned(Dest(j),
                       p) \cap dst[Dest(j)][p] \subseteq PruneRetentionByCount(Dest(j), p)
      BY PruneIs
    <3> QED BY <2>2, <2>4, <3>1 DEF BaseInv, Store, Moves
  <2> QED BY <1>8, <2>3, <2>4 DEF RemotePruneRetention
<1> QED BY <1>1, <1>2, <1>3, <1>4, <1>5, <1>6, <1>7, <1>8 DEF BackupStep

(* ... and every other step. *)
LEMMA StepMoves == ASSUME BaseInv, Next PROVE Moves
<1>1. CASE AutoSnapshot \/ Crash \/ DeleteSnapshot \/ DropInstance
           \/ \E d \in Dests : InstantCloneRestore(d)
  <2>1. UNCHANGED <<has, dst>>
    BY <1>1 DEF AutoSnapshot, Crash, DeleteSnapshot, DropInstance, InstantCloneRestore
  <2> QED BY <2>1, StillMoves
<1>2. ASSUME NEW d \in Dests, DeletePoint(d) PROVE Moves
  <2>1. PICK x : dst' = [dst EXCEPT ![d] = [p \in PartSet |-> @[p] \ ({x} \ Pinned(d, p))]]
    BY <1>2 DEF DeletePoint
  <2>2. has' = has
    BY <1>2 DEF DeletePoint
  <2> QED BY <2>1, <2>2 DEF BaseInv, Store, Moves
<1>3. ASSUME NEW d \in Dests, DeleteBackup(d) PROVE Moves
  <2>1. Wipe(d, has[d]) /\ ~BackupDependents(d)
    BY <1>3 DEF DeleteBackup
  <2>2. \A p \in has[d] : Pinned(d, p) = {}
    BY <2>1 DEF Pinned
  <2> QED BY <2>1, <2>2, WipeMoves DEF BaseInv
<1> QED BY <1>1, <1>2, <1>3, JobMoves DEF Next

(* Only a backup and the schedule take a snapshot. *)
LEMMA SnapsOnly == ASSUME BaseInv, Next
    PROVE  (fam' = fam
           /\ src' \subseteq src) \/ (\E j \in Jobs : CreateSnapshot(j)) \/ AutoSnapshot
<1>1. ASSUME NEW j \in Jobs,
             BackupStep(j) \/ Cancel(j) \/ \E d \in Dests : StartBackupJob(j, d),
             ~CreateSnapshot(j)
      PROVE  fam' = fam /\ src' \subseteq src
  <2>1. CASE PruneSourceBackupAnchors(j)
    BY <2>1 DEF PruneSourceBackupAnchors, PrunedAnchors, NewestN, Family
  <2>2. CASE ~PruneSourceBackupAnchors(j)
    BY <1>1, <2>2 DEF BackupStep, StepFails, RemotePrepChain, RemotePrepChainFails,
       PrepLocalBackupChain, RunSyncoid, SyncoidRefuses, SyncoidBreaks, SyncoidKilled,
       ApplyBackupRetention, RemotePruneRetention, Cancel, StartBackupJob
  <2> QED BY <2>1, <2>2
<1>2. CASE Crash \/ DeleteSnapshot \/ DropInstance
           \/ \E d \in Dests : DeletePoint(d) \/ DeleteBackup(d) \/ InstantCloneRestore(d)
  BY <1>2 DEF Crash, DeleteSnapshot, DropInstance, DeletePoint, DeleteBackup,
     InstantCloneRestore
<1> QED BY <1>1, <1>2 DEF Next

(* The instance loses snapshots or gains the next one. *)
LEMMA StepSnaps == ASSUME BaseInv, Next
    PROVE  \/ fam' = fam /\ src' \subseteq src
           \/ /\ Len(fam) < MaxSnaps
              /\ \E l \in Label : fam' = Append(fam, l)
              /\ src' \subseteq src \cup {Len(fam) + 1}
<1>1. ASSUME NEW j \in Jobs, CreateSnapshot(j)
      PROVE  Len(fam) < MaxSnaps /\ fam' = Append(fam, LabelOf[Dest(j)])
             /\ src' = src \cup {Len(fam) + 1} /\ LabelOf[Dest(j)] \in Label
  <2>1. Dest(j) \in Dests
    BY <1>1 DEF CreateSnapshot, BaseInv, JobsInv
  <2> QED BY <1>1, <2>1 DEF CreateSnapshot, Label
<1>2. CASE AutoSnapshot
  BY <1>2 DEF AutoSnapshot, NewestN, Label
<1> QED BY <1>1, <1>2, SnapsOnly

(* Appending a label changes no earlier one. *)
LEMMA AppendIs == ASSUME NEW l, fam \in Seq(Label), fam' = Append(fam, l)
    PROVE  /\ Len(fam') = Len(fam) + 1 /\ Len(fam) \in Nat
           /\ \A x \in 1..Len(fam) : fam'[x] = fam[x]
           /\ fam'[Len(fam) + 1] = l
  OBVIOUS

(* Every step keeps Store. *)
LEMMA StoreNext == ASSUME BaseInv, Next PROVE Store'
<1>1. Moves
  BY StepMoves
<1>2. fam \in Seq(Label) /\ Len(fam) \in Nat /\ Len(fam) <= MaxSnaps
      /\ src \subseteq 1..Len(fam)
      /\ \A d \in Dests : \A p \in PartSet : dst[d][p] \subseteq 1..Len(fam)
  BY DEF BaseInv, Store
<1>3. CASE fam' = fam /\ src' \subseteq src
  BY <1>1, <1>2, <1>3 DEF Moves, Store
<1>4. ASSUME Len(fam) < MaxSnaps, NEW l \in Label, fam' = Append(fam, l),
             src' \subseteq src \cup {Len(fam) + 1}
      PROVE  Store'
  <2>1. fam' \in Seq(Label) /\ Len(fam') = Len(fam) + 1 /\ Len(fam') <= MaxSnaps
    BY <1>2, <1>4, BackupAssumption
  <2>2. 1..Len(fam) \subseteq 1..Len(fam') /\ Len(fam) + 1 \in 1..Len(fam')
    BY <1>2, <2>1
  <2>3. src' \subseteq 1..Len(fam')
    BY <1>2, <1>4, <2>2
  <2>4. \A d \in Dests : \A p \in PartSet : dst'[d][p] \subseteq 1..Len(fam')
    BY <1>1, <1>2, <2>2 DEF Moves
  <2> QED BY <1>1, <1>2, <2>1, <2>3, <2>4 DEF Moves, Store
<1> QED BY <1>3, <1>4, StepSnaps

(* resolveCloneSnapshot returns a snapshot of the dataset. *)
LEMMA ResolveIn == ASSUME NEW n \in Nat, NEW S \in SUBSET (1..n), S # {}, NEW x
    PROVE  ResolveCloneSnapshot(S, x) \in S
<1> DEFINE B == {y \in S : fam[y] # AutoLabel}
<1>1. B # {} => Newest(B) \in S
  <2>1. SUFFICES ASSUME B # {} PROVE Newest(B) \in B
    OBVIOUS
  <2>2. B \in SUBSET (1..n)
    OBVIOUS
  <2> HIDE DEF B
  <2> QED BY <2>1, <2>2, NewestIs
<1>2. Newest(S) \in S
  BY NewestIs
<1>3. ResolveCloneSnapshot(S,
         x) = IF x \in S THEN x ELSE IF B # {} THEN Newest(B) ELSE Newest(S)
  BY DEF ResolveCloneSnapshot
<1> HIDE DEF B
<1> QED BY <1>1, <1>2, <1>3

(* Only a restore makes an instance. *)
LEMMA StepInst == ASSUME BaseInv, Next
    PROVE  \/ inst' = inst
           \/ inst' = None
           \/ \E d \in Dests : InstantCloneRestore(d)
<1>1. ASSUME NEW j \in Jobs,
             BackupStep(j) \/ Cancel(j) \/ \E d \in Dests : StartBackupJob(j, d)
      PROVE  inst' = inst
  BY <1>1 DEF BackupStep, CreateSnapshot, StepFails, RemotePrepChain, RemotePrepChainFails,
     PrepLocalBackupChain, RunSyncoid, SyncoidRefuses, SyncoidBreaks, SyncoidKilled,
     ApplyBackupRetention, PruneSourceBackupAnchors, RemotePruneRetention, Cancel,
     StartBackupJob
<1> QED BY <1>1 DEF Next, AutoSnapshot, Crash, DeleteSnapshot, DropInstance, DeletePoint,
           DeleteBackup

(* Every step keeps HangInv. *)
LEMMA HangNext == ASSUME BaseInv, Next PROVE HangInv'
<1>1. Moves
  BY StepMoves
<1>2. HangInv
  BY DEF BaseInv
<1>3. CASE inst' = inst
  <2>1. SUFFICES ASSUME inst # None
                 PROVE  \A p \in DOMAIN inst.at : inst.at[p] \in dst'[inst.from][p]
    BY <1>2, <1>3 DEF HangInv
  <2>2. TAKE p \in DOMAIN inst.at
  <2>3. inst.from \in Dests /\ p \in PartSet /\ inst.at[p] \in dst[inst.from][p]
    BY <1>2, <2>1 DEF HangInv
  <2>4. Pinned(inst.from, p) = {inst.at[p]}
    BY <2>1 DEF Pinned, BackupDependents
  <2> QED BY <1>1, <2>3, <2>4 DEF Moves
<1>4. CASE inst' = None
  BY <1>4 DEF HangInv
<1>5. ASSUME NEW d \in Dests, InstantCloneRestore(d) PROVE HangInv'
  <2>1. PICK x \in dst[d][Parts[1]] :
          inst' = [from |-> d, at |-> [p \in has[d] |-> ResolveCloneSnapshot(dst[d][p], x)]]
    BY <1>5 DEF InstantCloneRestore
  <2>2. has[d] \subseteq PartSet /\ dst' = dst /\ \A p \in has[d] : dst[d][p] # {}
    BY <1>5 DEF InstantCloneRestore, BaseInv, Store
  <2>3. \A p \in has[d] : ResolveCloneSnapshot(dst[d][p], x) \in dst[d][p]
    <3>1. TAKE p \in has[d]
    <3>2. dst[d][p] # {} /\ dst[d][p] \in SUBSET (1..Len(fam)) /\ Len(fam) \in Nat
      BY <2>2 DEF BaseInv, Store
    <3> QED BY <3>2, ResolveIn
  <2>4. DOMAIN inst'.at = has[d] /\ inst'.from = d
        /\ \A p \in has[d] : inst'.at[p] \in dst[d][p]
    BY <2>1, <2>3
  <2> QED BY <2>2, <2>4 DEF HangInv
<1> QED BY <1>3, <1>4, <1>5, StepInst

(* Snapshots are counted up to the bound. *)
LEMMA LenGrows ==
  ASSUME BaseInv, Next
  PROVE  Len(fam) \in Nat /\ Len(fam') \in Nat /\ Len(fam) <= Len(fam')
         /\ Len(fam') <= MaxSnaps
<1>1. fam \in Seq(Label) /\ Len(fam) \in Nat
  BY DEF BaseInv, Store
<1>2. Len(fam') = Len(fam) \/ Len(fam') = Len(fam) + 1
  BY <1>1, StepSnaps, AppendIs
<1>3. Len(fam') <= MaxSnaps
  BY StoreNext DEF Store
<1> QED BY <1>1, <1>2, <1>3

(* JobsInv of one job, as a predicate of its record. *)
JobOK(r, n) ==
  /\ r \in JobType
  /\ r.pc # "idle" => r.dest \in Dests
  /\ r.pc \in Active => r.at \in 1..Len(Parts) /\ r.snap \in 1..n

(* JobsInv in these terms. *)
LEMMA JobsAre ==
  JobsInv <=> job \in [Jobs -> JobType] /\ \A j \in Jobs : JobOK(job[j], Len(fam))
  BY DEF JobsInv, JobOK, Dest

(* A step of job j alone. *)
OnlyJob(j) ==
  /\ job' = [k \in Jobs |-> job'[k]]
  /\ \A k \in Jobs \ {j} : job'[k] = job[k]

(* It suffices to look at that job. *)
LEMMA OneMoves == ASSUME JobsInv, NEW j \in Jobs, OnlyJob(j), JobOK(job'[j], Len(fam')),
           Len(fam) \in Nat, Len(fam') \in Nat, Len(fam) <= Len(fam')
    PROVE  JobsInv'
<1>1. \A k \in Jobs : JobOK(job'[k], Len(fam'))
  <2>1. TAKE k \in Jobs
  <2>2. CASE k = j
    BY <2>2
  <2>3. CASE k # j
    <3>1. job'[k] = job[k] /\ JobOK(job[k], Len(fam))
      BY <2>3, JobsAre DEF OnlyJob
    <3> QED BY <3>1 DEF JobOK
  <2> QED BY <2>2, <2>3
<1>2. job' \in [Jobs -> JobType]
  BY <1>1 DEF JobOK, OnlyJob
<1> QED BY <1>1, <1>2 DEF JobsInv, JobOK, Dest

(* A step that only marks jobs as hit. *)
SomeHit ==
  /\ job' = [k \in Jobs |-> job'[k]]
  /\ \A k \in Jobs : \E h \in BOOLEAN : job'[k] = [job[k] EXCEPT !.hit = h]

(* It keeps JobsInv. *)
LEMMA HitOK ==
  ASSUME JobsInv, SomeHit, Len(fam) \in Nat, Len(fam') \in Nat, Len(fam) <= Len(fam')
    PROVE  JobsInv'
<1>1. \A k \in Jobs : JobOK(job'[k], Len(fam'))
  <2>1. TAKE k \in Jobs
  <2>2. JobOK(job[k], Len(fam)) /\ job[k] \in JobType
    BY JobsAre DEF JobOK
  <2>3. PICK h \in BOOLEAN : job'[k] = [job[k] EXCEPT !.hit = h]
    BY DEF SomeHit
  <2>4. /\ job'[k] \in JobType /\ job'[k].pc = job[k].pc /\ job'[k].dest = job[k].dest
        /\ job'[k].at = job[k].at /\ job'[k].snap = job[k].snap
    BY <2>2, <2>3 DEF JobType
  <2> QED BY <2>2, <2>4 DEF JobOK
<1>2. job' \in [Jobs -> JobType]
  BY <1>1 DEF JobOK, SomeHit
<1> QED BY <1>1, <1>2 DEF JobsInv, JobOK, Dest

(* Touch is such a step ... *)
LEMMA TouchIs == ASSUME NEW ds, Touch(ds), job \in [Jobs -> JobType]
    PROVE  SomeHit
           /\ \A k \in Jobs : job'[k] = [job[k] EXCEPT !.hit = job[k].hit \/ Dest(k) \in ds]
<1>1. \A k \in Jobs : (job[k].hit \/ Dest(k) \in ds) \in BOOLEAN
  OBVIOUS
<1>2. \A k \in Jobs : job'[k] = [job[k] EXCEPT !.hit = job[k].hit \/ Dest(k) \in ds]
  BY DEF Touch
<1>3. job' = [k \in Jobs |-> job'[k]]
  BY DEF Touch
<1> QED BY <1>1, <1>2, <1>3 DEF SomeHit

(* ... and so is a scheduled snapshot. *)
LEMMA AutoHits == ASSUME AutoSnapshot, job \in [Jobs -> JobType]
    PROVE  SomeHit
           /\ \A k \in Jobs : job'[k] = [job[k] EXCEPT !.hit = job[k].hit \/ Cuts(Dest(k))]
<1>1. \A k \in Jobs : (job[k].hit \/ Cuts(Dest(k))) \in BOOLEAN
  OBVIOUS
<1>2. \A k \in Jobs : job'[k] = [job[k] EXCEPT !.hit = job[k].hit \/ Cuts(Dest(k))]
  BY DEF AutoSnapshot
<1>3. job' = [k \in Jobs |-> job'[k]]
  BY DEF AutoSnapshot
<1> QED BY <1>1, <1>2, <1>3 DEF SomeHit

(* A job that is idle is well-formed. *)
LEMMA IdleOK == JobOK(Idle, Len(fam'))
  BY BackupAssumption DEF JobOK, Idle, JobType, Active

(* The end of a job, field by field. *)
LEMMA FinishIs ==
  ASSUME BaseInv, NEW j \in Jobs, NEW ok \in BOOLEAN, NEW f \in BOOLEAN, Finish(j, ok, f)
    PROVE  /\ OnlyJob(j)
           /\ job'[j] \in JobType
           /\ job'[j].pc = "idle"
           /\ job'[j].status = IF job[j].status = "canceled" THEN "canceled"
                ELSE IF ok THEN "done" ELSE "error"
           /\ job'[j].hit = (job[j].hit \/ f)
           /\ job'[j].dest = job[j].dest /\ job'[j].snap = job[j].snap
           /\ job'[j].at = job[j].at /\ job'[j].cut = job[j].cut
<1>1. job \in [Jobs -> JobType]
  BY DEF BaseInv, JobsInv
<1>2. OnlyJob(j)
  BY <1>1 DEF Finish, OnlyJob
<1>3. job'[j] = [job[j] EXCEPT !.pc = "idle",
                   !.status = IF @ = "canceled" THEN @ ELSE IF ok THEN "done" ELSE "error",
                   !.hit = @ \/ f]
  BY <1>1 DEF Finish
<1>4. job[j] \in JobType
  BY <1>1
<1> QED BY <1>2, <1>3, <1>4 DEF JobType

(* It keeps JobsInv. *)
LEMMA JobsFinish ==
  ASSUME BaseInv, Next, NEW j \in Jobs, NEW ok \in BOOLEAN, NEW f \in BOOLEAN,
         Finish(j, ok, f)
    PROVE  JobsInv'
<1>1. OnlyJob(j) /\ JobOK(job'[j], Len(fam'))
  BY FinishIs DEF JobOK, Active
<1> QED BY <1>1, LenGrows, OneMoves DEF BaseInv

(* Every step of a job keeps JobsInv ... *)
LEMMA JobsStep ==
  ASSUME BaseInv, Next, NEW j \in Jobs,
         BackupStep(j) \/ Cancel(j) \/ \E d \in Dests : StartBackupJob(j, d)
    PROVE  JobsInv'
<1>0. job \in [Jobs -> JobType] /\ JobOK(job[j], Len(fam))
  BY JobsAre DEF BaseInv
<1>1. Len(fam) \in Nat /\ Len(fam') \in Nat /\ Len(fam) <= Len(fam')
      /\ Len(fam') <= MaxSnaps /\ MaxSnaps \in Nat
  BY LenGrows, BackupAssumption
<1>2. Len(Parts) \in Nat \ {0}
  BY BackupAssumption
<1>3. JobsInv
  BY DEF BaseInv
<1>a. SUFFICES \/ OnlyJob(j) /\ JobOK(job'[j], Len(fam'))
               \/ \E ok \in BOOLEAN, f \in BOOLEAN : Finish(j, ok, f)
  BY <1>1, <1>3, OneMoves, JobsFinish
<1>4. CASE StepFails(j) \/ SyncoidRefuses(j) \/ SyncoidBreaks(j) \/ SyncoidKilled(j)
           \/ RemotePruneRetention(j)
  BY <1>4 DEF StepFails, SyncoidRefuses, SyncoidBreaks, SyncoidKilled, RemotePruneRetention
<1>5. ASSUME NEW d \in Dests, StartBackupJob(j, d)
      PROVE  OnlyJob(j) /\ JobOK(job'[j], Len(fam'))
  <2>1. OnlyJob(j)
    BY <1>0, <1>5 DEF StartBackupJob, OnlyJob
  <2>2. job'[j] = [Idle EXCEPT !.pc = "queued", !.dest = d, !.status = "queued"]
    BY <1>0, <1>5 DEF StartBackupJob
  <2>3. job'[j] \in JobType /\ job'[j].pc = "queued" /\ job'[j].dest \in Dests
    <3>1. Idle \in JobType
      BY IdleOK DEF JobOK
    <3> QED BY <2>2, <3>1 DEF JobType
  <2>4. JobOK(job'[j], Len(fam'))
    BY <2>3 DEF JobOK, Active
  <2> QED BY <2>1, <2>4
<1>6. CASE Cancel(j)
  <2>1. OnlyJob(j)
    BY <1>0, <1>6 DEF Cancel, OnlyJob
  <2>2. job'[j] = [job[j] EXCEPT !.status = "canceled", !.cut = TRUE, !.hit = TRUE]
    BY <1>0, <1>6 DEF Cancel
  <2>3. /\ job'[j] \in JobType /\ job'[j].pc = job[j].pc /\ job'[j].dest = job[j].dest
        /\ job'[j].at = job[j].at /\ job'[j].snap = job[j].snap
    BY <1>0, <2>2 DEF JobType
  <2>4. JobOK(job'[j], Len(fam'))
    BY <1>0, <1>1, <2>3 DEF JobOK
  <2> QED BY <2>1, <2>4
<1>7. CASE CreateSnapshot(j)
  <2>1. OnlyJob(j)
    BY <1>0, <1>7 DEF CreateSnapshot, OnlyJob
  <2>2. job'[j] = [job[j] EXCEPT !.pc = IF Dest(j) \in Remote THEN "reach" ELSE "prep",
           !.status = "running", !.snap = Len(fam) + 1, !.at = 1]
    BY <1>0, <1>7 DEF CreateSnapshot
  <2>3. Len(fam') = Len(fam) + 1 /\ job[j].dest \in Dests
    BY <1>0, <1>7, AppendIs DEF CreateSnapshot, JobOK, BaseInv, Store
  <2>4. /\ job'[j] \in JobType /\ job'[j].dest = job[j].dest
        /\ job'[j].at = 1 /\ job'[j].snap = Len(fam) + 1
    <3> DEFINE pc == IF Dest(j) \in Remote THEN "reach" ELSE "prep"
    <3>1. pc \in {"idle", "queued", "reach", "prep", "send", "retain", "prune", "peer"}
      OBVIOUS
    <3> HIDE DEF pc
    <3>2. Len(fam) + 1 \in 0..MaxSnaps /\ 1 \in 0..Len(Parts)
      BY <1>1, <1>2, <2>3
    <3>3. job'[j] = [job[j] EXCEPT !.pc = pc, !.status = "running", !.snap = Len(fam) + 1,
             !.at = 1]
      BY <2>2 DEF pc
    <3>4. job[j] \in JobType
      BY <1>0
    <3> QED BY <3>1, <3>2, <3>3, <3>4 DEF JobType
  <2>5. JobOK(job'[j], Len(fam'))
    BY <1>1, <1>2, <2>3, <2>4 DEF JobOK
  <2> QED BY <2>1, <2>5
<1>8. CASE RemotePrepChain(j) \/ RemotePrepChainFails(j) \/ PrepLocalBackupChain(j)
  <2>1. OnlyJob(j)
    BY <1>0, <1>8 DEF RemotePrepChain, RemotePrepChainFails, PrepLocalBackupChain, Goto,
       OnlyJob
  <2>2. \/ job'[j] = [job[j] EXCEPT !.pc = "send"]
        \/ job'[j] = [job[j] EXCEPT !.pc = "send", !.hit = TRUE]
    BY <1>0, <1>8 DEF RemotePrepChain, RemotePrepChainFails, PrepLocalBackupChain, Goto
  <2>3. job[j].pc \in Active
    BY <1>8 DEF RemotePrepChain, RemotePrepChainFails, PrepLocalBackupChain, Active
  <2>4. /\ job'[j] \in JobType /\ job'[j].dest = job[j].dest
        /\ job'[j].at = job[j].at /\ job'[j].snap = job[j].snap
    BY <1>0, <2>2 DEF JobType
  <2>5. job[j].pc # "idle"
    BY <2>3 DEF Active
  <2>6. JobOK(job'[j], Len(fam'))
    BY <1>0, <1>1, <2>3, <2>4, <2>5 DEF JobOK
  <2> QED BY <2>1, <2>6
<1>9. CASE RunSyncoid(j)
  <2>1. OnlyJob(j)
    BY <1>0, <1>9 DEF RunSyncoid, OnlyJob
  <2>2. job'[j] = [job[j] EXCEPT !.pc = IF Dest(j) \notin Remote THEN "retain"
          ELSE IF IsLast(j) THEN "prune" ELSE "send",
                     !.at = IF Dest(j) \in Remote /\ ~IsLast(j) THEN @ + 1 ELSE @]
    BY <1>0, <1>9 DEF RunSyncoid
  <2>3. job[j].pc \in Active
    BY <1>9 DEF RunSyncoid, Active
  <2>4. job[j].pc # "idle" /\ job[j].at \in 1..Len(Parts)
    BY <1>0, <2>3 DEF Active, JobOK
  <2>5. /\ job'[j] \in JobType /\ job'[j].dest = job[j].dest
        /\ job'[j].at \in 1..Len(Parts) /\ job'[j].snap = job[j].snap
    <3> DEFINE pc == IF Dest(j) \notin Remote THEN "retain"
                 ELSE IF IsLast(j) THEN "prune" ELSE "send"
               a == IF Dest(j) \in Remote /\ ~IsLast(j) THEN job[j].at + 1 ELSE job[j].at
    <3>1. pc \in {"idle", "queued", "reach", "prep", "send", "retain", "prune", "peer"}
      OBVIOUS
    <3>2. a \in 1..Len(Parts) /\ a \in 0..Len(Parts)
      BY <1>2, <2>4 DEF IsLast
    <3> HIDE DEF pc, a
    <3>3. job'[j] = [job[j] EXCEPT !.pc = pc, !.at = a]
      BY <2>2 DEF pc, a
    <3>4. job[j] \in JobType
      BY <1>0
    <3> QED BY <3>1, <3>2, <3>3, <3>4 DEF JobType
  <2>6. JobOK(job'[j], Len(fam'))
    BY <1>0, <1>1, <2>3, <2>4, <2>5 DEF JobOK
  <2> QED BY <2>1, <2>6
<1>10. CASE ApplyBackupRetention(j)
  <2>1. OnlyJob(j)
    BY <1>0, <1>10 DEF ApplyBackupRetention, OnlyJob
  <2>2. job'[j] = [job[j] EXCEPT !.pc = IF IsLast(j) THEN "prune" ELSE "prep",
           !.at = IF IsLast(j) THEN @ ELSE @ + 1]
    BY <1>0, <1>10 DEF ApplyBackupRetention
  <2>3. job[j].pc \in Active
    BY <1>10 DEF ApplyBackupRetention, Active
  <2>4. job[j].pc # "idle" /\ job[j].at \in 1..Len(Parts)
    BY <1>0, <2>3 DEF Active, JobOK
  <2>5. /\ job'[j] \in JobType /\ job'[j].dest = job[j].dest
        /\ job'[j].at \in 1..Len(Parts) /\ job'[j].snap = job[j].snap
    <3> DEFINE pc == IF IsLast(j) THEN "prune" ELSE "prep"
               a == IF IsLast(j) THEN job[j].at ELSE job[j].at + 1
    <3>1. pc \in {"idle", "queued", "reach", "prep", "send", "retain", "prune", "peer"}
      OBVIOUS
    <3>2. a \in 1..Len(Parts) /\ a \in 0..Len(Parts)
      BY <1>2, <2>4 DEF IsLast
    <3> HIDE DEF pc, a
    <3>3. job'[j] = [job[j] EXCEPT !.pc = pc, !.at = a]
      BY <2>2 DEF pc, a
    <3>4. job[j] \in JobType
      BY <1>0
    <3> QED BY <3>1, <3>2, <3>3, <3>4 DEF JobType
  <2>6. JobOK(job'[j], Len(fam'))
    BY <1>0, <1>1, <2>3, <2>4, <2>5 DEF JobOK
  <2> QED BY <2>1, <2>6
<1>11. CASE PruneSourceBackupAnchors(j)
  <2>1. CASE Finish(j, TRUE, FALSE)
    BY <2>1
  <2>2. CASE Goto(j, "peer")
    <3>1. OnlyJob(j)
      BY <1>0, <2>2 DEF Goto, OnlyJob
    <3>2. job'[j] = [job[j] EXCEPT !.pc = "peer"]
      BY <1>0, <2>2 DEF Goto
    <3>3. job[j].pc \in Active
      BY <1>11 DEF PruneSourceBackupAnchors, Active
    <3>4. JobOK(job'[j], Len(fam'))
      BY <1>0, <1>1, <3>2, <3>3 DEF JobOK, JobType, Active
    <3> QED BY <3>1, <3>4
  <2> QED BY <1>11, <2>1, <2>2 DEF PruneSourceBackupAnchors
<1> QED BY <1>4, <1>5, <1>6, <1>7, <1>8, <1>9, <1>10, <1>11 DEF BackupStep

(* ... and every other step. *)
LEMMA JobsNext == ASSUME BaseInv, Next PROVE JobsInv'
<1>1. Len(fam) \in Nat /\ Len(fam') \in Nat /\ Len(fam) <= Len(fam') /\ JobsInv
  BY LenGrows DEF BaseInv
<1>2. CASE Crash
  <2>1. \A k \in Jobs : job'[k] = Idle /\ JobOK(Idle, Len(fam'))
    BY <1>2, IdleOK DEF Crash
  <2>2. job' \in [Jobs -> JobType]
    BY <1>2, <2>1 DEF Crash, JobOK
  <2> QED BY <2>1, <2>2 DEF JobsInv, JobOK, Dest
<1>3. CASE AutoSnapshot
  BY <1>1, <1>3, AutoHits, HitOK DEF JobsInv
<1>4. ASSUME NEW ds, Touch(ds) PROVE JobsInv'
  BY <1>1, <1>4, TouchIs, HitOK DEF JobsInv
<1>5. CASE DeleteSnapshot \/ DropInstance
           \/ \E d \in Dests : DeletePoint(d) \/ DeleteBackup(d) \/ InstantCloneRestore(d)
  BY <1>4, <1>5 DEF DeleteSnapshot, DropInstance, DeletePoint, DeleteBackup,
     InstantCloneRestore, Interfere
<1> QED BY <1>2, <1>3, <1>5, JobsStep DEF Next

(* Every step keeps CountInv. *)
LEMMA CountNext == ASSUME BaseInv, Next PROVE CountInv'
<1>1. CountInv /\ MaxFaults \in Nat /\ MaxUser \in Nat
  BY BackupAssumption DEF BaseInv
<1>2. ASSUME NEW j \in Jobs,
             BackupStep(j) \/ Cancel(j) \/ \E d \in Dests : StartBackupJob(j, d)
      PROVE  CountInv'
  <2>1. job[j].pc # "idle" => Dest(j) \in Dests
    BY DEF BaseInv, JobsInv
  <2>2. CASE BackupStep(j)
    <3>1. job[j].pc # "idle" /\ user' = user
      BY <2>2 DEF BackupStep, CreateSnapshot, StepFails, RemotePrepChain,
         RemotePrepChainFails, PrepLocalBackupChain, RunSyncoid, SyncoidRefuses,
         SyncoidBreaks, SyncoidKilled, ApplyBackupRetention, PruneSourceBackupAnchors,
         RemotePruneRetention
    <3>2. faults' = faults \/ (faults < MaxFaults /\ faults' = faults + 1)
      BY <2>2 DEF BackupStep, CreateSnapshot, StepFails, RemotePrepChain,
         RemotePrepChainFails, PrepLocalBackupChain, RunSyncoid, SyncoidRefuses,
         SyncoidBreaks, SyncoidKilled, ApplyBackupRetention, PruneSourceBackupAnchors,
         RemotePruneRetention, Fault
    <3>3. sound' \subseteq sound \cup {Dest(j)}
      BY <2>2 DEF BackupStep, CreateSnapshot, StepFails, RemotePrepChain,
         RemotePrepChainFails, PrepLocalBackupChain, RunSyncoid, SyncoidRefuses,
         SyncoidBreaks, SyncoidKilled, ApplyBackupRetention, PruneSourceBackupAnchors,
         RemotePruneRetention, Finish
    <3> QED BY <1>1, <2>1, <3>1, <3>2, <3>3 DEF CountInv
  <2>3. CASE Cancel(j) \/ \E d \in Dests : StartBackupJob(j, d)
    <3>1. sound' = sound /\ faults' = faults
          /\ (user' = user \/ (user < MaxUser /\ user' = user + 1))
      BY <2>3 DEF Cancel, StartBackupJob, User
    <3> QED BY <1>1, <3>1 DEF CountInv
  <2> QED BY <1>2, <2>2, <2>3
<1>3. CASE AutoSnapshot \/ Crash
  BY <1>1, <1>3 DEF AutoSnapshot, Crash, Fault, CountInv
<1>4. CASE DeleteSnapshot \/ DropInstance
           \/ \E d \in Dests : DeletePoint(d) \/ DeleteBackup(d) \/ InstantCloneRestore(d)
  <2>1. sound' \subseteq sound /\ faults' = faults /\ user < MaxUser /\ user' = user + 1
    BY <1>4 DEF DeleteSnapshot, DropInstance, DeletePoint, DeleteBackup,
       InstantCloneRestore, Interfere, User
  <2> QED BY <1>1, <2>1 DEF CountInv
<1> QED BY <1>2, <1>3, <1>4 DEF Next

(* Every step keeps BaseInv. *)
LEMMA BaseNext == ASSUME BaseInv, [Next]_vars PROVE BaseInv'
<1>1. CASE Next
  BY <1>1, StoreNext, JobsNext, HangNext, CountNext DEF BaseInv
<1>2. CASE UNCHANGED vars
  BY <1>2 DEF vars, BaseInv, Store, JobsInv, HangInv, CountInv, Dest
<1> QED BY <1>1, <1>2

(* BaseInv holds initially. *)
LEMMA BaseInit == ASSUME Init PROVE BaseInv
<1>1. Store
  BY BackupAssumption DEF Init, Store
<1>2. JobsInv
  <2>1. \A n \in Nat : JobOK(Idle, n)
    BY BackupAssumption DEF JobOK, Idle, JobType, Active
  <2>2. Len(fam) \in Nat
    BY DEF Init
  <2>3. \A j \in Jobs : job[j] = Idle
    BY DEF Init
  <2>4. job \in [Jobs -> JobType]
    BY <2>1, <2>2 DEF Init, JobOK
  <2> QED BY <2>1, <2>2, <2>3, <2>4, JobsAre
<1>3. HangInv /\ CountInv
  BY BackupAssumption DEF Init, HangInv, CountInv
<1> QED BY <1>1, <1>2, <1>3 DEF BaseInv

(* Nothing holds a snapshot that was never taken, a part without a dataset has no   *)
(* snapshots, and the snapshots a restored instance hangs off exist, whatever jobs, *)
(* retention, deletions and crashes interleave (BackupDependents,                   *)
(* LXDPruneRetentionByCount, PrepLocalBackupChain, RunSyncoidLocal).                *)
THEOREM TypeCorrect == Spec => []TypeOK
<1>1. BaseInv => TypeOK
  BY DEF BaseInv, Store, JobsInv, HangInv, CountInv, TypeOK
<1> QED BY <1>1, BaseInit, BaseNext, PTL DEF Spec

(***************************************************************************)
(* The steps of a job, and what happens besides.                           *)
(***************************************************************************)
(* The steps of a job, field by field: its start, *)
LEMMA StartIs == ASSUME BaseInv, NEW j \in Jobs, NEW d \in Dests, StartBackupJob(j, d)
    PROVE  /\ job'[j].pc = "queued" /\ job'[j].status = "queued" /\ job'[j].dest = d
           /\ ~job'[j].cut /\ ~job'[j].hit
<1>1. job \in [Jobs -> JobType]
  BY DEF BaseInv, JobsInv
<1>2. job'[j] = [Idle EXCEPT !.pc = "queued", !.dest = d, !.status = "queued"]
  BY <1>1 DEF StartBackupJob
<1> QED BY <1>2 DEF Idle

(* the cancellation, *)
LEMMA CancelIs == ASSUME BaseInv, NEW j \in Jobs, Cancel(j)
    PROVE  /\ job'[j].status = "canceled" /\ job'[j].hit
           /\ job'[j].pc = job[j].pc /\ job'[j].at = job[j].at
              /\ job'[j].snap = job[j].snap /\ job'[j].dest = job[j].dest
<1>1. job \in [Jobs -> JobType]
  BY DEF BaseInv, JobsInv
<1>2. job'[j] = [job[j] EXCEPT !.status = "canceled", !.cut = TRUE, !.hit = TRUE]
      /\ job[j] \in JobType
  BY <1>1 DEF Cancel
<1> QED BY <1>2 DEF JobType

(* the snapshot, *)
LEMMA CreateIs == ASSUME BaseInv, NEW j \in Jobs, CreateSnapshot(j)
    PROVE  /\ job'[j].pc = IF Dest(j) \in Remote THEN "reach" ELSE "prep"
           /\ job'[j].status = "running" /\ job'[j].snap = Len(fam) + 1 /\ job'[j].at = 1
           /\ job'[j].dest = job[j].dest /\ job'[j].hit = job[j].hit
              /\ job'[j].cut = job[j].cut
<1>1. job \in [Jobs -> JobType]
  BY DEF BaseInv, JobsInv
<1>2. job'[j] = [job[j] EXCEPT !.pc = IF Dest(j) \in Remote THEN "reach" ELSE "prep",
         !.status = "running",
                               !.snap = Len(fam) + 1, !.at = 1] /\ job[j] \in JobType
  BY <1>1 DEF CreateSnapshot
<1> QED BY <1>2 DEF JobType

(* the self-heal, *)
LEMMA PrepIs ==
  ASSUME BaseInv, NEW j \in Jobs,
         RemotePrepChain(j) \/ RemotePrepChainFails(j) \/ PrepLocalBackupChain(j)
    PROVE  /\ job'[j].pc = "send"
           /\ job'[j].status = job[j].status /\ job'[j].snap = job[j].snap
              /\ job'[j].at = job[j].at
           /\ job'[j].dest = job[j].dest /\ job'[j].cut = job[j].cut
           /\ job[j].hit => job'[j].hit
           /\ RemotePrepChainFails(j) => job'[j].hit
<1>1. job \in [Jobs -> JobType]
  BY DEF BaseInv, JobsInv
<1>2. CASE RemotePrepChainFails(j)
  <2>1. job'[j] = [job[j] EXCEPT !.pc = "send", !.hit = TRUE] /\ job[j] \in JobType
    BY <1>1, <1>2 DEF RemotePrepChainFails
  <2> QED BY <2>1 DEF JobType
<1>3. CASE (RemotePrepChain(j) \/ PrepLocalBackupChain(j)) /\ ~RemotePrepChainFails(j)
  <2>1. job'[j] = [job[j] EXCEPT !.pc = "send"] /\ job[j] \in JobType
    BY <1>1, <1>3 DEF RemotePrepChain, PrepLocalBackupChain, Goto
  <2> QED BY <1>3, <2>1 DEF JobType
<1> QED BY <1>2, <1>3

(* the transfer, *)
LEMMA SyncIs == ASSUME BaseInv, NEW j \in Jobs, RunSyncoid(j)
    PROVE  /\ job'[j].pc = IF Dest(j) \notin Remote THEN "retain"
                ELSE IF IsLast(j) THEN "prune" ELSE "send"
           /\ job'[j].at = IF Dest(j) \in Remote
              /\ ~IsLast(j) THEN job[j].at + 1 ELSE job[j].at
           /\ job'[j].status = job[j].status /\ job'[j].snap = job[j].snap
           /\ job'[j].dest = job[j].dest /\ job'[j].cut = job[j].cut
              /\ job'[j].hit = job[j].hit
<1>1. job \in [Jobs -> JobType]
  BY DEF BaseInv, JobsInv
<1>2. job[j] \in JobType
      /\ job'[j] = [job[j] EXCEPT !.pc = IF Dest(j) \notin Remote THEN "retain"
           ELSE IF IsLast(j) THEN "prune" ELSE "send",
                     !.at = IF Dest(j) \in Remote /\ ~IsLast(j) THEN @ + 1 ELSE @]
  BY <1>1 DEF RunSyncoid
<1> QED BY <1>2 DEF JobType

(* retention, *)
LEMMA RetainIs == ASSUME BaseInv, NEW j \in Jobs, ApplyBackupRetention(j)
    PROVE  /\ job'[j].pc = IF IsLast(j) THEN "prune" ELSE "prep"
           /\ job'[j].at = IF IsLast(j) THEN job[j].at ELSE job[j].at + 1
           /\ job'[j].status = job[j].status /\ job'[j].snap = job[j].snap
           /\ job'[j].dest = job[j].dest /\ job'[j].cut = job[j].cut
              /\ job'[j].hit = job[j].hit
<1>1. job \in [Jobs -> JobType]
  BY DEF BaseInv, JobsInv
<1>2. job[j] \in JobType
      /\ job'[j] = [job[j] EXCEPT !.pc = IF IsLast(j) THEN "prune" ELSE "prep",
            !.at = IF IsLast(j) THEN @ ELSE @ + 1]
  BY <1>1 DEF ApplyBackupRetention
<1> QED BY <1>2 DEF JobType

(* the call to the peer, *)
LEMMA PeerIs == ASSUME BaseInv, NEW j \in Jobs, Goto(j, "peer")
    PROVE  /\ job'[j].pc = "peer" /\ job'[j].at = job[j].at
           /\ job'[j].status = job[j].status /\ job'[j].snap = job[j].snap
           /\ job'[j].dest = job[j].dest /\ job'[j].cut = job[j].cut
              /\ job'[j].hit = job[j].hit
<1>1. job \in [Jobs -> JobType]
  BY DEF BaseInv, JobsInv
<1>2. job[j] \in JobType /\ job'[j] = [job[j] EXCEPT !.pc = "peer"]
  BY <1>1 DEF Goto
<1> QED BY <1>2 DEF JobType

(* and steps that only mark it. *)
LEMMA HitIs == ASSUME BaseInv, SomeHit, NEW j \in Jobs
    PROVE  /\ job'[j].pc = job[j].pc /\ job'[j].at = job[j].at
           /\ job'[j].status = job[j].status /\ job'[j].snap = job[j].snap
           /\ job'[j].dest = job[j].dest /\ job'[j].cut = job[j].cut
<1>1. job \in [Jobs -> JobType]
  BY DEF BaseInv, JobsInv
<1>2. PICK h \in BOOLEAN : job'[j] = [job[j] EXCEPT !.hit = h]
  BY DEF SomeHit
<1> QED BY <1>1, <1>2 DEF JobType

(* Steps of the schedule and the user other than a cancellation. *)
Bystander ==
  \/ AutoSnapshot \/ DeleteSnapshot \/ DropInstance
  \/ \E d \in Dests : DeletePoint(d) \/ DeleteBackup(d) \/ InstantCloneRestore(d)

(* They only mark jobs and add nothing to a destination. *)
LEMMA BystanderIs == ASSUME BaseInv, Bystander
    PROVE  /\ SomeHit
           /\ \A j \in Jobs : job[j].hit => job'[j].hit
           /\ \A d \in Dests : \A p \in PartSet : dst'[d][p] \subseteq dst[d][p]
           /\ sound' \subseteq sound
<1>1. job \in [Jobs -> JobType]
  BY DEF BaseInv, JobsInv
<1>2. ASSUME SomeHit, NEW H,
             \A k \in Jobs : job'[k] = [job[k] EXCEPT !.hit = job[k].hit \/ H[k]]
      PROVE  \A k \in Jobs : job[k].hit => job'[k].hit
  <2>1. TAKE k \in Jobs
  <2>2. job[k] \in JobType /\ job'[k] = [job[k] EXCEPT !.hit = job[k].hit \/ H[k]]
    BY <1>1, <1>2
  <2> QED BY <2>2 DEF JobType
<1>3. CASE AutoSnapshot
  <2>1. SomeHit
        /\ \A k \in Jobs : job'[k] = [job[k] EXCEPT !.hit = job[k].hit
             \/ [i \in Jobs |-> Cuts(Dest(i))][k]]
    BY <1>1, <1>3, AutoHits
  <2> QED BY <1>2, <1>3, <2>1 DEF AutoSnapshot
<1>4. ASSUME NEW ds, Touch(ds) PROVE SomeHit /\ \A j \in Jobs : job[j].hit => job'[j].hit
  <2>1. SomeHit
        /\ \A k \in Jobs : job'[k] = [job[k] EXCEPT !.hit = job[k].hit
             \/ [i \in Jobs |-> Dest(i) \in ds][k]]
    BY <1>1, <1>4, TouchIs
  <2> QED BY <1>2, <2>1
<1>5. CASE DeleteSnapshot \/ DropInstance \/ \E d \in Dests : InstantCloneRestore(d)
  BY <1>4, <1>5 DEF DeleteSnapshot, DropInstance, InstantCloneRestore, Interfere
<1>6. ASSUME NEW d \in Dests, DeletePoint(d)
      PROVE  \A e \in Dests : \A p \in PartSet : dst'[e][p] \subseteq dst[e][p]
  <2>1. PICK x : dst' = [dst EXCEPT ![d] = [p \in PartSet |-> @[p] \ ({x} \ Pinned(d, p))]]
    BY <1>6 DEF DeletePoint
  <2> QED BY <2>1 DEF BaseInv, Store
<1>7. ASSUME NEW d \in Dests, DeleteBackup(d)
      PROVE  \A e \in Dests : \A p \in PartSet : dst'[e][p] \subseteq dst[e][p]
  <2>1. Wipe(d, has[d])
    BY <1>7 DEF DeleteBackup
  <2> QED BY <2>1, WipeIs DEF BaseInv
<1>8. CASE \E d \in Dests : DeletePoint(d) \/ DeleteBackup(d)
  BY <1>4, <1>6, <1>7, <1>8 DEF DeletePoint, DeleteBackup, Interfere
<1> QED BY <1>3, <1>5, <1>8 DEF Bystander

(* A job that is not hit afterwards was not hit by Touch. *)
LEMMA TouchSpares ==
  ASSUME NEW ds, Touch(ds), job \in [Jobs -> JobType], NEW k \in Jobs, ~job'[k].hit
    PROVE  ~job[k].hit /\ Dest(k) \notin ds
<1>1. job[k] \in JobType /\ job'[k] = [job[k] EXCEPT !.hit = job[k].hit \/ Dest(k) \in ds]
  BY TouchIs
<1>2. job'[k].hit = (job[k].hit \/ Dest(k) \in ds)
  BY <1>1 DEF JobType
<1> QED BY <1>2

(* The destination of a job that is not hit stays as it was. *)
LEMMA BystanderSpares ==
  ASSUME BaseInv, Bystander, NEW k \in Jobs, ~job'[k].hit, Dest(k) \in Dests
    PROVE  /\ ~job[k].hit
           /\ has'[Dest(k)] = has[Dest(k)] /\ dst'[Dest(k)] = dst[Dest(k)]
           /\ src' = src \/ (AutoSnapshot /\ ~Cuts(Dest(k)))
           /\ inst' = inst \/ (~(inst # None /\ inst.from = Dest(k))
              /\ ~(inst' # None /\ inst'.from = Dest(k)))
<1>1. job \in [Jobs -> JobType] /\ has \in [Dests -> SUBSET PartSet]
      /\ dst \in [Dests -> [PartSet -> SUBSET Nat]]
  BY DEF BaseInv, JobsInv, Store
<1>2. CASE AutoSnapshot
  <2>1. job[k] \in JobType /\ job'[k] = [job[k] EXCEPT !.hit = job[k].hit \/ Cuts(Dest(k))]
    BY <1>1, <1>2, AutoHits
  <2>2. job'[k].hit = (job[k].hit \/ Cuts(Dest(k)))
    BY <2>1 DEF JobType
  <2>3. has' = has /\ dst' = dst /\ inst' = inst
    BY <1>2 DEF AutoSnapshot
  <2> QED BY <1>2, <2>2, <2>3
<1>3. CASE DeleteSnapshot
  <2>1. Touch(Dests)
    BY <1>3 DEF DeleteSnapshot, Interfere
  <2> QED BY <1>1, <2>1, TouchSpares
<1>4. CASE DropInstance
  <2>1. Touch({inst.from}) /\ inst' = None /\ UNCHANGED <<src, has, dst>>
    BY <1>4 DEF DropInstance
  <2>2. ~job[k].hit /\ Dest(k) \notin {inst.from}
    BY <1>1, <2>1, TouchSpares
  <2> QED BY <2>1, <2>2
<1>5. ASSUME NEW d \in Dests, DeletePoint(d) \/ DeleteBackup(d) \/ InstantCloneRestore(d)
      PROVE  ~job[k].hit /\ Dest(k) # d /\ src' = src
  <2>1. Touch({d}) /\ src' = src
    BY <1>5 DEF DeletePoint, DeleteBackup, InstantCloneRestore, Interfere
  <2>2. ~job[k].hit /\ Dest(k) \notin {d}
    BY <1>1, <2>1, TouchSpares
  <2> QED BY <2>1, <2>2
<1>6. ASSUME NEW d \in Dests, DeletePoint(d) \/ DeleteBackup(d), Dest(k) # d
      PROVE  has'[Dest(k)] = has[Dest(k)] /\ dst'[Dest(k)] = dst[Dest(k)] /\ inst' = inst
  BY <1>1, <1>6 DEF DeletePoint, DeleteBackup, Wipe
<1>7. ASSUME NEW d \in Dests, InstantCloneRestore(d), Dest(k) # d
      PROVE  has' = has /\ dst' = dst /\ inst = None /\ inst'.from # Dest(k)
  <2>1. PICK a : inst' = [from |-> d, at |-> a]
    BY <1>7 DEF InstantCloneRestore
  <2> QED BY <1>7, <2>1 DEF InstantCloneRestore
<1> QED BY <1>2, <1>3, <1>4, <1>5, <1>6, <1>7 DEF Bystander

(***************************************************************************)
(* A job and its parts.                                                    *)
(***************************************************************************)
(* At most one backup of the instance runs at a time. *)
OneJob == \A j, k \in Jobs : j = k

(* Part i of job j has been sent. *)
Past(j, i) == i < job[j].at \/ (i = job[j].at /\ job[j].pc \in {"retain", "prune", "peer"})

(* The order of the steps of a job, local and remote; a cancelled job counts as hit. *)
Course(j) ==
  /\ job[j].pc = "reach" => job[j].at = 1
  /\ job[j].pc \in {"prune", "peer"} => job[j].at = Len(Parts)
  /\ job[j].status \in {"done", "error"} => job[j].pc = "idle"
  /\ job[j].pc \in {"prep", "retain"} => Dest(j) \notin Remote
  /\ job[j].pc \in {"reach", "peer"} => Dest(j) \in Remote
  /\ job[j].cut => job[j].hit
  /\ job[j].status # "none" => Dest(j) \in Dests

(* A part that is still to be sent holds only snapshots older than the job. *)
Fresh(j) ==
  job[j].pc \in Active =>
    \A i \in 1..Len(Parts) : ~Past(j, i)
    => \A x \in dst[Dest(j)][Parts[i]] : x < job[j].snap

(* So for all jobs ... *)
CourseInv == \A j \in Jobs : Course(j)

(* ... both. *)
FreshInv == \A j \in Jobs : Fresh(j)

(* Parts are distinct. *)
LEMMA PartsApart ==
  ASSUME NEW i \in 1..Len(Parts), NEW k \in 1..Len(Parts), i # k
  PROVE  Parts[i] # Parts[k]
<1>1. DOMAIN Parts = 1..Len(Parts)
  BY BackupAssumption
<1> QED BY <1>1, BackupAssumption

(* Every step keeps CourseInv. *)
LEMMA CourseNext == ASSUME BaseInv, CourseInv, Next PROVE CourseInv'
<1>1. SUFFICES ASSUME NEW k \in Jobs PROVE Course(k)'
  BY DEF CourseInv
<1>2. Course(k) /\ job \in [Jobs -> JobType] /\ (job[k].pc # "idle" => Dest(k) \in Dests)
  BY DEF CourseInv, BaseInv, JobsInv
<1>3. CASE job'[k] = job[k]
  BY <1>2, <1>3 DEF Course, Dest
<1>4. CASE BackupStep(k) \/ Cancel(k) \/ \E d \in Dests : StartBackupJob(k, d)
  <2>1. ASSUME NEW d \in Dests, StartBackupJob(k, d) PROVE Course(k)'
    BY <2>1, StartIs DEF Course, Dest
  <2>2. CASE Cancel(k)
    <3>1. job[k].status \in {"queued", "running"}
      BY <2>2 DEF Cancel
    <3> QED BY <1>2, <2>2, <3>1, CancelIs DEF Course, Dest
  <2>3. CASE CreateSnapshot(k)
    <3>1. job[k].pc = "queued"
      BY <2>3 DEF CreateSnapshot
    <3> QED BY <1>2, <2>3, <3>1, CreateIs DEF Course, Dest
  <2>4. CASE RemotePrepChain(k) \/ RemotePrepChainFails(k) \/ PrepLocalBackupChain(k)
    <3>1. job[k].pc \in {"reach", "prep"}
      BY <2>4 DEF RemotePrepChain, RemotePrepChainFails, PrepLocalBackupChain
    <3> QED BY <1>2, <2>4, <3>1, PrepIs DEF Course, Dest
  <2>5. CASE RunSyncoid(k)
    <3>1. job[k].pc = "send"
      BY <2>5 DEF RunSyncoid
    <3> QED BY <1>2, <2>5, <3>1, SyncIs DEF Course, Dest, IsLast
  <2>6. CASE ApplyBackupRetention(k)
    <3>1. job[k].pc = "retain"
      BY <2>6 DEF ApplyBackupRetention
    <3> QED BY <1>2, <2>6, <3>1, RetainIs DEF Course, Dest, IsLast
  <2>7. ASSUME NEW ok \in BOOLEAN, NEW f \in BOOLEAN, Finish(k, ok, f), job[k].pc # "idle"
        PROVE  Course(k)'
    BY <1>2, <2>7, FinishIs DEF Course, Dest
  <2>8. CASE PruneSourceBackupAnchors(k) /\ Dest(k) \in Remote
    <3>1. job[k].pc = "prune" /\ Goto(k, "peer")
      BY <2>8 DEF PruneSourceBackupAnchors
    <3> QED BY <1>2, <2>8, <3>1, PeerIs DEF Course, Dest
  <2>9. CASE PruneSourceBackupAnchors(k) /\ Dest(k) \notin Remote
    BY <2>7, <2>9 DEF PruneSourceBackupAnchors
  <2>10. CASE StepFails(k) \/ SyncoidRefuses(k) \/ SyncoidBreaks(k) \/ SyncoidKilled(k)
              \/ RemotePruneRetention(k)
    BY <2>7, <2>10 DEF StepFails, SyncoidRefuses, SyncoidBreaks, SyncoidKilled,
       RemotePruneRetention
  <2> QED BY <1>4, <2>1, <2>2, <2>3, <2>4, <2>5, <2>6, <2>8, <2>9, <2>10 DEF BackupStep
<1>5. ASSUME NEW j \in Jobs, j # k,
             BackupStep(j) \/ Cancel(j) \/ \E d \in Dests : StartBackupJob(j, d)
      PROVE  job'[k] = job[k]
  BY <1>2, <1>5 DEF BackupStep, CreateSnapshot, StepFails, RemotePrepChain,
     RemotePrepChainFails, PrepLocalBackupChain, RunSyncoid, SyncoidRefuses, SyncoidBreaks,
     SyncoidKilled, ApplyBackupRetention, PruneSourceBackupAnchors, RemotePruneRetention,
     Finish, Goto, Cancel, StartBackupJob
<1>6. CASE Crash
  <2>1. job'[k] = Idle
    BY <1>6 DEF Crash
  <2> QED BY <2>1 DEF Course, Idle
<1>7. CASE Bystander
  <2>1. SomeHit /\ (job[k].hit => job'[k].hit)
    BY <1>7, BystanderIs
  <2> QED BY <1>2, <2>1, HitIs DEF Course, Dest
<1> QED BY <1>3, <1>4, <1>5, <1>6, <1>7 DEF Next, Bystander

(* With one job, every step keeps FreshInv. *)
LEMMA FreshNext == ASSUME OneJob, BaseInv, FreshInv, Next PROVE FreshInv'
<1>1. SUFFICES ASSUME NEW k \in Jobs, job'[k].pc \in Active, NEW i \in 1..Len(Parts),
                      ~Past(k, i)'
               PROVE  \A x \in dst'[job'[k].dest][Parts[i]] : x < job'[k].snap
  BY DEF FreshInv, Fresh, Dest
<1>2. Fresh(k) /\ Parts[i] \in PartSet /\ Len(Parts) \in Nat
  BY PartIn, BackupAssumption DEF FreshInv
<1>3. CASE BackupStep(k) \/ Cancel(k) \/ \E d \in Dests : StartBackupJob(k, d)
  <2>1. ASSUME NEW d \in Dests, StartBackupJob(k, d) PROVE FALSE
    BY <1>1, <2>1, StartIs DEF Active
  <2>2. CASE Cancel(k)
    <3>1. dst' = dst
      BY <2>2 DEF Cancel
    <3> QED BY <1>1, <1>2, <2>2, <3>1, CancelIs DEF Fresh, Past, Dest
  <2>3. CASE CreateSnapshot(k)
    <3>1. dst' = dst /\ Dest(k) \in Dests
      BY <2>3 DEF CreateSnapshot, BaseInv, JobsInv
    <3>2. \A x \in dst[Dest(k)][Parts[i]] : x \in 1..Len(fam) /\ Len(fam) \in Nat
      BY <1>2, <3>1 DEF BaseInv, Store
    <3> QED BY <2>3, <3>1, <3>2, CreateIs DEF Dest
  <2>4. CASE RemotePrepChain(k) \/ RemotePrepChainFails(k) \/ PrepLocalBackupChain(k)
    <3>1. job[k].pc \in Active /\ job[k].pc \in {"reach", "prep"}
      BY <2>4 DEF RemotePrepChain, RemotePrepChainFails, PrepLocalBackupChain, Active
    <3>2. Dest(k) \in Dests
      BY <3>1, JobAt
    <3>3. dst'[Dest(k)][Parts[i]] \subseteq dst[Dest(k)][Parts[i]]
      <4>1. CASE RemotePrepChainFails(k)
        BY <4>1 DEF RemotePrepChainFails
      <4>2. CASE RemotePrepChain(k) \/ PrepLocalBackupChain(k)
        BY <1>2, <3>2, <4>2, WipeIs DEF RemotePrepChain, PrepLocalBackupChain, BaseInv
      <4> QED BY <2>4, <4>1, <4>2
    <3>4. ~Past(k, i)
      BY <1>1, <2>4, <3>1, PrepIs DEF Past
    <3> QED BY <1>2, <2>4, <3>1, <3>3, <3>4, PrepIs DEF Fresh, Dest
  <2>5. CASE RunSyncoid(k)
    <3>1. job[k].pc = "send" /\ job[k].pc \in Active /\ Land(k, Stream(k))
      BY <2>5 DEF RunSyncoid, Active
    <3>2. Dest(k) \in Dests /\ job[k].at \in 1..Len(Parts)
      BY <3>1, JobAt
    <3>3. i > job[k].at
      BY <1>1, <1>2, <2>5, <3>2, SyncIs DEF Past, IsLast
    <3>4. ~Past(k, i) /\ Parts[i] # Part(k)
      BY <1>2, <3>1, <3>2, <3>3, PartsApart DEF Past, Part
    <3>5. dst'[Dest(k)][Parts[i]] = dst[Dest(k)][Parts[i]]
      BY <1>2, <3>1, <3>4, LandIs
    <3> QED BY <1>2, <2>5, <3>1, <3>4, <3>5, SyncIs DEF Fresh, Dest
  <2>6. CASE ApplyBackupRetention(k)
    <3>1. job[k].pc = "retain" /\ job[k].pc \in Active
      BY <2>6 DEF ApplyBackupRetention, Active
    <3>2. Dest(k) \in Dests /\ job[k].at \in 1..Len(Parts) /\ Part(k) \in PartSet
      BY <3>1, JobAt
    <3>3. i > job[k].at
      BY <1>1, <1>2, <2>6, <3>2, RetainIs DEF Past, IsLast
    <3>4. ~Past(k, i) /\ Parts[i] # Part(k)
      BY <1>2, <3>1, <3>2, <3>3, PartsApart DEF Past, Part
    <3>5. dst'[Dest(k)][Parts[i]] = dst[Dest(k)][Parts[i]]
      BY <1>2, <2>6, <3>2, <3>4 DEF ApplyBackupRetention, BaseInv, Store
    <3> QED BY <1>2, <2>6, <3>1, <3>4, <3>5, RetainIs DEF Fresh, Dest
  <2>7. ASSUME NEW ok \in BOOLEAN, NEW f \in BOOLEAN, Finish(k, ok, f) PROVE FALSE
    BY <1>1, <2>7, FinishIs DEF Active
  <2>8. CASE PruneSourceBackupAnchors(k) /\ Dest(k) \in Remote
    <3>1. job[k].pc = "prune" /\ job[k].pc \in Active /\ Goto(k, "peer") /\ dst' = dst
      BY <2>8 DEF PruneSourceBackupAnchors, Active
    <3>2. ~Past(k, i)
      BY <1>1, <3>1, PeerIs DEF Past
    <3> QED BY <1>2, <3>1, <3>2, PeerIs DEF Fresh, Dest
  <2>9. CASE PruneSourceBackupAnchors(k) /\ Dest(k) \notin Remote
    BY <2>7, <2>9 DEF PruneSourceBackupAnchors
  <2>10. CASE StepFails(k) \/ SyncoidRefuses(k) \/ SyncoidBreaks(k) \/ SyncoidKilled(k)
              \/ RemotePruneRetention(k)
    BY <2>7, <2>10 DEF StepFails, SyncoidRefuses, SyncoidBreaks, SyncoidKilled,
       RemotePruneRetention
  <2> QED BY <1>3, <2>1, <2>2, <2>3, <2>4, <2>5, <2>6, <2>8, <2>9, <2>10 DEF BackupStep
<1>4. CASE Crash
  <2>1. job'[k] = Idle
    BY <1>4 DEF Crash
  <2> QED BY <1>1, <2>1 DEF Idle, Active
<1>5. CASE Bystander
  <2>1. SomeHit /\ \A d \in Dests : \A p \in PartSet : dst'[d][p] \subseteq dst[d][p]
    BY <1>5, BystanderIs
  <2>2. job[k].pc \in Active /\ ~Past(k, i) /\ job'[k].dest = Dest(k)
        /\ job'[k].snap = job[k].snap
    BY <1>1, <2>1, HitIs DEF Past, Dest
  <2>3. Dest(k) \in Dests
    BY <2>2, JobAt
  <2> QED BY <1>2, <2>1, <2>2, <2>3 DEF Fresh
<1> QED BY <1>3, <1>4, <1>5 DEF Next, OneJob, Bystander

(***************************************************************************)
(* Done means stored.                                                      *)
(***************************************************************************)
(* Part p at d has snapshot n or a newer one. *)
Reaches(d, p, n) == \E x \in dst[d][p] : x >= n

(* While it sends, the instance has the snapshot of the job or a newer one, every part *)
(* that was sent has, and every part when the job is done.                             *)
Stored(j) ==
  ~job[j].hit =>
    /\ job[j].pc \in {"reach", "prep", "send", "retain"} => \E y \in src : y >= job[j].snap
    /\ job[j].pc \in Active =>
         \A i \in 1..Len(Parts) : Past(j, i) => Reaches(Dest(j), Parts[i], job[j].snap)
    /\ job[j].status = "done"
       => \A i \in 1..Len(Parts) : Reaches(Dest(j), Parts[i], job[j].snap)

(* So for all jobs that nobody interfered with. *)
StoredInv == \A j \in Jobs : Stored(j)

(* Retention of the schedule keeps a snapshot as new. *)
LEMMA AutoKeeps == ASSUME BaseInv, AutoSnapshot, NEW s \in Nat, NEW y \in src, y >= s
    PROVE  \E z \in src' : z >= s
<1> DEFINE all == src \cup {Len(fam) + 1}
           autos == {x \in all : fam'[x] \in Covers[AutoLabel]}
<1>1. src' = (all \ autos) \cup NewestN(autos, AutoKeep)
  BY DEF AutoSnapshot
<1>2. Len(fam) + 1 \in Nat /\ all \in SUBSET (1..(Len(fam) + 1)) /\ y \in all
  <2>1. src \subseteq 1..Len(fam) /\ Len(fam) \in Nat
    BY DEF BaseInv, Store
  <2>2. 1..Len(fam) \subseteq 1..(Len(fam) + 1) /\ Len(fam) + 1 \in 1..(Len(fam) + 1)
    BY <2>1
  <2>3. all \in SUBSET (1..(Len(fam) + 1))
    BY <2>1, <2>2
  <2>4. Len(fam) + 1 \in Nat /\ y \in all
    BY <2>1
  <2> QED BY <2>3, <2>4
<1>3. autos \in SUBSET (1..(Len(fam) + 1)) /\ AutoKeep \in Nat \ {0}
  BY <1>2, BackupAssumption
<1> HIDE DEF all, autos
<1>4. CASE y \in autos
  <2>1. PICK z \in NewestN(autos, AutoKeep) : z >= y
    BY <1>2, <1>3, <1>4, NewestKept
  <2>2. z \in src' /\ z \in Nat /\ y \in Nat
    BY <1>1, <1>2, <1>3, <2>1 DEF NewestN
  <2> QED BY <2>1, <2>2
<1>5. CASE y \notin autos
  BY <1>1, <1>2, <1>5
<1> QED BY <1>4, <1>5

(* A transfer brings every snapshot as new as the one of the job. *)
LEMMA LandReaches ==
  ASSUME BaseInv, FreshInv, NEW j \in Jobs, job[j].pc = "send", ~Refused(j),
           Land(j, Stream(j)), NEW y \in src, y >= job[j].snap
    PROVE  y \in dst'[Dest(j)][Part(j)]
<1>1. job[j].pc \in Active
  BY DEF Active
<1>2. Dest(j) \in Dests /\ Part(j) \in PartSet /\ job[j].at \in 1..Len(Parts)
      /\ job[j].snap \in Nat
  BY <1>1, JobAt DEF BaseInv, Store
<1>3. \A x \in dst[Dest(j)][Part(j)] : x < job[j].snap
  <2>1. ~Past(j, job[j].at)
    BY <1>2 DEF Past
  <2> QED BY <1>1, <1>2, <2>1 DEF FreshInv, Fresh, Part
<1>4. y \in Stream(j)
  <2>1. CASE Part(j) \notin has[Dest(j)]
    BY <2>1 DEF Stream
  <2>2. CASE Part(j) \in has[Dest(j)]
    <3>1. HasCommonSnapshot(Dest(j), Part(j))
      BY <2>2 DEF Refused
    <3>2. Common(j) \in dst[Dest(j)][Part(j)] /\ Common(j) \in src
      BY <1>1, <3>1, CommonIs
    <3>3. y \in Nat /\ Common(j) \in Nat
      BY <3>2 DEF BaseInv, Store
    <3>4. y > Common(j)
      BY <1>2, <1>3, <3>2, <3>3
    <3> QED BY <2>2, <3>4 DEF Stream
  <2> QED BY <2>1, <2>2
<1>5. dst'[Dest(j)][Part(j)] = IF Stream(j) = {} THEN dst[Dest(j)][Part(j)]
        ELSE Base(j) \cup Stream(j)
  BY <1>1, LandIs
<1> QED BY <1>4, <1>5

(* Retention at the destination keeps a snapshot as new. *)
LEMMA RetainReaches ==
  ASSUME BaseInv, NEW d \in Dests, NEW p \in PartSet, NEW n \in Nat, Reaches(d, p, n)
    PROVE  \E x \in PruneRetentionByCount(d, p) : x >= n
<1>1. PICK x \in dst[d][p] : x >= n
  BY DEF Reaches
<1>2. dst[d][p] \in SUBSET (1..Len(fam)) /\ Len(fam) \in Nat /\ Keep \in Nat \ {0}
  BY BackupAssumption DEF BaseInv, Store
<1>3. PICK z \in NewestN(dst[d][p], Keep) : z >= x
  BY <1>1, <1>2, NewestKept
<1>4. z \in PruneRetentionByCount(d, p) /\ z \in Nat /\ x \in Nat
  BY <1>1, <1>2, <1>3, PruneIs
<1> QED BY <1>1, <1>3, <1>4

(* With one job, every step keeps StoredInv. *)
LEMMA StoredNext ==
  ASSUME OneJob, BaseInv, CourseInv, FreshInv, StoredInv, Next
  PROVE  StoredInv'
<1>1. SUFFICES ASSUME NEW k \in Jobs, ~job'[k].hit PROVE Stored(k)'
  BY DEF StoredInv, Stored
<1>2. /\ Stored(k) /\ Course(k) /\ Len(Parts) \in Nat
      /\ \A i \in 1..Len(Parts) : Parts[i] \in PartSet
  BY PartIn, BackupAssumption DEF StoredInv, CourseInv
<1>3. CASE BackupStep(k) \/ Cancel(k) \/ \E d \in Dests : StartBackupJob(k, d)
  <2>1. ASSUME NEW d \in Dests, StartBackupJob(k, d) PROVE Stored(k)'
    BY <2>1, StartIs DEF Stored, Active
  <2>2. CASE Cancel(k)
    BY <1>1, <2>2, CancelIs
  <2>3. CASE CreateSnapshot(k)
    <3>1. Len(fam) + 1 \in src' /\ Len(fam) + 1 \in Nat
      BY <2>3 DEF CreateSnapshot, BaseInv, Store
    <3> QED BY <1>2, <2>3, <3>1, CreateIs DEF Stored, Past
  <2>4. CASE RemotePrepChain(k) \/ RemotePrepChainFails(k) \/ PrepLocalBackupChain(k)
    <3>1. ~RemotePrepChainFails(k) /\ ~job[k].hit
      BY <1>1, <2>4, PrepIs
    <3>2. job[k].pc \in {"reach", "prep"} /\ job[k].pc \in Active /\ src' = src
      BY <2>4 DEF RemotePrepChain, RemotePrepChainFails, PrepLocalBackupChain, Active
    <3>3. Dest(k) \in Dests /\ job[k].at \in 1..Len(Parts)
      BY <3>2, JobAt
    <3>4. ASSUME NEW i \in 1..Len(Parts), i < job[k].at
          PROVE  dst'[Dest(k)][Parts[i]] = dst[Dest(k)][Parts[i]]
      <4>1. PrepLocalBackupChain(k)
        BY <1>2, <2>4, <3>1, <3>4 DEF RemotePrepChain, Course
      <4>2. Wipe(Dest(k), Broken(Dest(k)) \cap {Part(k)})
        BY <4>1 DEF PrepLocalBackupChain
      <4>3. Parts[i] # Part(k)
        BY <3>3, <3>4, PartsApart DEF Part
      <4> QED BY <1>2, <3>3, <4>2, <4>3, WipeIs DEF BaseInv
    <3>5. \A i \in 1..Len(Parts) : i < job[k].at => Reaches(Dest(k), Parts[i], job[k].snap)
      BY <1>2, <3>1, <3>2 DEF Stored, Past
    <3>6. \A i \in 1..Len(Parts) : i < job[k].at
          => \E x \in dst'[Dest(k)][Parts[i]] : x >= job[k].snap
      BY <3>4, <3>5 DEF Reaches
    <3> QED BY <1>2, <2>4, <3>1, <3>2, <3>6, PrepIs DEF Stored, Past, Reaches, Dest, Course
  <2>5. CASE RunSyncoid(k)
    <3>1. job[k].pc = "send" /\ job[k].pc \in Active /\ ~Refused(k) /\ Land(k, Stream(k))
          /\ src' = src
      BY <2>5 DEF RunSyncoid, Active
    <3>2. Dest(k) \in Dests /\ job[k].at \in 1..Len(Parts) /\ job[k].snap \in Nat
      BY <3>1, JobAt DEF BaseInv, Store
    <3>3. ~job[k].hit
      BY <1>1, <2>5, SyncIs
    <3>4. PICK y \in src : y >= job[k].snap
      BY <1>2, <3>1, <3>3 DEF Stored
    <3>5. y \in dst'[Dest(k)][Part(k)]
      BY <3>1, <3>4, LandReaches
    <3>6. ASSUME NEW i \in 1..Len(Parts), i < job[k].at
          PROVE  \E x \in dst'[Dest(k)][Parts[i]] : x >= job[k].snap
      <4>1. Parts[i] # Part(k)
        BY <3>2, <3>6, PartsApart DEF Part
      <4>2. dst'[Dest(k)][Parts[i]] = dst[Dest(k)][Parts[i]]
        BY <1>2, <3>1, <4>1, LandIs
      <4>3. Reaches(Dest(k), Parts[i], job[k].snap)
        BY <1>2, <3>1, <3>3, <3>6 DEF Stored, Past
      <4> QED BY <4>2, <4>3 DEF Reaches
    <3>7. \A i \in 1..Len(Parts) : i <= job[k].at
          => \E x \in dst'[Dest(k)][Parts[i]] : x >= job[k].snap
      BY <3>2, <3>4, <3>5, <3>6 DEF Part
    <3>8. \A i \in 1..Len(Parts) : Past(k, i)' => i <= job[k].at
      BY <2>5, <3>2, SyncIs DEF Past
    <3> QED BY <1>2, <2>5, <3>1, <3>4, <3>7, <3>8, SyncIs DEF Stored, Reaches, Dest, Course
  <2>6. CASE ApplyBackupRetention(k)
    <3>1. job[k].pc = "retain" /\ job[k].pc \in Active /\ src' = src
      BY <2>6 DEF ApplyBackupRetention, Active
    <3>2. Dest(k) \in Dests /\ job[k].at \in 1..Len(Parts) /\ Part(k) \in PartSet
          /\ job[k].snap \in Nat
      BY <3>1, JobAt DEF BaseInv, Store
    <3>3. ~job[k].hit
      BY <1>1, <2>6, RetainIs
    <3>4. ASSUME NEW i \in 1..Len(Parts), i <= job[k].at
          PROVE  \E x \in dst'[Dest(k)][Parts[i]] : x >= job[k].snap
      <4>1. Reaches(Dest(k), Parts[i], job[k].snap)
        BY <1>2, <3>1, <3>2, <3>3, <3>4 DEF Stored, Past
      <4>2. dst'[Dest(k)][Parts[i]] =
              IF Parts[i] = Part(k) THEN PruneRetentionByCount(Dest(k), Part(k))
                ELSE dst[Dest(k)][Parts[i]]
        BY <1>2, <2>6, <3>2 DEF ApplyBackupRetention, BaseInv, Store
      <4>3. \E x \in PruneRetentionByCount(Dest(k), Parts[i]) : x >= job[k].snap
        BY <1>2, <3>2, <4>1, RetainReaches
      <4> QED BY <4>1, <4>2, <4>3 DEF Reaches
    <3>5. \A i \in 1..Len(Parts) : Past(k, i)' => i <= job[k].at
      BY <2>6, <3>2, RetainIs DEF Past
    <3>6. \E y \in src : y >= job[k].snap
      BY <1>2, <3>1, <3>3 DEF Stored
    <3> QED BY <1>2, <2>6, <3>1, <3>4, <3>5, <3>6, RetainIs DEF Stored, Reaches, Dest,
            Course
  <2>7. CASE PruneSourceBackupAnchors(k) /\ Dest(k) \in Remote
    <3>1. job[k].pc = "prune" /\ job[k].pc \in Active /\ Goto(k, "peer") /\ dst' = dst
      BY <2>7 DEF PruneSourceBackupAnchors, Active
    <3>2. \A i \in 1..Len(Parts) : Past(k, i)' <=> Past(k, i)
      BY <3>1, PeerIs DEF Past
    <3> QED BY <1>1, <1>2, <3>1, <3>2, PeerIs DEF Stored, Reaches, Dest, Course
  <2>8. CASE PruneSourceBackupAnchors(k) /\ Dest(k) \notin Remote
    <3>1. job[k].pc = "prune" /\ job[k].pc \in Active /\ Finish(k, TRUE, FALSE)
          /\ dst' = dst
      BY <2>8 DEF PruneSourceBackupAnchors, Active
    <3>2. job[k].at = Len(Parts) /\ ~job[k].hit
      BY <1>1, <1>2, <3>1, FinishIs DEF Course
    <3>3. \A i \in 1..Len(Parts) : Reaches(Dest(k), Parts[i], job[k].snap)
      BY <1>2, <3>1, <3>2 DEF Stored, Past
    <3> QED BY <3>1, <3>3, FinishIs DEF Stored, Reaches, Dest, Active
  <2>9. CASE RemotePruneRetention(k)
    <3>1. job[k].pc = "peer" /\ job[k].pc \in Active /\ Finish(k, TRUE, FALSE)
      BY <2>9 DEF RemotePruneRetention, Active
    <3>2. job[k].at = Len(Parts) /\ ~job[k].hit /\ Dest(k) \in Dests /\ job[k].snap \in Nat
      <4>1. job[k].at = Len(Parts)
        BY <1>2, <3>1 DEF Course
      <4>2. ~job[k].hit
        BY <1>1, <3>1, FinishIs
      <4>3. Dest(k) \in Dests /\ job[k].snap \in 1..Len(fam) /\ Len(fam) \in Nat
        BY <3>1, JobAt DEF BaseInv, Store
      <4> QED BY <4>1, <4>2, <4>3
    <3>3. ASSUME NEW i \in 1..Len(Parts)
          PROVE  \E x \in dst'[Dest(k)][Parts[i]] : x >= job[k].snap
      <4>1. Reaches(Dest(k), Parts[i], job[k].snap)
        BY <1>2, <3>1, <3>2 DEF Stored, Past
      <4>2. \/ dst' = dst
            \/ dst'[Dest(k)][Parts[i]] = PruneRetentionByCount(Dest(k), Parts[i])
        BY <1>2, <2>9, <3>2 DEF RemotePruneRetention, BaseInv, Store
      <4> QED BY <1>2, <3>2, <4>1, <4>2, RetainReaches DEF Reaches
    <3> QED BY <3>1, <3>3, FinishIs DEF Stored, Reaches, Dest, Active
  <2>10. CASE StepFails(k) \/ SyncoidRefuses(k) \/ SyncoidBreaks(k) \/ SyncoidKilled(k)
    <3>1. \E f \in BOOLEAN : Finish(k, FALSE, f)
      BY <2>10 DEF StepFails, SyncoidRefuses, SyncoidBreaks, SyncoidKilled
    <3> QED BY <3>1, FinishIs DEF Stored, Active
  <2> QED BY <1>3, <2>1, <2>2, <2>3, <2>4, <2>5, <2>6, <2>7, <2>8, <2>9, <2>10
             DEF BackupStep
<1>4. CASE Crash
  <2>1. job'[k] = Idle
    BY <1>4 DEF Crash
  <2> QED BY <2>1 DEF Stored, Idle, Active
<1>5. CASE Bystander
  <2>1. SomeHit
    BY <1>5, BystanderIs
  <2>2. Dest(k) \in Dests => ~job[k].hit /\ dst'[Dest(k)] = dst[Dest(k)]
        /\ (src' = src \/ AutoSnapshot)
    BY <1>1, <1>5, BystanderSpares
  <2>3. job[k].pc \in Active \/ job[k].status = "done" => Dest(k) \in Dests
    BY <1>2, JobAt DEF Course
  <2>4. ASSUME Dest(k) \in Dests, NEW y \in src, y >= job[k].snap
        PROVE  \E z \in src' : z >= job[k].snap
    <3>1. job[k].snap \in Nat
      BY BackupAssumption DEF BaseInv, JobsInv, JobType
    <3> QED BY <2>2, <2>4, <3>1, AutoKeeps
  <2>5. \A i \in 1..Len(Parts) : Past(k, i)' <=> Past(k, i)
    BY <2>1, HitIs DEF Past
  <2>6. {"reach", "prep", "send", "retain"} \subseteq Active
    BY DEF Active
  <2> QED BY <1>2, <2>1, <2>2, <2>3, <2>4, <2>5, <2>6, HitIs DEF Stored, Reaches, Dest
<1> QED BY <1>3, <1>4, <1>5 DEF Next, OneJob, Bystander

(* The invariants that all of the following need. *)
StartedInv == BaseInv /\ CourseInv /\ FreshInv

(* They hold initially ... *)
LEMMA StartedInit == ASSUME Init PROVE StartedInv
<1>1. \A j \in Jobs : job[j] = Idle
  BY DEF Init
<1>2. CourseInv
  BY <1>1 DEF CourseInv, Course, Idle
<1>3. FreshInv
  BY <1>1 DEF FreshInv, Fresh, Idle, Active
<1> QED BY <1>2, <1>3, BaseInit DEF StartedInv

(* ... and every step keeps them. *)
LEMMA StartedNext == ASSUME OneJob, StartedInv, [Next]_vars PROVE StartedInv'
<1>1. CASE Next
  BY <1>1, BaseNext, CourseNext, FreshNext DEF StartedInv
<1>2. CASE UNCHANGED vars
  <2>1. CourseInv'
    BY <1>2 DEF vars, StartedInv, CourseInv, Course, Dest
  <2>2. FreshInv'
    BY <1>2 DEF vars, StartedInv, FreshInv, Fresh, Past, Dest
  <2> QED BY <2>1, <2>2, BaseNext DEF StartedInv
<1> QED BY <1>1, <1>2

(* A backup that reports done, without interference by the user, has stored its snapshot *)
(* or a newer one of every part, after retention on both sides (runBackupJob,            *)
(* applyBackupRetention, PruneSourceBackupAnchors).                                      *)
THEOREM DoneMeansStored == ASSUME OneJob PROVE Spec => []DoneStored
<1> DEFINE I == StartedInv /\ StoredInv
<1>1. Init => I
  <2>1. SUFFICES ASSUME Init PROVE StoredInv
    BY StartedInit
  <2>2. \A j \in Jobs : job[j] = Idle
    BY <2>1 DEF Init
  <2> QED BY <2>2 DEF StoredInv, Stored, Idle, Active
<1>2. I /\ [Next]_vars => I'
  <2>1. SUFFICES ASSUME I, [Next]_vars PROVE StoredInv'
    BY StartedNext
  <2>2. CASE Next
    BY <2>1, <2>2, StoredNext DEF StartedInv
  <2>3. CASE UNCHANGED vars
    BY <2>1, <2>3 DEF vars, StoredInv, Stored, Reaches, Past, Dest
  <2> QED BY <2>1, <2>2, <2>3
<1>3. I => DoneStored
  <2>1. SUFFICES ASSUME StoredInv, NEW j \in Jobs, job[j].status = "done", ~job[j].hit,
                        NEW p \in PartSet
                 PROVE  \E x \in dst[Dest(j)][p] : x >= job[j].snap
    BY DEF DoneStored
  <2>2. PICK i \in 1..Len(Parts) : p = Parts[i]
    BY DEF PartSet
  <2> QED BY <2>1, <2>2 DEF StoredInv, Stored, Reaches
<1> QED BY <1>1, <1>2, <1>3, PTL DEF Spec

(***************************************************************************)
(* Self-heal.                                                              *)
(***************************************************************************)
(* Parts that are to be sent without another look at the chain: all of them remotely, the *)
(* current one locally.                                                                   *)
Due(j, i) == IF Dest(j) \in Remote THEN i >= job[j].at ELSE i = job[j].at

(* A dataset that is there can be sent to, unless an instance hangs off it. *)
Ready(d, p) == p \in has[d] => HasCommonSnapshot(d, p) \/ Pinned(d, p) # {}

(* What is to be sent is ready, and an error means that an instance hangs off the *)
(* destination.                                                                   *)
Healthy(j) ==
  ~job[j].hit =>
    /\ job[j].pc = "send" => \A i \in 1..Len(Parts) : Due(j, i) => Ready(Dest(j), Parts[i])
    /\ job[j].status = "error" => BackupDependents(Dest(j))

(* So for all jobs that nobody interfered with. *)
HealthyInv == \A j \in Jobs : Healthy(j)

(* The self-heal makes a dataset ready. *)
LEMMA WipeReadies ==
  ASSUME Store, NEW d \in Dests, NEW ps, Wipe(d, ps), src' = src, inst' = inst,
         NEW p \in PartSet,
           p \in Broken(d) => p \in ps
    PROVE  Ready(d, p)'
<1>1. has'[d] = has[d] \ ps /\ dst'[d][p] = IF p \in ps THEN {} ELSE dst[d][p]
  BY WipeIs
<1>2. CASE p \in ps
  BY <1>1, <1>2 DEF Ready
<1>3. CASE p \notin ps
  <2>1. p \in has[d] => HasCommonSnapshot(d, p) \/ Pinned(d, p) # {}
    BY <1>3 DEF Broken
  <2>2. dst'[d][p] = dst[d][p] /\ (p \in has'[d] => p \in has[d])
    BY <1>1, <1>3
  <2> QED BY <2>1, <2>2 DEF Ready, HasCommonSnapshot, Pinned, BackupDependents
<1> QED BY <1>2, <1>3

(* With one job, every step keeps HealthyInv. *)
LEMMA HealthyNext == ASSUME OneJob, BaseInv, CourseInv, HealthyInv, Next PROVE HealthyInv'
<1>1. SUFFICES ASSUME NEW k \in Jobs, ~job'[k].hit PROVE Healthy(k)'
  BY DEF HealthyInv, Healthy
<1>2. /\ Healthy(k) /\ Course(k) /\ Len(Parts) \in Nat
      /\ \A i \in 1..Len(Parts) : Parts[i] \in PartSet
  BY PartIn, BackupAssumption DEF HealthyInv, CourseInv
<1>3. CASE BackupStep(k) \/ Cancel(k) \/ \E d \in Dests : StartBackupJob(k, d)
  <2>1. ASSUME NEW d \in Dests, StartBackupJob(k, d) PROVE Healthy(k)'
    BY <2>1, StartIs DEF Healthy
  <2>2. CASE Cancel(k)
    BY <1>1, <2>2, CancelIs
  <2>3. CASE CreateSnapshot(k)
    BY <2>3, CreateIs DEF Healthy
  <2>4. CASE RemotePrepChain(k) \/ RemotePrepChainFails(k) \/ PrepLocalBackupChain(k)
    <3>1. ~RemotePrepChainFails(k) /\ ~job[k].hit
      BY <1>1, <2>4, PrepIs
    <3>2. job[k].pc \in {"reach", "prep"} /\ job[k].pc \in Active /\ src' = src
          /\ inst' = inst
      BY <2>4 DEF RemotePrepChain, RemotePrepChainFails, PrepLocalBackupChain, Active
    <3>3. Dest(k) \in Dests /\ job[k].at \in 1..Len(Parts) /\ Dest(k)' = Dest(k)
      BY <2>4, <3>2, JobAt, PrepIs DEF Dest
    <3>4. ASSUME NEW i \in 1..Len(Parts), Due(k, i)' PROVE Ready(Dest(k), Parts[i])'
      <4>1. CASE RemotePrepChain(k)
        <5>1. Wipe(Dest(k), Broken(Dest(k)))
          BY <4>1 DEF RemotePrepChain
        <5>2. \A d \in Dests : d = Dest(k) => Ready(d, Parts[i])'
          BY <1>2, <3>2, <5>1, WipeReadies DEF BaseInv
        <5> QED BY <3>3, <5>2
      <4>2. CASE PrepLocalBackupChain(k)
        <5>1. Wipe(Dest(k), Broken(Dest(k)) \cap {Part(k)}) /\ job[k].pc = "prep"
          BY <4>2 DEF PrepLocalBackupChain
        <5>2. Parts[i] = Part(k)
          BY <1>2, <2>4, <3>3, <3>4, <5>1, PrepIs DEF Due, Part, Course
        <5>3. \A d \in Dests : d = Dest(k) => Ready(d, Parts[i])'
          BY <1>2, <3>2, <5>1, <5>2, WipeReadies DEF BaseInv
        <5> QED BY <3>3, <5>3
      <4> QED BY <2>4, <3>1, <4>1, <4>2
    <3>5. job'[k].status # "error"
      BY <1>2, <2>4, <3>2, PrepIs DEF Course
    <3> QED BY <3>4, <3>5 DEF Healthy
  <2>5. CASE RunSyncoid(k)
    <3>1. job[k].pc = "send" /\ job[k].pc \in Active /\ Land(k, Stream(k)) /\ src' = src
          /\ inst' = inst
      BY <2>5 DEF RunSyncoid, Active
    <3>2. Dest(k) \in Dests /\ job[k].at \in 1..Len(Parts) /\ Part(k) \in PartSet
      BY <3>1, JobAt
    <3>3. ~job[k].hit /\ job'[k].status # "error" /\ Dest(k)' = Dest(k)
      BY <1>1, <1>2, <2>5, <3>1, SyncIs DEF Course, Dest
    <3>4. ASSUME job'[k].pc = "send", NEW i \in 1..Len(Parts), Due(k, i)'
          PROVE  Ready(Dest(k), Parts[i])'
      <4>1. Dest(k) \in Remote /\ job'[k].at = job[k].at + 1
        BY <2>5, <3>4, SyncIs
      <4>2. i > job[k].at
        BY <3>2, <3>3, <3>4, <4>1 DEF Due
      <4>3. Ready(Dest(k), Parts[i])
        BY <1>2, <3>1, <3>2, <3>3, <4>1, <4>2 DEF Healthy, Due
      <4>4. Parts[i] # Part(k)
        BY <3>2, <4>2, PartsApart DEF Part
      <4>5. has'[Dest(k)] = has[Dest(k)] \cup {Part(k)}
            /\ dst'[Dest(k)][Parts[i]] = dst[Dest(k)][Parts[i]]
        BY <1>2, <3>1, <4>4, LandIs
      <4> QED BY <3>1, <3>3, <4>3, <4>4, <4>5 DEF Ready, HasCommonSnapshot, Pinned,
              BackupDependents
    <3> QED BY <3>3, <3>4 DEF Healthy
  <2>6. CASE ApplyBackupRetention(k)
    <3>1. job[k].pc = "retain" /\ job'[k].pc # "send"
      <4>1. job[k].pc = "retain"
        BY <2>6 DEF ApplyBackupRetention
      <4>2. job'[k].pc # "send"
        BY <2>6, RetainIs
      <4> QED BY <4>1, <4>2
    <3>2. job'[k].status # "error"
      BY <1>2, <2>6, <3>1, RetainIs DEF Course
    <3> QED BY <3>1, <3>2 DEF Healthy
  <2>7. CASE PruneSourceBackupAnchors(k) /\ Dest(k) \in Remote
    <3>1. job[k].pc = "prune" /\ Goto(k, "peer")
      BY <2>7 DEF PruneSourceBackupAnchors
    <3>2. job'[k].pc # "send" /\ job'[k].status # "error"
      BY <1>2, <3>1, PeerIs DEF Course
    <3> QED BY <3>2 DEF Healthy
  <2>8. CASE (PruneSourceBackupAnchors(k)
             /\ Dest(k) \notin Remote) \/ RemotePruneRetention(k)
    <3>1. Finish(k, TRUE, FALSE)
      BY <2>8 DEF PruneSourceBackupAnchors, RemotePruneRetention
    <3>2. job'[k].pc # "send" /\ job'[k].status # "error"
      BY <3>1, FinishIs
    <3> QED BY <3>2 DEF Healthy
  <2>9. CASE StepFails(k) \/ SyncoidBreaks(k)
    <3>1. Finish(k, FALSE, TRUE)
      BY <2>9 DEF StepFails, SyncoidBreaks
    <3> QED BY <1>1, <3>1, FinishIs
  <2>10. CASE SyncoidKilled(k)
    <3>1. Finish(k, FALSE, FALSE) /\ job[k].cut
      BY <2>10 DEF SyncoidKilled
    <3> QED BY <1>1, <1>2, <3>1, FinishIs DEF Course
  <2>11. CASE SyncoidRefuses(k)
    <3>1. Finish(k, FALSE, FALSE) /\ job[k].pc = "send" /\ job[k].pc \in Active
          /\ Refused(k) /\ inst' = inst
      BY <2>11 DEF SyncoidRefuses, Active
    <3>2. ~job[k].hit /\ job'[k].pc # "send" /\ Dest(k)' = Dest(k)
      BY <1>1, <3>1, FinishIs DEF Dest
    <3>3. job[k].at \in 1..Len(Parts)
      BY <3>1, JobAt
    <3>4. Ready(Dest(k), Part(k))
      <4>1. Due(k, job[k].at)
        BY <3>3 DEF Due
      <4> QED BY <1>2, <3>1, <3>2, <3>3, <4>1 DEF Healthy, Part
    <3>5. Pinned(Dest(k), Part(k)) # {}
      BY <3>1, <3>4 DEF Ready, Refused
    <3>6. BackupDependents(Dest(k))
      BY <3>5 DEF Pinned
    <3>7. BackupDependents(Dest(k))'
      BY <3>1, <3>2, <3>6 DEF BackupDependents
    <3> QED BY <3>2, <3>7 DEF Healthy
  <2> QED BY <1>3, <2>1, <2>2, <2>3, <2>4, <2>5, <2>6, <2>7, <2>8, <2>9, <2>10, <2>11
             DEF BackupStep
<1>4. CASE Crash
  <2>1. job'[k] = Idle
    BY <1>4 DEF Crash
  <2> QED BY <2>1 DEF Healthy, Idle
<1>5. CASE Bystander
  <2>1. SomeHit /\ Dest(k)' = Dest(k)
    BY <1>5, BystanderIs, HitIs DEF Dest
  <2>2. CASE job[k].pc = "send" \/ job[k].status = "error"
    <3>1. Dest(k) \in Dests
      BY <1>2, <2>2 DEF Course, BaseInv, JobsInv
    <3>2. /\ ~job[k].hit
          /\ has'[Dest(k)] = has[Dest(k)] /\ dst'[Dest(k)] = dst[Dest(k)]
          /\ src' = src \/ (AutoSnapshot /\ ~Cuts(Dest(k)))
          /\ inst' = inst \/ (~(inst # None /\ inst.from = Dest(k))
             /\ ~(inst' # None /\ inst'.from = Dest(k)))
      BY <1>1, <1>5, <3>1, BystanderSpares
    <3>3. BackupDependents(Dest(k)) => BackupDependents(Dest(k))'
      BY <2>1, <3>2 DEF BackupDependents
    <3>4. ASSUME NEW p \in PartSet, Ready(Dest(k), p) PROVE Ready(Dest(k), p)'
      <4>1. p \in has'[Dest(k)] => HasCommonSnapshot(Dest(k), p) \/ Pinned(Dest(k), p) # {}
        BY <3>2, <3>4 DEF Ready
      <4>2. Pinned(Dest(k), p) # {} => Pinned(Dest(k), p)' # {}
        BY <2>1, <3>2 DEF Pinned, BackupDependents
      <4>3. p \in has[Dest(k)] /\ HasCommonSnapshot(Dest(k), p)
            => src' \cap dst'[Dest(k)][p] # {}
        BY <3>1, <3>2 DEF HasCommonSnapshot, Cuts
      <4> QED BY <2>1, <3>2, <4>1, <4>2, <4>3 DEF Ready, HasCommonSnapshot
    <3>5. \A i \in 1..Len(Parts) : Due(k, i)' <=> Due(k, i)
      BY <2>1, HitIs DEF Due
    <3> QED BY <1>2, <2>1, <3>2, <3>3, <3>4, <3>5, HitIs DEF Healthy
  <2>3. CASE ~(job[k].pc = "send" \/ job[k].status = "error")
    BY <2>1, <2>3, HitIs DEF Healthy
  <2> QED BY <2>2, <2>3
<1> QED BY <1>3, <1>4, <1>5 DEF Next, OneJob, Bystander

(* A backup that meets no fault and no user fails only when a restored instance hangs off *)
(* its destination: every other broken chain is healed before the transfer, on the peer   *)
(* as locally (PrepLocalBackupChain, HandleInterlinkPrepChain).                           *)
THEOREM HealthyRunsSucceed == ASSUME OneJob PROVE Spec => []HealthySucceeds
<1> DEFINE I == StartedInv /\ HealthyInv
<1>1. Init => I
  <2>1. SUFFICES ASSUME Init PROVE HealthyInv
    BY StartedInit
  <2>2. \A j \in Jobs : job[j] = Idle
    BY <2>1 DEF Init
  <2> QED BY <2>2 DEF HealthyInv, Healthy, Idle
<1>2. I /\ [Next]_vars => I'
  <2>1. SUFFICES ASSUME I, [Next]_vars PROVE HealthyInv'
    BY StartedNext
  <2>2. CASE Next
    BY <2>1, <2>2, HealthyNext DEF StartedInv
  <2>3. CASE UNCHANGED vars
    BY <2>1, <2>3 DEF vars, HealthyInv, Healthy, Due, Ready, HasCommonSnapshot, Pinned,
       BackupDependents, Dest
  <2> QED BY <2>1, <2>2, <2>3
<1>3. I => HealthySucceeds
  BY DEF HealthyInv, Healthy, HealthySucceeds
<1> QED BY <1>1, <1>2, <1>3, PTL DEF Spec

(***************************************************************************)
(* The chain.                                                              *)
(***************************************************************************)
(* No prefix covers another one, and no two destinations share theirs. *)
Apart ==
  /\ \A l, m \in Label : m \in Covers[l] => l = m
  /\ \A d, e \in Dests : LabelOf[d] = LabelOf[e] => d = e

(* A snapshot schedule keeps fewer snapshots than the backup retention. *)
Room == "auto" \in UserOps => AutoKeep < Keep

(* Scheduled snapshots on the instance ... *)
Autos == {x \in src : fam[x] = AutoLabel}

(* ... are fewer than retention keeps. *)
FewAutos == Cardinality(Autos) < Keep

(* The snapshot of a job has the prefix of its destination, and only scheduled ones are *)
(* newer.                                                                               *)
Marked(j) ==
  job[j].pc \in Active =>
    /\ fam[job[j].snap] = LabelOf[Dest(j)]
    /\ \A x \in 1..Len(fam) : x > job[j].snap => fam[x] = AutoLabel

(* A job whose destination is to be sound when it ends. *)
Owed(j) == Dest(j) \in sound \/ ~job[j].hit

(* Its snapshot is on the instance and, of every part that was sent, among those that *)
(* retention keeps.                                                                   *)
Held(j) ==
  job[j].pc \in Active /\ Owed(j) =>
    /\ job[j].snap \in src
    /\ \A i \in 1..Len(Parts) : Past(j, i) =>
         Parts[i] \in has[Dest(j)] /\ job[j].snap \in NewestN(dst[Dest(j)][Parts[i]], Keep)

(* Part p at d shares a snapshot of the prefix of d with the instance. *)
Anchored(d, p) == p \in has[d] /\ \E x \in src \cap dst[d][p] : fam[x] = LabelOf[d]

(* So for all jobs ... *)
MarkedInv == \A j \in Jobs : Marked(j)

(* ... both, ... *)
HeldInv == \A j \in Jobs : Held(j)

(* ... and a sound destination shares one of every part. *)
AnchorInv == \A d \in sound : \A p \in PartSet : Anchored(d, p)

(* The inductive invariant of ChainIsKept. *)
ChainInv == FewAutos /\ MarkedInv /\ HeldInv /\ AnchorInv

(* A scheduled snapshot is not one of a backup. *)
LEMMA LabelsApart ==
  ASSUME NEW d \in Dests
  PROVE  LabelOf[d] # AutoLabel /\ LabelOf[d] \in Label /\ AutoLabel \in Label
  BY BackupAssumption DEF Label

(* Labels of snapshots are labels. *)
LEMMA FamIn == ASSUME BaseInv, NEW x \in 1..Len(fam) PROVE fam[x] \in Label
  BY DEF BaseInv, Store

(* A part of a small set is small. *)
LEMMA SmallerSet ==
  ASSUME NEW n \in Nat, NEW S \in SUBSET (1..n), NEW T \in SUBSET S, NEW k \in Nat,
         Cardinality(S) < k
    PROVE  Cardinality(T) < k
<1>1. IsFiniteSet(S) /\ Cardinality(S) \in Nat
  BY FiniteSnaps
<1>2. Cardinality(T) <= Cardinality(S)
  BY <1>1, FS_Subset
<1>3. T \in SUBSET (1..n)
  OBVIOUS
<1>4. Cardinality(T) \in Nat
  BY <1>3, FiniteSnaps
<1> QED BY <1>1, <1>2, <1>4

(* Scheduled snapshots are snapshots. *)
LEMMA AutosIn ==
  ASSUME BaseInv
  PROVE  Autos \in SUBSET (1..Len(fam)) /\ Len(fam) \in Nat /\ Keep \in Nat \ {0}
  BY BackupAssumption DEF BaseInv, Store, Autos

(* What the schedule removes, when its prefix covers no other. *)
LEMMA AutoIs == ASSUME Apart, BaseInv, AutoSnapshot
    PROVE  \E A \in SUBSET (1..(Len(fam) + 1)) :
              /\ src' = ((src \cup {Len(fam) + 1}) \ A) \cup NewestN(A, AutoKeep)
              /\ \A x \in src \cup {Len(fam) + 1} : x \in A <=> fam'[x] = AutoLabel
<1> DEFINE all == src \cup {Len(fam) + 1}
           autos == {x \in all : fam'[x] \in Covers[AutoLabel]}
<1>1. src' = (all \ autos) \cup NewestN(autos, AutoKeep)
  BY DEF AutoSnapshot
<1>2. src \subseteq 1..Len(fam) /\ Len(fam) \in Nat /\ fam \in Seq(Label)
  BY DEF BaseInv, Store
<1>3. 1..Len(fam) \subseteq 1..(Len(fam) + 1) /\ Len(fam) + 1 \in 1..(Len(fam) + 1)
  BY <1>2
<1>4. all \in SUBSET (1..(Len(fam) + 1))
  BY <1>2, <1>3
<1>5. fam' = Append(fam, AutoLabel) /\ AutoLabel \in Label
  BY DEF AutoSnapshot, Label
<1>6. \A x \in all : fam'[x] \in Label
  BY <1>2, <1>5, AppendIs, FamIn
<1>7. \A x \in all : x \in autos <=> fam'[x] = AutoLabel
  BY <1>5, <1>6, BackupAssumption DEF Apart
<1>8. autos \in SUBSET (1..(Len(fam) + 1))
  BY <1>4
<1> HIDE DEF autos
<1> QED BY <1>1, <1>7, <1>8

(* With Apart and Room, every step keeps FewAutos. *)
LEMMA AutosNext == ASSUME Apart, Room, BaseInv, FewAutos, Next PROVE FewAutos'
<1>1. Autos \in SUBSET (1..Len(fam)) /\ Len(fam) \in Nat /\ Keep \in Nat
  BY AutosIn
<1>2. ASSUME Autos' \in SUBSET Autos PROVE FewAutos'
  <2>1. Cardinality(Autos') < Keep
    BY <1>1, <1>2, SmallerSet DEF FewAutos
  <2> QED BY <2>1 DEF FewAutos
<1>3. fam \in Seq(Label) /\ src \in SUBSET (1..Len(fam))
  BY DEF BaseInv, Store
<1>4. CASE fam' = fam /\ src' \subseteq src
  <2>1. Autos' \in SUBSET Autos
    BY <1>4 DEF Autos
  <2> QED BY <1>2, <2>1
<1>5. ASSUME NEW j \in Jobs, CreateSnapshot(j) PROVE FewAutos'
  <2>1. Dest(j) \in Dests
    BY <1>5 DEF CreateSnapshot, BaseInv, JobsInv
  <2>2. fam' = Append(fam, LabelOf[Dest(j)]) /\ src' = src \cup {Len(fam) + 1}
    BY <1>5 DEF CreateSnapshot
  <2>3. /\ \A x \in 1..Len(fam) : fam'[x] = fam[x]
        /\ fam'[Len(fam) + 1] # AutoLabel
    BY <1>3, <2>1, <2>2, AppendIs, LabelsApart
  <2>4. \A x \in src' : fam'[x] = AutoLabel => x \in src /\ fam[x] = AutoLabel
    BY <1>3, <2>2, <2>3
  <2>5. Autos' \in SUBSET Autos
    BY <2>4 DEF Autos
  <2> QED BY <1>2, <2>5
<1>6. CASE AutoSnapshot
  <2>1. PICK A \in SUBSET (1..(Len(fam) + 1)) :
              /\ src' = ((src \cup {Len(fam) + 1}) \ A) \cup NewestN(A, AutoKeep)
              /\ \A x \in src \cup {Len(fam) + 1} : x \in A <=> fam'[x] = AutoLabel
    BY <1>6, AutoIs
  <2>2. Len(fam) + 1 \in Nat /\ AutoKeep \in Nat
    BY <1>1, BackupAssumption
  <2>3. Cardinality(NewestN(A, AutoKeep)) <= AutoKeep
    BY <2>2, NewestFew
  <2>4. AutoKeep < Keep
    BY <1>6 DEF AutoSnapshot, Room
  <2>5. NewestN(A, AutoKeep) \in SUBSET (1..(Len(fam) + 1))
    BY DEF NewestN
  <2>6. Cardinality(NewestN(A, AutoKeep)) \in Nat
    BY <2>2, <2>5, FiniteSnaps
  <2>7. Cardinality(NewestN(A, AutoKeep)) < Keep
    BY <1>1, <2>2, <2>3, <2>4, <2>6
  <2>8. \A x \in src' : fam'[x] = AutoLabel => x \in NewestN(A, AutoKeep)
    BY <2>1
  <2>9. Autos' \in SUBSET NewestN(A, AutoKeep)
    BY <2>8 DEF Autos
  <2>10. Cardinality(Autos') < Keep
    BY <1>1, <2>2, <2>5, <2>7, <2>9, SmallerSet
  <2> QED BY <2>10 DEF FewAutos
<1> QED BY <1>4, <1>5, <1>6, SnapsOnly

(* What no step changes while a job is active. *)
LEMMA StaysActive ==
  ASSUME OneJob, BaseInv, Next, NEW k \in Jobs, job'[k].pc \in Active, ~CreateSnapshot(k)
    PROVE  /\ job[k].pc \in Active
           /\ job'[k].dest = job[k].dest /\ job'[k].snap = job[k].snap
           /\ job[k].hit => job'[k].hit
           /\ sound' \subseteq sound
           /\ (fam' = fam /\ src' \subseteq src) \/ AutoSnapshot
<1>1. CASE Cancel(k) \/ \E d \in Dests : StartBackupJob(k, d)
  <2>1. ASSUME NEW d \in Dests, StartBackupJob(k, d) PROVE FALSE
    BY <2>1, StartIs DEF Active
  <2>2. Cancel(k)
    BY <1>1, <2>1
  <2>3. fam' = fam /\ src' = src /\ sound' = sound
    BY <2>2 DEF Cancel
  <2> QED BY <2>2, <2>3, CancelIs
<1>2. CASE BackupStep(k)
  <2>1. ASSUME NEW ok \in BOOLEAN, NEW f \in BOOLEAN, Finish(k, ok, f) PROVE FALSE
    BY <2>1, FinishIs DEF Active
  <2>2. CASE RemotePrepChain(k) \/ RemotePrepChainFails(k) \/ PrepLocalBackupChain(k)
    <3>1. job[k].pc \in Active /\ fam' = fam /\ src' = src /\ sound' = sound
      BY <2>2 DEF RemotePrepChain, RemotePrepChainFails, PrepLocalBackupChain, Active
    <3> QED BY <2>2, <3>1, PrepIs
  <2>3. CASE RunSyncoid(k)
    <3>1. job[k].pc \in Active /\ fam' = fam /\ src' = src /\ sound' = sound
      BY <2>3 DEF RunSyncoid, Active
    <3> QED BY <2>3, <3>1, SyncIs
  <2>4. CASE ApplyBackupRetention(k)
    <3>1. job[k].pc \in Active /\ fam' = fam /\ src' = src /\ sound' = sound
      BY <2>4 DEF ApplyBackupRetention, Active
    <3> QED BY <2>4, <3>1, RetainIs
  <2>5. CASE PruneSourceBackupAnchors(k)
    <3>1. Dest(k) \in Remote
      BY <2>1, <2>5 DEF PruneSourceBackupAnchors
    <3>2. Goto(k, "peer") /\ sound' = sound /\ fam' = fam /\ job[k].pc \in Active
      BY <2>5, <3>1 DEF PruneSourceBackupAnchors, Active
    <3>3. src' \subseteq src
      BY <2>5 DEF PruneSourceBackupAnchors, PrunedAnchors, NewestN, Family
    <3> QED BY <3>2, <3>3, PeerIs
  <2>6. CASE StepFails(k) \/ SyncoidRefuses(k) \/ SyncoidBreaks(k) \/ SyncoidKilled(k)
             \/ RemotePruneRetention(k)
    BY <2>1, <2>6 DEF StepFails, SyncoidRefuses, SyncoidBreaks, SyncoidKilled,
       RemotePruneRetention
  <2> QED BY <1>2, <2>2, <2>3, <2>4, <2>5, <2>6 DEF BackupStep
<1>3. CASE Crash
  <2>1. job'[k] = Idle
    BY <1>3 DEF Crash
  <2> QED BY <2>1 DEF Idle, Active
<1>4. CASE Bystander
  <2>1. SomeHit /\ (job[k].hit => job'[k].hit) /\ sound' \subseteq sound
    BY <1>4, BystanderIs
  <2>2. (fam' = fam /\ src' \subseteq src) \/ AutoSnapshot
    BY <1>4 DEF Bystander, DeleteSnapshot, DropInstance, DeletePoint, DeleteBackup,
       InstantCloneRestore
  <2>3. /\ job[k].pc \in Active
        /\ job'[k].dest = job[k].dest /\ job'[k].snap = job[k].snap
    BY <2>1, HitIs
  <2> QED BY <2>1, <2>2, <2>3
<1> QED BY <1>1, <1>2, <1>3, <1>4 DEF Next, OneJob, Bystander

(* With one job, every step keeps MarkedInv. *)
LEMMA MarkedNext == ASSUME OneJob, BaseInv, MarkedInv, Next PROVE MarkedInv'
<1>1. SUFFICES ASSUME NEW k \in Jobs, job'[k].pc \in Active
               PROVE  /\ fam'[job'[k].snap] = LabelOf[job'[k].dest]
                      /\ \A x \in 1..Len(fam') : x > job'[k].snap => fam'[x] = AutoLabel
  BY DEF MarkedInv, Marked, Dest
<1>2. fam \in Seq(Label) /\ Len(fam) \in Nat
  BY DEF BaseInv, Store
<1>3. CASE CreateSnapshot(k)
  <2>1. fam' = Append(fam, LabelOf[Dest(k)])
    BY <1>3 DEF CreateSnapshot
  <2>2. Len(fam') = Len(fam) + 1 /\ fam'[Len(fam) + 1] = LabelOf[Dest(k)]
    BY <1>2, <2>1, AppendIs
  <2>3. job'[k].snap = Len(fam) + 1 /\ job'[k].dest = Dest(k)
    BY <1>3, CreateIs DEF Dest
  <2> QED BY <1>2, <2>2, <2>3
<1>4. CASE ~CreateSnapshot(k)
  <2>1. /\ job[k].pc \in Active /\ job'[k].dest = Dest(k) /\ job'[k].snap = job[k].snap
        /\ fam' = fam \/ AutoSnapshot
    BY <1>1, <1>4, StaysActive DEF Dest
  <2>2. /\ fam[job[k].snap] = LabelOf[Dest(k)] /\ job[k].snap \in 1..Len(fam)
        /\ \A x \in 1..Len(fam) : x > job[k].snap => fam[x] = AutoLabel
    BY <2>1, JobAt DEF MarkedInv, Marked
  <2>3. CASE fam' = fam
    BY <2>1, <2>2, <2>3
  <2>4. CASE AutoSnapshot
    <3>1. fam' = Append(fam, AutoLabel)
      BY <2>4 DEF AutoSnapshot
    <3>2. /\ Len(fam') = Len(fam) + 1 /\ fam'[Len(fam) + 1] = AutoLabel
          /\ \A x \in 1..Len(fam) : fam'[x] = fam[x]
      BY <1>2, <3>1, AppendIs
    <3>3. \A x \in 1..Len(fam') : x \in 1..Len(fam) \/ x = Len(fam) + 1
      BY <1>2, <3>2
    <3> QED BY <2>1, <2>2, <3>2, <3>3
  <2> QED BY <2>1, <2>3, <2>4
<1> QED BY <1>3, <1>4

(* The schedule removes no snapshot of a backup. *)
LEMMA AutoSpares == ASSUME Apart, BaseInv, AutoSnapshot, NEW x \in src, fam[x] # AutoLabel
    PROVE  x \in src' /\ fam'[x] = fam[x]
<1>1. PICK A : /\ src' = ((src \cup {Len(fam) + 1}) \ A) \cup NewestN(A, AutoKeep)
               /\ \A y \in src \cup {Len(fam) + 1} : y \in A <=> fam'[y] = AutoLabel
  BY AutoIs
<1>2. fam \in Seq(Label) /\ x \in 1..Len(fam) /\ fam' = Append(fam, AutoLabel)
  BY DEF BaseInv, Store, AutoSnapshot
<1>3. fam'[x] = fam[x]
  BY <1>2, AppendIs
<1> QED BY <1>1, <1>3

(* Pruning the anchors of one destination spares those of another ... *)
LEMMA PruneSpares ==
  ASSUME Apart, BaseInv, NEW j \in Jobs, job[j].pc \in Active, NEW d \in Dests, d # Dest(j),
           NEW x \in src, fam[x] = LabelOf[d]
    PROVE  x \in PrunedAnchors(LabelOf[Dest(j)])
<1>1. Dest(j) \in Dests
  BY JobAt
<1>2. LabelOf[d] \in Label /\ LabelOf[Dest(j)] \in Label
  BY <1>1, LabelsApart
<1>3. LabelOf[d] \notin Covers[LabelOf[Dest(j)]]
  BY <1>1, <1>2 DEF Apart
<1> QED BY <1>3 DEF PrunedAnchors, Family

(* ... and the snapshot of the job. *)
LEMMA PruneKeepsOwn ==
  ASSUME Apart, BaseInv, NEW j \in Jobs, job[j].pc \in Active, Marked(j),
         job[j].snap \in src
    PROVE  job[j].snap \in PrunedAnchors(LabelOf[Dest(j)])
<1> DEFINE l == LabelOf[Dest(j)]
           s == job[j].snap
<1>1. Dest(j) \in Dests /\ s \in Nat
  BY JobAt DEF BaseInv, Store
<1>2. l \in Label /\ l # AutoLabel /\ AutoLabel \in Label /\ l \in Covers[l]
  BY <1>1, LabelsApart, BackupAssumption
<1>3. fam[s] = l /\ \A x \in 1..Len(fam) : x > s => fam[x] = AutoLabel
  BY DEF Marked
<1>4. AutoLabel \notin Covers[l]
  BY <1>2 DEF Apart
<1>5. Family(l, src) \subseteq 1..Len(fam)
  BY DEF Family, BaseInv, Store
<1>6. \A y \in Family(l, src) : ~(y > s)
  BY <1>3, <1>4, <1>5 DEF Family
<1>7. {y \in Family(l, src) : y > s} = {}
  BY <1>6
<1>8. Cardinality({y \in Family(l, src) : y > s}) < 1
  BY <1>7, FS_EmptySet
<1>9. s \in Family(l, src)
  BY <1>2, <1>3 DEF Family
<1> HIDE DEF l, s
<1>10. s \in NewestN(Family(l, src), 1)
  BY <1>8, <1>9 DEF NewestN
<1>11. s \in PrunedAnchors(l)
  BY <1>10 DEF PrunedAnchors
<1> QED BY <1>11 DEF l, s

(* After the transfer the snapshot of the job is among those that retention keeps. *)
LEMMA LandHolds ==
  ASSUME BaseInv, FreshInv, FewAutos, NEW j \in Jobs, Marked(j), job[j].pc = "send",
         ~Refused(j),
           Land(j, Stream(j)), job[j].snap \in src
    PROVE  job[j].snap \in NewestN(dst'[Dest(j)][Part(j)], Keep)
<1> DEFINE s == job[j].snap
           D == dst'[Dest(j)][Part(j)]
           U == {y \in D : y > s}
<1>1. job[j].pc \in Active
  BY DEF Active
<1>2. Dest(j) \in Dests /\ Part(j) \in PartSet /\ job[j].at \in 1..Len(Parts) /\ s \in Nat
  BY <1>1, JobAt DEF BaseInv, Store
<1>3. s \in D
  BY <1>2, LandReaches
<1>4. \A x \in dst[Dest(j)][Part(j)] : x < s /\ x \in Nat
  <2>1. ~Past(j, job[j].at)
    BY <1>2 DEF Past
  <2> QED BY <1>1, <1>2, <2>1 DEF FreshInv, Fresh, Part, BaseInv, Store
<1>5. D \subseteq dst[Dest(j)][Part(j)] \cup src
  <2>1. D = IF Stream(j) = {} THEN dst[Dest(j)][Part(j)] ELSE Base(j) \cup Stream(j)
    BY <1>1, LandIs
  <2>2. Base(j) \subseteq dst[Dest(j)][Part(j)] /\ Stream(j) \subseteq src
    BY DEF Base, Stream
  <2> HIDE DEF D
  <2> QED BY <2>1, <2>2
<1>6. \A x \in 1..Len(fam) : x > s => fam[x] = AutoLabel
  BY <1>1 DEF Marked
<1>7. src \subseteq 1..Len(fam)
  BY DEF BaseInv, Store
<1> HIDE DEF D, s
<1>8. ASSUME NEW y \in U PROVE y \in src /\ fam[y] = AutoLabel
  <2>1. y \in D /\ y > s
    OBVIOUS
  <2>2. y \notin dst[Dest(j)][Part(j)]
    BY <1>2, <1>4, <2>1 DEF s
  <2>3. y \in src
    BY <1>5, <2>1, <2>2
  <2> QED BY <1>6, <1>7, <2>1, <2>3
<1>9. U \in SUBSET Autos
  BY <1>8 DEF Autos
<1> HIDE DEF U
<1>10. Cardinality(U) < Keep
  BY <1>9, AutosIn, SmallerSet DEF FewAutos
<1>11. s \in NewestN(D, Keep)
  BY <1>3, <1>10 DEF NewestN, U
<1> QED BY <1>11 DEF D, s

(* Retention keeps it, and keeps it so. *)
LEMMA RetainHolds ==
  ASSUME BaseInv, NEW d \in Dests, NEW p \in PartSet, NEW x \in NewestN(dst[d][p], Keep)
    PROVE  x \in NewestN(PruneRetentionByCount(d, p), Keep)
<1>1. dst[d][p] \in SUBSET (1..Len(fam)) /\ Len(fam) \in Nat /\ Keep \in Nat
  BY BackupAssumption DEF BaseInv, Store
<1>2. PruneRetentionByCount(d, p) \in SUBSET dst[d][p] /\ x \in PruneRetentionByCount(d, p)
  BY PruneIs
<1> QED BY <1>1, <1>2, NewestStays

(* A destination that stays sound was not touched by the user. *)
LEMMA SoundSpared == ASSUME BaseInv, Bystander, NEW d \in sound'
    PROVE  /\ d \in sound /\ has'[d] = has[d] /\ dst'[d] = dst[d]
           /\ src' = src \/ AutoSnapshot
<1>1. sound \subseteq Dests /\ has \in [Dests -> SUBSET PartSet]
      /\ dst \in [Dests -> [PartSet -> SUBSET Nat]]
  BY DEF BaseInv, CountInv, Store
<1>2. CASE AutoSnapshot \/ DropInstance \/ \E e \in Dests : InstantCloneRestore(e)
  BY <1>2 DEF AutoSnapshot, DropInstance, InstantCloneRestore
<1>3. CASE DeleteSnapshot
  <2>1. sound' = sound \ Dests
    BY <1>3 DEF DeleteSnapshot, Interfere
  <2> QED BY <1>1, <2>1
<1>4. ASSUME NEW e \in Dests, DeletePoint(e) \/ DeleteBackup(e)
      PROVE  d \in sound /\ d # e /\ src' = src
  BY <1>4 DEF DeletePoint, DeleteBackup, Interfere
<1>5. ASSUME NEW e \in Dests, DeletePoint(e) \/ DeleteBackup(e), d # e
      PROVE  has'[d] = has[d] /\ dst'[d] = dst[d]
  <2>1. CASE DeletePoint(e)
    BY <1>1, <1>5, <2>1 DEF DeletePoint
  <2>2. CASE DeleteBackup(e)
    BY <1>1, <1>5, <2>2 DEF DeleteBackup, Wipe
  <2> QED BY <1>5, <2>1, <2>2
<1> QED BY <1>2, <1>3, <1>4, <1>5 DEF Bystander

(* Every step keeps HeldInv. *)
LEMMA HeldNext ==
  ASSUME OneJob, Apart, BaseInv, CourseInv, FreshInv, ChainInv, Next
  PROVE  HeldInv'
<1>1. SUFFICES ASSUME NEW k \in Jobs, job'[k].pc \in Active, Owed(k)'
               PROVE  /\ job'[k].snap \in src'
                      /\ \A i \in 1..Len(Parts) : Past(k, i)' =>
                           /\ Parts[i] \in has'[job'[k].dest]
                           /\ job'[k].snap \in NewestN(dst'[job'[k].dest][Parts[i]], Keep)
  BY DEF HeldInv, Held, Dest
<1>2. /\ Held(k) /\ Course(k) /\ Marked(k) /\ FewAutos /\ Len(Parts) \in Nat
      /\ \A i \in 1..Len(Parts) : Parts[i] \in PartSet
  BY PartIn, BackupAssumption DEF ChainInv, HeldInv, MarkedInv, CourseInv
<1>3. CASE CreateSnapshot(k)
  <2>1. job'[k].snap \in src' /\ job'[k].at = 1
        /\ job'[k].pc \notin {"retain", "prune", "peer"}
    <3>1. src' = src \cup {Len(fam) + 1}
      BY <1>3 DEF CreateSnapshot
    <3> QED BY <1>3, <3>1, CreateIs
  <2>2. \A i \in 1..Len(Parts) : ~Past(k, i)'
    BY <1>2, <2>1 DEF Past
  <2> QED BY <2>1, <2>2
<1>4. CASE ~CreateSnapshot(k)
  <2>1. /\ job[k].pc \in Active /\ job'[k].dest = Dest(k) /\ job'[k].snap = job[k].snap
        /\ sound' \subseteq sound /\ (job[k].hit => job'[k].hit)
    BY <1>1, <1>4, StaysActive DEF Dest
  <2>2. Owed(k)
    BY <1>1, <2>1 DEF Owed, Dest
  <2>3. job[k].snap \in src
    BY <1>2, <2>1, <2>2 DEF Held
  <2>4. \A i \in 1..Len(Parts) : Past(k, i) =>
          Parts[i] \in has[Dest(k)] /\ job[k].snap \in NewestN(dst[Dest(k)][Parts[i]], Keep)
    BY <1>2, <2>1, <2>2 DEF Held
  <2>5. Dest(k) \in Dests /\ job[k].at \in 1..Len(Parts) /\ Part(k) \in PartSet
    BY <2>1, JobAt
  <2>6. SUFFICES /\ job[k].snap \in src'
                 /\ \A i \in 1..Len(Parts) : Past(k, i)' =>
                      /\ Parts[i] \in has'[Dest(k)]
                      /\ job[k].snap \in NewestN(dst'[Dest(k)][Parts[i]], Keep)
    BY <2>1
  <2>7. CASE Cancel(k)
    <3>1. src' = src /\ has' = has /\ dst' = dst
      BY <2>7 DEF Cancel
    <3>2. \A i \in 1..Len(Parts) : Past(k, i)' => Past(k, i)
      BY <2>7, CancelIs DEF Past
    <3> QED BY <2>3, <2>4, <3>1, <3>2
  <2>8. CASE RemotePrepChain(k) \/ RemotePrepChainFails(k) \/ PrepLocalBackupChain(k)
    <3>1. job[k].pc \in {"reach", "prep"} /\ src' = src
      BY <2>8 DEF RemotePrepChain, RemotePrepChainFails, PrepLocalBackupChain
    <3>2. \A i \in 1..Len(Parts) : Past(k, i)' => i < job[k].at /\ Past(k, i)
      BY <2>8, PrepIs DEF Past
    <3>3. ASSUME NEW i \in 1..Len(Parts), i < job[k].at
          PROVE  dst'[Dest(k)][Parts[i]] = dst[Dest(k)][Parts[i]]
                 /\ (Parts[i] \in has[Dest(k)] => Parts[i] \in has'[Dest(k)])
      <4>1. PrepLocalBackupChain(k)
        <5>1. job[k].pc # "reach"
          BY <1>2, <3>3 DEF Course
        <5> QED BY <2>8, <5>1 DEF RemotePrepChain, RemotePrepChainFails
      <4>2. Wipe(Dest(k), Broken(Dest(k)) \cap {Part(k)})
        BY <4>1 DEF PrepLocalBackupChain
      <4>3. Parts[i] # Part(k)
        BY <2>5, <3>3, PartsApart DEF Part
      <4> QED BY <1>2, <2>5, <4>2, <4>3, WipeIs DEF BaseInv
    <3> QED BY <2>3, <2>4, <3>1, <3>2, <3>3
  <2>9. CASE RunSyncoid(k)
    <3>1. job[k].pc = "send" /\ ~Refused(k) /\ Land(k, Stream(k)) /\ src' = src
      BY <2>9 DEF RunSyncoid
    <3>2. job[k].snap \in NewestN(dst'[Dest(k)][Part(k)], Keep)
      BY <1>2, <2>3, <3>1, LandHolds
    <3>3. has'[Dest(k)] = has[Dest(k)] \cup {Part(k)}
      BY <2>1, <3>1, LandIs
    <3>4. ASSUME NEW i \in 1..Len(Parts), i < job[k].at
          PROVE  dst'[Dest(k)][Parts[i]] = dst[Dest(k)][Parts[i]] /\ Past(k, i)
      <4>1. Parts[i] # Part(k)
        BY <2>5, <3>4, PartsApart DEF Part
      <4>2. dst'[Dest(k)][Parts[i]] = dst[Dest(k)][Parts[i]]
        BY <1>2, <2>1, <3>1, <4>1, LandIs
      <4> QED BY <3>4, <4>2 DEF Past
    <3>5. \A i \in 1..Len(Parts) : Past(k, i)' => i < job[k].at \/ i = job[k].at
      BY <2>5, <2>9, SyncIs DEF Past
    <3>6. ASSUME NEW i \in 1..Len(Parts), i < job[k].at
          PROVE  Parts[i] \in has'[Dest(k)]
                 /\ job[k].snap \in NewestN(dst'[Dest(k)][Parts[i]], Keep)
      BY <2>4, <3>3, <3>4, <3>6
    <3>7. Part(k) = Parts[job[k].at]
      BY DEF Part
    <3> QED BY <2>3, <3>1, <3>2, <3>3, <3>5, <3>6, <3>7
  <2>10. CASE ApplyBackupRetention(k)
    <3>1. job[k].pc = "retain" /\ src' = src /\ has' = has
      BY <2>10 DEF ApplyBackupRetention
    <3>2. \A i \in 1..Len(Parts) : Past(k, i)' => Past(k, i)
      BY <2>5, <2>10, <3>1, RetainIs DEF Past
    <3>3. \A p \in PartSet : dst'[Dest(k)][p] =
            IF p = Part(k) THEN PruneRetentionByCount(Dest(k), p) ELSE dst[Dest(k)][p]
      BY <2>5, <2>10 DEF ApplyBackupRetention, BaseInv, Store
    <3>4. ASSUME NEW i \in 1..Len(Parts), Past(k, i)
          PROVE  job[k].snap \in NewestN(dst'[Dest(k)][Parts[i]], Keep)
      <4>1. job[k].snap \in NewestN(dst[Dest(k)][Parts[i]], Keep) /\ Parts[i] \in PartSet
        BY <1>2, <2>4, <3>4
      <4>2. job[k].snap \in NewestN(PruneRetentionByCount(Dest(k), Parts[i]), Keep)
        BY <2>5, <4>1, RetainHolds
      <4> QED BY <3>3, <4>1, <4>2
    <3> QED BY <2>3, <2>4, <3>1, <3>2, <3>4
  <2>11. CASE PruneSourceBackupAnchors(k)
    <3>1. src' = PrunedAnchors(LabelOf[Dest(k)]) /\ has' = has /\ dst' = dst
          /\ job[k].pc = "prune"
      BY <2>11 DEF PruneSourceBackupAnchors
    <3>2. job[k].snap \in src'
      BY <1>2, <2>1, <2>3, <3>1, PruneKeepsOwn
    <3>3. \A i \in 1..Len(Parts) : Past(k, i)
      BY <1>2, <3>1 DEF Past, Course
    <3> QED BY <2>4, <3>1, <3>2, <3>3
  <2>12. CASE StepFails(k) \/ SyncoidRefuses(k) \/ SyncoidBreaks(k) \/ SyncoidKilled(k)
              \/ RemotePruneRetention(k)
    <3>1. \E ok \in BOOLEAN, f \in BOOLEAN : Finish(k, ok, f)
      BY <2>12 DEF StepFails, SyncoidRefuses, SyncoidBreaks, SyncoidKilled,
         RemotePruneRetention
    <3> QED BY <1>1, <3>1, FinishIs DEF Active
  <2>13. CASE \E d \in Dests : StartBackupJob(k, d)
    BY <1>1, <2>13, StartIs DEF Active
  <2>14. CASE Crash
    <3>1. job'[k] = Idle
      BY <2>14 DEF Crash
    <3> QED BY <1>1, <3>1 DEF Idle, Active
  <2>15. CASE Bystander
    <3>1. SomeHit
      BY <2>15, BystanderIs
    <3>2. has'[Dest(k)] = has[Dest(k)] /\ dst'[Dest(k)] = dst[Dest(k)]
          /\ (src' = src \/ AutoSnapshot)
      <4>1. CASE ~job'[k].hit
        BY <2>5, <2>15, <4>1, BystanderSpares
      <4>2. CASE Dest(k) \in sound'
        BY <2>15, <4>2, SoundSpared
      <4> QED BY <1>1, <2>1, <4>1, <4>2 DEF Owed, Dest
    <3>3. job[k].snap \in src'
      <4>1. fam[job[k].snap] # AutoLabel
        BY <1>2, <2>1, <2>5, LabelsApart DEF Marked
      <4> QED BY <2>3, <3>2, <4>1, AutoSpares
    <3>4. \A i \in 1..Len(Parts) : Past(k, i)' => Past(k, i)
      BY <3>1, HitIs DEF Past
    <3> QED BY <2>4, <3>2, <3>3, <3>4
  <2> QED BY <1>4, <2>7, <2>8, <2>9, <2>10, <2>11, <2>12, <2>13, <2>14, <2>15 DEF Next,
             OneJob, Bystander, BackupStep
<1> QED BY <1>3, <1>4

(* A chain stays when its snapshots do. *)
LEMMA AnchorStays == ASSUME NEW d, NEW p, Anchored(d, p), p \in has'[d],
           \A x \in src \cap dst[d][p] : fam[x] = LabelOf[d] => x \in src'
           /\ x \in dst'[d][p] /\ fam'[x] = fam[x]
    PROVE  Anchored(d, p)'
  BY DEF Anchored

(* The snapshot of a job is a chain. *)
LEMMA SnapAnchors ==
  ASSUME BaseInv, NEW j \in Jobs, job[j].pc \in Active, Marked(j), NEW d, d = Dest(j),
         NEW p,
           p \in has'[d], job[j].snap \in src', job[j].snap \in dst'[d][p], fam' = fam
    PROVE  Anchored(d, p)'
<1>1. fam'[job[j].snap] = LabelOf[d]
  BY DEF Marked
<1> QED BY <1>1 DEF Anchored

(* A transfer, also one that breaks off, keeps the chain: what is rolled back is newer. *)
LEMMA LandAnchors ==
  ASSUME BaseInv, NEW j \in Jobs, job[j].pc \in Active, NEW S \in SUBSET Stream(j),
         Land(j, S),
           NEW d \in Dests, NEW p \in PartSet, Anchored(d, p), src' = src, fam' = fam
    PROVE  Anchored(d, p)'
<1>1. /\ \A e \in Dests : e # Dest(j) => has'[e] = has[e] /\ dst'[e] = dst[e]
      /\ has'[Dest(j)] = has[Dest(j)] \cup {Part(j)}
      /\ \A q \in PartSet : q # Part(j) => dst'[Dest(j)][q] = dst[Dest(j)][q]
      /\ dst'[Dest(j)][Part(j)] = IF Stream(j) = {} THEN dst[Dest(j)][Part(j)]
           ELSE Base(j) \cup S
  BY LandIs
<1>2. CASE d # Dest(j)
  BY <1>1, <1>2, AnchorStays DEF Anchored
<1>3. CASE d = Dest(j) /\ p # Part(j)
  BY <1>1, <1>3, AnchorStays DEF Anchored
<1>4. CASE d = Dest(j) /\ p = Part(j)
  <2>1. HasCommonSnapshot(Dest(j), Part(j)) /\ Part(j) \in has[Dest(j)]
    BY <1>4 DEF Anchored, HasCommonSnapshot
  <2>2. \A x \in src \cap dst[Dest(j)][Part(j)] : x <= Common(j)
    BY <2>1, CommonIs
  <2>3. \A x \in src \cap dst[Dest(j)][Part(j)] : x \in Base(j)
    BY <2>1, <2>2 DEF Base
  <2>4. \A x \in src \cap dst[d][p] : x \in dst'[d][p]
    BY <1>1, <1>4, <2>3
  <2>5. p \in has'[d]
    BY <1>1, <1>4
  <2> QED BY <2>4, <2>5, AnchorStays
<1> QED BY <1>2, <1>3, <1>4

(* The self-heal touches no dataset with a chain. *)
LEMMA WipeAnchors ==
  ASSUME BaseInv, NEW e \in Dests, NEW ps \in SUBSET Broken(e), Wipe(e, ps),
           NEW d \in Dests, NEW p \in PartSet, Anchored(d, p), src' = src, fam' = fam
    PROVE  Anchored(d, p)'
<1>1. /\ \A f \in Dests : f # e => has'[f] = has[f] /\ dst'[f] = dst[f]
      /\ has'[e] = has[e] \ ps
      /\ \A q \in PartSet : dst'[e][q] = IF q \in ps THEN {} ELSE dst[e][q]
  BY WipeIs DEF BaseInv
<1>2. CASE d # e
  BY <1>1, <1>2, AnchorStays DEF Anchored
<1>3. CASE d = e
  <2>1. p \notin ps
    BY <1>3 DEF Broken, Anchored, HasCommonSnapshot
  <2>2. dst'[d][p] = dst[d][p] /\ p \in has'[d]
    BY <1>1, <1>3, <2>1 DEF Anchored
  <2> QED BY <2>2, AnchorStays
<1> QED BY <1>2, <1>3

(* Every step keeps AnchorInv. *)
LEMMA AnchorNext ==
  ASSUME OneJob, Apart, BaseInv, CourseInv, ChainInv, Next
  PROVE  AnchorInv'
<1>1. SUFFICES ASSUME NEW d \in sound', NEW p \in PartSet PROVE Anchored(d, p)'
  BY DEF AnchorInv
<1>2. PICK i \in 1..Len(Parts) : p = Parts[i]
  BY DEF PartSet
<1>3. d \in sound => d \in Dests /\ Anchored(d, p)
  BY DEF ChainInv, AnchorInv, BaseInv, CountInv
<1>4. MarkedInv /\ HeldInv /\ fam \in Seq(Label) /\ src \subseteq 1..Len(fam)
      /\ Len(Parts) \in Nat
  BY BackupAssumption DEF ChainInv, BaseInv, Store
<1>5. ASSUME UNCHANGED <<fam, src, has, dst>>, d \in sound PROVE Anchored(d, p)'
  BY <1>3, <1>5, AnchorStays DEF Anchored
<1>6. ASSUME NEW j \in Jobs, job[j].pc \in Active, Owed(j), Past(j, i), d = Dest(j)
      PROVE  job[j].snap \in src /\ p \in has[d] /\ job[j].snap \in NewestN(dst[d][p], Keep)
  BY <1>2, <1>4, <1>6 DEF HeldInv, Held
<1>7. ASSUME NEW j \in Jobs, Finish(j, TRUE, FALSE)
      PROVE  (d = Dest(j) /\ Owed(j)) \/ (d \in sound /\ d # Dest(j))
  BY <1>7 DEF Finish, Owed
<1>8. ASSUME NEW j \in Jobs, NEW f, Finish(j, FALSE, f) PROVE d \in sound
  BY <1>8 DEF Finish
<1>9. ASSUME NEW j \in Jobs,
             Cancel(j) \/ StepFails(j) \/ SyncoidRefuses(j) \/ RemotePrepChainFails(j)
                             \/ \E e \in Dests : StartBackupJob(j, e)
      PROVE  Anchored(d, p)'
  BY <1>5, <1>8, <1>9 DEF Cancel, StepFails, SyncoidRefuses, RemotePrepChainFails,
     StartBackupJob
<1>10. ASSUME NEW j \in Jobs, CreateSnapshot(j) PROVE Anchored(d, p)'
  <2>1. fam' = Append(fam, LabelOf[Dest(j)]) /\ src \subseteq src' /\ has' = has
        /\ dst' = dst /\ d \in sound
    BY <1>10 DEF CreateSnapshot
  <2>2. \A x \in src : fam'[x] = fam[x]
    BY <1>4, <2>1, AppendIs
  <2> QED BY <1>3, <2>1, <2>2, AnchorStays DEF Anchored
<1>11. ASSUME NEW j \in Jobs, RemotePrepChain(j) \/ PrepLocalBackupChain(j)
       PROVE  Anchored(d, p)'
  <2>1. Dest(j) \in Dests
    BY <1>11, JobAt DEF RemotePrepChain, PrepLocalBackupChain, Active
  <2>2. /\ \E ps \in SUBSET Broken(Dest(j)) : Wipe(Dest(j), ps)
        /\ src' = src /\ fam' = fam /\ d \in sound
    BY <1>11 DEF RemotePrepChain, PrepLocalBackupChain
  <2> QED BY <1>3, <2>1, <2>2, WipeAnchors
<1>12. ASSUME NEW j \in Jobs, RunSyncoid(j) \/ SyncoidBreaks(j) \/ SyncoidKilled(j)
       PROVE  Anchored(d, p)'
  <2>1. job[j].pc \in Active /\ src' = src /\ fam' = fam
    BY <1>12 DEF RunSyncoid, SyncoidBreaks, SyncoidKilled, Active
  <2>2. d \in sound
    BY <1>8, <1>12 DEF RunSyncoid, SyncoidBreaks, SyncoidKilled
  <2>3. UNCHANGED <<has, dst>> \/ \E S \in SUBSET Stream(j) : Land(j, S)
    <3>1. \A m : {x \in Stream(j) : x < m} \in SUBSET Stream(j)
      OBVIOUS
    <3> QED BY <1>12, <3>1 DEF RunSyncoid, SyncoidBreaks, SyncoidKilled
  <2> QED BY <1>3, <1>5, <2>1, <2>2, <2>3, LandAnchors
<1>13. ASSUME NEW j \in Jobs, ApplyBackupRetention(j) PROVE Anchored(d, p)'
  <2>1. /\ job[j].pc = "retain" /\ job[j].pc \in Active
        /\ src' = src /\ fam' = fam /\ has' = has /\ d \in sound
    BY <1>13 DEF ApplyBackupRetention, Active
  <2>2. Dest(j) \in Dests /\ Part(j) \in PartSet /\ job[j].at \in 1..Len(Parts)
    BY <2>1, JobAt
  <2>3. dst'[d][p] = IF d = Dest(j)
        /\ p = Part(j) THEN PruneRetentionByCount(d, p) ELSE dst[d][p]
    BY <1>3, <1>13, <2>1, <2>2 DEF ApplyBackupRetention, BaseInv, Store
  <2>4. CASE d = Dest(j) /\ p = Part(j)
    <3>1. i = job[j].at
      BY <1>2, <2>2, <2>4, PartsApart DEF Part
    <3>2. Past(j, i) /\ Owed(j)
      BY <2>1, <2>4, <3>1 DEF Past, Owed
    <3>3. job[j].snap \in src /\ p \in has[d] /\ job[j].snap \in NewestN(dst[d][p], Keep)
      BY <1>6, <2>1, <2>4, <3>2
    <3>4. job[j].snap \in dst'[d][p]
      BY <2>3, <2>4, <3>3, PruneIs
    <3> QED BY <1>4, <2>1, <2>4, <3>3, <3>4, SnapAnchors DEF MarkedInv
  <2>5. CASE ~(d = Dest(j) /\ p = Part(j))
    BY <1>3, <2>1, <2>3, <2>5, AnchorStays DEF Anchored
  <2> QED BY <2>4, <2>5
<1>14. ASSUME NEW j \in Jobs, PruneSourceBackupAnchors(j) PROVE Anchored(d, p)'
  <2>1. /\ job[j].pc = "prune" /\ job[j].pc \in Active /\ fam' = fam /\ has' = has
           /\ dst' = dst
        /\ src' = PrunedAnchors(LabelOf[Dest(j)])
    BY <1>14 DEF PruneSourceBackupAnchors, Active
  <2>2. (d = Dest(j) /\ Owed(j)) \/ (d \in sound /\ d # Dest(j))
    <3>1. Finish(j, TRUE, FALSE) \/ sound' = sound
      BY <1>14 DEF PruneSourceBackupAnchors
    <3>2. ASSUME sound' = sound PROVE d \in sound /\ (d = Dest(j) => Owed(j))
      BY <3>2 DEF Owed
    <3> QED BY <1>7, <3>1, <3>2
  <2>3. CASE d = Dest(j) /\ Owed(j)
    <3>1. Past(j, i)
      BY <1>2, <2>1 DEF CourseInv, Course, Past
    <3>2. job[j].snap \in src /\ p \in has[d] /\ job[j].snap \in NewestN(dst[d][p], Keep)
      BY <1>6, <2>1, <2>3, <3>1
    <3>3. job[j].snap \in src' /\ job[j].snap \in dst'[d][p]
      BY <1>4, <2>1, <3>2, PruneKeepsOwn DEF MarkedInv, NewestN
    <3> QED BY <1>4, <2>1, <2>3, <3>2, <3>3, SnapAnchors DEF MarkedInv
  <2>4. CASE d \in sound /\ d # Dest(j)
    BY <1>3, <2>1, <2>4, PruneSpares, AnchorStays DEF Anchored
  <2> QED BY <2>2, <2>3, <2>4
<1>15. ASSUME NEW j \in Jobs, RemotePruneRetention(j) PROVE Anchored(d, p)'
  <2>1. /\ job[j].pc = "peer" /\ job[j].pc \in Active /\ fam' = fam /\ has' = has
           /\ src' = src
        /\ Finish(j, TRUE, FALSE)
    BY <1>15 DEF RemotePruneRetention, Active
  <2>2. Dest(j) \in Dests /\ dst \in [Dests -> [PartSet -> SUBSET Nat]]
    BY <2>1, JobAt DEF BaseInv, Store
  <2>3. CASE d = Dest(j) /\ Owed(j)
    <3>1. Past(j, i)
      BY <1>2, <2>1 DEF CourseInv, Course, Past
    <3>2. job[j].snap \in src /\ p \in has[d] /\ job[j].snap \in NewestN(dst[d][p], Keep)
      BY <1>6, <2>1, <2>3, <3>1
    <3>3. dst' = dst \/ dst'[d][p] = PruneRetentionByCount(d, p)
      BY <1>15, <2>2, <2>3 DEF RemotePruneRetention
    <3>4. job[j].snap \in dst'[d][p]
      BY <3>2, <3>3, PruneIs DEF NewestN
    <3> QED BY <1>4, <2>1, <2>3, <3>2, <3>4, SnapAnchors DEF MarkedInv
  <2>4. CASE d \in sound /\ d # Dest(j)
    <3>1. dst'[d] = dst[d]
      BY <1>3, <1>15, <2>2, <2>4 DEF RemotePruneRetention
    <3> QED BY <1>3, <2>1, <2>4, <3>1, AnchorStays DEF Anchored
  <2> QED BY <1>7, <2>1, <2>3, <2>4
<1>16. CASE Crash
  BY <1>5, <1>16 DEF Crash
<1>17. CASE Bystander
  <2>1. d \in sound /\ has'[d] = has[d] /\ dst'[d] = dst[d]
    BY <1>17, SoundSpared
  <2>2. CASE AutoSnapshot
    <3>1. \A x \in src : fam[x] = LabelOf[d] => x \in src' /\ fam'[x] = fam[x]
      BY <1>3, <2>1, <2>2, AutoSpares, LabelsApart
    <3> QED BY <1>3, <2>1, <3>1, AnchorStays DEF Anchored
  <2>3. CASE ~AutoSnapshot
    <3>1. src' = src
      BY <1>17, <2>3, SoundSpared
    <3>2. fam' = fam
      BY <1>17, <2>3 DEF Bystander, DeleteSnapshot, DropInstance, DeletePoint, DeleteBackup,
         InstantCloneRestore
    <3> QED BY <1>3, <2>1, <3>1, <3>2, AnchorStays DEF Anchored
  <2> QED BY <2>2, <2>3
<1> QED BY <1>9, <1>10, <1>11, <1>12, <1>13, <1>14, <1>15, <1>16, <1>17 DEF Next, Bystander,
           BackupStep

(* Once a destination has completed a backup, every part of it shares a snapshot with the *)
(* instance, so that the next backup is incremental and the self-heal never wipes it:     *)
(* through faults, broken and cancelled transfers, crashes, retention on both sides, the  *)
(* snapshot schedule and backups to other destinations, until the user removes a snapshot *)
(* or the backup (PruneSourceBackupAnchors, applyBackupRetention, PrepLocalBackupChain,   *)
(* runLXDSnapshotPolicy).                                                                 *)
THEOREM ChainIsKept == ASSUME OneJob, Apart, Room PROVE Spec => []ChainKept
<1> DEFINE I == StartedInv /\ ChainInv
<1>1. Init => I
  <2>1. SUFFICES ASSUME Init PROVE ChainInv
    BY StartedInit
  <2>2. (\A j \in Jobs : job[j] = Idle) /\ src = {} /\ sound = {}
    BY <2>1 DEF Init
  <2>3. Autos = {} /\ Keep \in Nat \ {0}
    BY <2>2, BackupAssumption DEF Autos
  <2>4. FewAutos
    BY <2>3, FS_EmptySet DEF FewAutos
  <2>5. MarkedInv /\ HeldInv /\ AnchorInv
    BY <2>2 DEF MarkedInv, Marked, HeldInv, Held, AnchorInv, Idle, Active
  <2> QED BY <2>4, <2>5 DEF ChainInv
<1>2. I /\ [Next]_vars => I'
  <2>1. SUFFICES ASSUME I, [Next]_vars PROVE ChainInv'
    BY StartedNext
  <2>2. CASE Next
    BY <2>1, <2>2, AutosNext, MarkedNext, HeldNext, AnchorNext DEF StartedInv, ChainInv
  <2>3. CASE UNCHANGED vars
    BY <2>1, <2>3 DEF vars, ChainInv, FewAutos, Autos, MarkedInv, Marked, HeldInv, Held,
       AnchorInv, Anchored, Owed, Past, Dest
  <2> QED BY <2>1, <2>2, <2>3
<1>3. I => ChainKept
  BY DEF ChainInv, AnchorInv, Anchored, ChainKept, HasCommonSnapshot
<1> QED BY <1>1, <1>2, <1>3, PTL DEF Spec
=============================================================================
