------------------------ MODULE SnapSchedule_proofs -------------------------
(***************************************************************************)
(* Snapshot policies for every set of policies, labels, settings and       *)
(* destinations, every number of snapshots, faults and edits.              *)
(*                                                                         *)
(* TypeInv is the type invariant with what relates the variables: a job    *)
(* works on a policy of its copy of the file, and no base it remembers is  *)
(* newer than its snapshot. RetentionInv says of every snapshot a job      *)
(* means to destroy that enough newer ones exist (KeptInv); that survives  *)
(* the other job's pruning only if the labels are ordered, or if there is  *)
(* one job (Prudent).                                                      *)
(*                                                                         *)
(* The other invariants follow whoever has the file to itself. SoleInv:    *)
(* nobody else is at work, the copy is the file with the results so far,   *)
(* the snapshot the job works on is still there, and what                  *)
(* PrepareReplication found is still so. From it comes StrikeInv: a policy *)
(* that failed without a fault has no base left, so that the next send is  *)
(* a full one: to an empty remote, where it cannot fail, or to one that    *)
(* could not be cleaned, whose failures are not counted. CalmInv:          *)
(* while nothing overlapped, everything any copy of the file remembers can *)
(* be built on. A stream keeps the base it started from and a remote is    *)
(* cleaned only when the base is gone, so no other policy may use the same *)
(* dataset (DestApart).                                                    *)
(***************************************************************************)
EXTENDS SnapSchedule, FiniteSetTheorems, SequenceTheorems, WellFoundedInduction, TLAPS

(***************************************************************************)
(* What the operators compute.                                             *)
(***************************************************************************)
(* Least picks the least of a set of numbers. *)
LEMMA LeastNat ==
  ASSUME NEW T \in SUBSET Nat, T # {}
  PROVE  Least(T) \in T /\ \A y \in T : Least(T) <= y
<1>1. PICK x \in T : \A y \in T : ~(<<y, x>> \in OpToRel(<, Nat))
  BY WFMin, NatLessThanWellFounded
<1>2. \A y \in T : ~(y < x)
  BY <1>1 DEF OpToRel
<1>3. \A y \in T : x <= y
  BY <1>2
<1> QED BY <1>3 DEF Least

(* Sets of snapshots are finite. *)
LEMMA FiniteSnaps == ASSUME NEW n \in Nat, NEW S \in SUBSET (1..n)
    PROVE  IsFiniteSet(S) /\ Cardinality(S) \in Nat
<1>1. IsFiniteSet(1..n)
  BY FS_Interval
<1>2. IsFiniteSet(S)
  BY <1>1, FS_Subset
<1> QED BY <1>2, FS_CardinalityType

(* A set of snapshots has no fewer elements than its subsets. *)
LEMMA MoreSnaps == ASSUME NEW n \in Nat, NEW T \in SUBSET (1..n), NEW S \in SUBSET T
    PROVE  Cardinality(S) <= Cardinality(T) /\ Cardinality(S) \in Nat /\ Cardinality(T) \in Nat
<1>1. IsFiniteSet(T)
  BY FiniteSnaps
<1> QED BY <1>1, FS_Subset, FS_CardinalityType

(* A set has one element if nothing is left without its least one. *)
LEMMA LastOne == ASSUME NEW n \in Nat, NEW T \in SUBSET (1..n), T # {}
    PROVE  (Cardinality(T) = 1) <=> (T \ {Least(T)} = {})
<1>1. Least(T) \in T
  <2>1. T \in SUBSET Nat
    OBVIOUS
  <2> QED BY <2>1, LeastNat
<1>2. IsFiniteSet(T)
  BY FiniteSnaps
<1>3. Cardinality(T \ {Least(T)}) = Cardinality(T) - 1 /\ IsFiniteSet(T \ {Least(T)})
  BY <1>1, <1>2, FS_RemoveElement
<1>4. Cardinality(T) \in Nat
  BY <1>2, FS_CardinalityType
<1>5. Cardinality(T \ {Least(T)}) = 0 <=> T \ {Least(T)} = {}
  BY <1>3, FS_EmptySet
<1> QED BY <1>3, <1>4, <1>5

(***************************************************************************)
(* Types.                                                                  *)
(***************************************************************************)
(* Entries of a file when n snapshots have been taken. *)
Entries(n) ==
  {e \in [id : Policy, form : Form, lastLocal : 0..n, lastRep : 0..n] :
     e.form \in Forms[e.id]}

(* Where a job can be ... *)
Points == {"idle", "snapshot", "list", "destroy", "local", "remote", "send", "save"}

(* ... and where it works on a snapshot. *)
Working == {"list", "destroy", "local", "remote", "send"}

(* The record of a job, and of an edit. *)
JobRec(n) ==
  [pc : Points, mem : Seq(Entries(n)), todo : SUBSET Nat, snap : 0..n, base : 0..n,
   victims : SUBSET (1..n), solo : BOOLEAN, hit : BOOLEAN, bad : SUBSET Policy,
   ran : SUBSET Policy]

AdmRec(n) == [pc : {"idle", "save"}, mem : Seq(Entries(n)), solo : BOOLEAN]

(* What relates the fields of a job: a policy of the copy while there is one to do, and *)
(* no base newer than its snapshot.                                                     *)
Shape(r) ==
  /\ r.todo \subseteq 1..Len(r.mem)
  /\ (r.pc \in {"idle", "save"}) <=> (r.todo = {})
  /\ r.pc \in Working =>
       \A i \in 1..Len(r.mem) : r.mem[i].lastRep < r.snap /\ r.mem[i].lastLocal <= r.snap
  /\ r.pc = "send" => r.base < r.snap

(* Types of the snapshots, *)
Store ==
  /\ taken \in Seq(Label) /\ Len(taken) <= MaxSnaps
  /\ src \subseteq 1..Len(taken)
  /\ dst \in [Dest -> SUBSET (1..Len(taken))]

(* the histories and counters, *)
Rest ==
  /\ unused \subseteq Policy /\ calm \in BOOLEAN
  /\ strikes \in [Policy -> 0..2]
  /\ faults \in 0..MaxFaults /\ admin \in 0..MaxAdmin

(* the file and the edit, *)
FileInv == file \in Seq(Entries(Len(taken))) /\ adm \in AdmRec(Len(taken))

(* and the jobs. *)
JobsInv == job \in [Jobs -> JobRec(Len(taken))] /\ \A j \in Jobs : Shape(job[j])

(* All of these. *)
TypeInv == Store /\ FileInv /\ JobsInv /\ Rest

(* Sequences over a larger set, *)
LEMMA SeqMono == ASSUME NEW S, NEW T, S \subseteq T, NEW m \in Seq(S) PROVE m \in Seq(T)
<1>1. m \in [1..Len(m) -> S] /\ Len(m) \in Nat
  BY LenProperties
<1>2. m \in [1..Len(m) -> T]
  BY <1>1
<1> QED BY <1>1, <1>2, SeqDef

(* entries when more snapshots are taken, *)
LEMMA EntriesMono ==
  ASSUME NEW n \in Nat, NEW k \in Nat, n <= k
  PROVE  Entries(n) \subseteq Entries(k)
<1>1. 0..n \subseteq 0..k
  OBVIOUS
<1> QED BY <1>1 DEF Entries

(* and jobs. *)
LEMMA JobMono ==
  ASSUME NEW n \in Nat, NEW k \in Nat, n <= k
  PROVE  JobRec(n) \subseteq JobRec(k) /\ AdmRec(n) \subseteq AdmRec(k)
<1>1. 0..n \subseteq 0..k /\ 1..n \subseteq 1..k
  OBVIOUS
<1>2. Seq(Entries(n)) \subseteq Seq(Entries(k))
  BY EntriesMono, SeqMono
<1>3. SUBSET (1..n) \subseteq SUBSET (1..k)
  BY <1>1
<1> QED BY <1>1, <1>2, <1>3 DEF JobRec, AdmRec

(* Replacing an element of a sequence. *)
LEMMA SetEntry == ASSUME NEW S, NEW m \in Seq(S), NEW i \in 1..Len(m), NEW e \in S
    PROVE  /\ [m EXCEPT ![i] = e] \in Seq(S) /\ Len([m EXCEPT ![i] = e]) = Len(m)
           /\ DOMAIN [m EXCEPT ![i] = e] = DOMAIN m /\ DOMAIN m = 1..Len(m)
<1>1. m \in [1..Len(m) -> S] /\ Len(m) \in Nat
  BY LenProperties
<1>2. [m EXCEPT ![i] = e] \in [1..Len(m) -> S]
  BY <1>1
<1>3. [m EXCEPT ![i] = e] \in Seq(S)
  BY <1>1, <1>2, SeqDef
<1>4. DOMAIN [m EXCEPT ![i] = e] = 1..Len(m)
  BY <1>2
<1> QED BY <1>1, <1>3, <1>4, LenProperties

(* Advance, field by field. *)
LEMMA AdvanceIs ==
  ASSUME NEW n \in Nat, NEW r \in JobRec(n), r.todo \subseteq 1..Len(r.mem), r.todo # {}
    PROVE  /\ Least(r.todo) \in r.todo /\ Least(r.todo) \in 1..Len(r.mem)
           /\ Advance(r) \in JobRec(n) /\ Shape(Advance(r))
           /\ Advance(r).pc \in {"save", "snapshot"}
           /\ Advance(r).todo = r.todo \ {Least(r.todo)} /\ Advance(r).hit = FALSE
           /\ Advance(r).mem = r.mem /\ Advance(r).snap = r.snap /\ Advance(r).base = r.base
           /\ Advance(r).victims = r.victims /\ Advance(r).solo = r.solo
           /\ Advance(r).bad = r.bad /\ Advance(r).ran = r.ran
<1>1. r.todo \subseteq 1..Len(r.mem) /\ r.todo # {} /\ Len(r.mem) \in Nat
  BY LenProperties DEF JobRec
<1>2. r.todo \in SUBSET Nat
  BY DEF JobRec
<1>3. Least(r.todo) \in r.todo
  BY <1>1, <1>2, LeastNat
<1>4. (Cardinality(r.todo) = 1) <=> (r.todo \ {Least(r.todo)} = {})
  BY <1>1, LastOne
<1>5. /\ Advance(r) = [r EXCEPT !.todo = r.todo \ {Least(r.todo)}, !.hit = FALSE,
                        !.pc = IF r.todo \ {Least(r.todo)} = {} THEN "save" ELSE "snapshot"]
  BY <1>4 DEF Advance
<1> DEFINE T == r.todo \ {Least(r.todo)}
           a == [r EXCEPT !.todo = T, !.hit = FALSE,
              !.pc = IF T = {} THEN "save" ELSE "snapshot"]
<1>6. T \in SUBSET Nat /\ T \subseteq 1..Len(r.mem)
  BY <1>1, <1>2
<1> HIDE DEF T
<1>7. /\ a \in JobRec(n)
      /\ a.pc = IF T = {} THEN "save" ELSE "snapshot"
      /\ a.todo = T /\ a.hit = FALSE
      /\ a.mem = r.mem /\ a.snap = r.snap /\ a.base = r.base
      /\ a.victims = r.victims /\ a.solo = r.solo /\ a.bad = r.bad /\ a.ran = r.ran
  BY <1>6 DEF JobRec, Points
<1>8. Advance(r) = a
  BY <1>5 DEF T
<1> HIDE DEF a
<1>9. Shape(a)
  BY <1>6, <1>7 DEF Shape, Working
<1> QED BY <1>1, <1>3, <1>7, <1>8, <1>9 DEF T

(***************************************************************************)
(* The steps of a job, field by field.                                     *)
(***************************************************************************)
(* What the type invariant says of one job ... *)
LEMMA RecOf == ASSUME TypeInv, NEW j \in Jobs
    PROVE  /\ Len(taken) \in Nat /\ DOMAIN taken = 1..Len(taken)
           /\ job[j] \in JobRec(Len(taken)) /\ Shape(job[j])
           /\ Len(job[j].mem) \in Nat /\ DOMAIN job[j].mem = 1..Len(job[j].mem)
           /\ job[j].mem \in Seq(Entries(Len(taken)))
<1>1. Len(taken) \in Nat /\ DOMAIN taken = 1..Len(taken)
  BY LenProperties DEF TypeInv, Store
<1>2. job[j] \in JobRec(Len(taken)) /\ Shape(job[j])
  BY DEF TypeInv, JobsInv
<1>3. job[j].mem \in Seq(Entries(Len(taken)))
  BY <1>2 DEF JobRec
<1> QED BY <1>1, <1>2, <1>3, LenProperties

(* ... and of the policy it works on. *)
LEMMA CurIs == ASSUME TypeInv, NEW j \in Jobs, job[j].pc \notin {"idle", "save"}
    PROVE  /\ At(j) = Least(job[j].todo)
           /\ At(j) \in job[j].todo /\ At(j) \in 1..Len(job[j].mem)
           /\ Cur(j) = job[j].mem[At(j)]
           /\ Cur(j) \in Entries(Len(taken))
           /\ Cur(j).id \in Policy /\ Cur(j).form \in Form /\ Cur(j).form \in Forms[Cur(j).id]
           /\ Cur(j).form.label \in Label /\ Cur(j).form.keep \in Nat \ {0}
           /\ Cur(j).form.local \in Dest \cup {NoDest}
              /\ Cur(j).form.remote \in Dest \cup {NoDest}
           /\ Cur(j).lastLocal \in 0..Len(taken) /\ Cur(j).lastRep \in 0..Len(taken)
<1>1. job[j] \in JobRec(Len(taken)) /\ Shape(job[j]) /\ Len(taken) \in Nat
      /\ job[j].mem \in Seq(Entries(Len(taken)))
  BY RecOf
<1>2. At(j) = Least(job[j].todo) /\ At(j) \in job[j].todo /\ At(j) \in 1..Len(job[j].mem)
  BY <1>1, AdvanceIs DEF At, Shape
<1>3. Cur(j) = job[j].mem[At(j)]
  BY DEF Cur
<1>4. Cur(j) \in Entries(Len(taken))
  BY <1>1, <1>2, <1>3, ElementOfSeq
<1>5. /\ Cur(j).id \in Policy /\ Cur(j).form \in Form /\ Cur(j).form \in Forms[Cur(j).id]
      /\ Cur(j).lastLocal \in 0..Len(taken) /\ Cur(j).lastRep \in 0..Len(taken)
  BY <1>4 DEF Entries
<1>6. /\ Cur(j).form.label \in Label /\ Cur(j).form.keep \in Nat \ {0}
      /\ Cur(j).form.local \in Dest \cup {NoDest} /\ Cur(j).form.remote \in Dest \cup {NoDest}
  BY <1>5 DEF Form
<1> QED BY <1>2, <1>3, <1>4, <1>5, <1>6

(* A step that gives one job a new record. *)
LEMMA OneJob == ASSUME TypeInv, NEW j \in Jobs, Len(taken') \in Nat, Len(taken) <= Len(taken'),
                       NEW s \in JobRec(Len(taken')), Shape(s), job' = [job EXCEPT ![j] = s]
    PROVE  JobsInv' /\ job'[j] = s /\ \A k \in Jobs \ {j} : job'[k] = job[k]
<1>1. job \in [Jobs -> JobRec(Len(taken))] /\ \A k \in Jobs : Shape(job[k])
  BY DEF TypeInv, JobsInv
<1>2. JobRec(Len(taken)) \subseteq JobRec(Len(taken'))
  BY RecOf, JobMono
<1>3. job'[j] = s /\ \A k \in Jobs \ {j} : job'[k] = job[k]
  BY <1>1
<1>4. job' \in [Jobs -> JobRec(Len(taken'))]
  BY <1>1, <1>2
<1>5. \A k \in Jobs : Shape(job'[k])
  BY <1>1, <1>3
<1> QED BY <1>3, <1>4, <1>5 DEF JobsInv

(* An idle job is well-formed. *)
LEMMA IdleIs == ASSUME NEW n \in Nat PROVE Idle \in JobRec(n) /\ Shape(Idle)
<1>1. <<>> \in Seq(Entries(n)) /\ Len(<<>>) = 0
  BY EmptySeq
<1>2. 0 \in 0..n /\ {} \in SUBSET Nat /\ {} \in SUBSET (1..n) /\ {} \in SUBSET Policy
  OBVIOUS
<1>3. Idle \in JobRec(n)
  BY <1>1, <1>2 DEF Idle, JobRec, Points
<1>4. Shape(Idle)
  BY <1>1 DEF Idle, Shape, Working
<1> QED BY <1>3, <1>4

(* CreateSnapshot, *)
LEMMA CreateIs == ASSUME TypeInv, NEW j \in Jobs, CreateSnapshot(j)
    PROVE  /\ JobsInv' /\ \A k \in Jobs \ {j} : job'[k] = job[k]
           /\ job[j].pc = "snapshot" /\ job'[j].pc = "list"
           /\ job'[j].snap = Len(taken) + 1 /\ job'[j].ran = job[j].ran \cup {Cur(j).id}
           /\ job'[j].mem = job[j].mem /\ job'[j].todo = job[j].todo
              /\ job'[j].base = job[j].base
           /\ job'[j].victims = job[j].victims /\ job'[j].solo = job[j].solo
           /\ job'[j].hit = job[j].hit /\ job'[j].bad = job[j].bad
           /\ Len(taken') = Len(taken) + 1 /\ taken' \in Seq(Label) /\ Len(taken') <= MaxSnaps
           /\ taken'[Len(taken) + 1] = Cur(j).form.label
           /\ \A i \in 1..Len(taken) : taken'[i] = taken[i]
           /\ src' = src \cup {Len(taken) + 1}
           /\ UNCHANGED <<file, dst, adm, unused, calm, strikes, faults, admin>>
<1> DEFINE r == job[j]
           n == Len(taken)
           s == [r EXCEPT !.pc = "list", !.snap = n + 1, !.ran = r.ran \cup {Cur(j).id}]
<1>1. r \in JobRec(n) /\ Shape(r) /\ n \in Nat /\ r.mem \in Seq(Entries(n))
      /\ Len(r.mem) \in Nat
  BY RecOf
<1>2. r.pc = "snapshot" /\ n < MaxSnaps /\ taken' = Append(taken, Cur(j).form.label)
      /\ src' = src \cup {n + 1}
      /\ UNCHANGED <<file, dst, adm, unused, calm, strikes, faults, admin>>
  BY DEF CreateSnapshot
<1>3. Cur(j).id \in Policy /\ Cur(j).form.label \in Label
  BY <1>2, CurIs
<1>4. taken \in Seq(Label)
  BY DEF TypeInv, Store
<1>5. /\ Len(taken') = n + 1 /\ taken' \in Seq(Label) /\ Len(taken') <= MaxSnaps
      /\ taken'[n + 1] = Cur(j).form.label
      /\ \A i \in 1..n : taken'[i] = taken[i]
  BY <1>1, <1>2, <1>3, <1>4, AppendProperties, ScheduleAssumption DEF ScheduleAssumption
<1>6. job' = [job EXCEPT ![j] = s]
  BY DEF CreateSnapshot
<1> HIDE DEF n
<1>7. r \in JobRec(n + 1)
  BY <1>1, JobMono
<1>8. \A i \in 1..Len(r.mem) : r.mem[i].lastRep < n + 1 /\ r.mem[i].lastLocal <= n + 1
  <2> TAKE i \in 1..Len(r.mem)
  <2>1. r.mem[i] \in Entries(n)
    BY <1>1, ElementOfSeq
  <2> QED BY <1>1, <2>1 DEF Entries
<1> HIDE DEF r
<1>a. n + 1 \in 0..(n + 1) /\ r.ran \cup {Cur(j).id} \in SUBSET Policy /\ n + 1 \in Nat
/\ n <= n + 1
  BY <1>1, <1>3 DEF JobRec
<1>9. /\ s \in JobRec(n + 1)
      /\ s.pc = "list" /\ s.snap = n + 1 /\ s.ran = r.ran \cup {Cur(j).id}
      /\ s.mem = r.mem /\ s.todo = r.todo /\ s.base = r.base /\ s.victims = r.victims
      /\ s.solo = r.solo /\ s.hit = r.hit /\ s.bad = r.bad
  BY <1>a, <1>7 DEF JobRec, Points
<1> HIDE DEF s
<1>10. Shape(s)
  BY <1>1, <1>2, <1>8, <1>9 DEF Shape, Working
<1>11. JobsInv' /\ job'[j] = s /\ \A k \in Jobs \ {j} : job'[k] = job[k]
  <2>1. Len(taken') \in Nat /\ Len(taken) <= Len(taken') /\ s \in JobRec(Len(taken'))
    BY <1>a, <1>5, <1>9 DEF n
  <2> QED BY <2>1, <1>6, <1>10, OneJob
<1> QED BY <1>2, <1>5, <1>9, <1>11 DEF n, r

(* SnapshotFails and NoReplication, *)
LEMMA FailsIs == ASSUME TypeInv, NEW j \in Jobs, SnapshotFails(j) \/ NoReplication(j)
    PROVE  /\ JobsInv' /\ \A k \in Jobs \ {j} : job'[k] = job[k]
           /\ job[j].pc \in {"snapshot", "remote"} /\ job'[j].pc \in {"save", "snapshot"}
           /\ job'[j].todo = job[j].todo \ {At(j)} /\ job'[j].hit = FALSE
           /\ job'[j].mem = job[j].mem /\ job'[j].snap = job[j].snap
              /\ job'[j].base = job[j].base
           /\ job'[j].victims = job[j].victims /\ job'[j].solo = job[j].solo
           /\ job'[j].bad = job[j].bad /\ job'[j].ran = job[j].ran
           /\ UNCHANGED <<file, taken, src, dst, adm, unused, calm, strikes, admin>>
           /\ (Fault("snapshot") \/ UNCHANGED faults)
<1>1. job[j] \in JobRec(Len(taken)) /\ Shape(job[j]) /\ Len(taken) \in Nat
  BY RecOf
<1>2. /\ job' = [job EXCEPT ![j] = Advance(job[j])] /\ job[j].pc \in {"snapshot", "remote"}
      /\ UNCHANGED <<file, taken, src, dst, adm, unused, calm, strikes, admin>>
      /\ (Fault("snapshot") \/ UNCHANGED faults)
  BY DEF SnapshotFails, NoReplication
<1> DEFINE s == Advance(job[j])
<1>3. /\ s \in JobRec(Len(taken)) /\ Shape(s) /\ s.pc \in {"save", "snapshot"}
      /\ s.todo = job[j].todo \ {At(j)} /\ s.hit = FALSE
      /\ s.mem = job[j].mem /\ s.snap = job[j].snap /\ s.base = job[j].base
      /\ s.victims = job[j].victims /\ s.solo = job[j].solo
      /\ s.bad = job[j].bad /\ s.ran = job[j].ran
  BY <1>1, <1>2, AdvanceIs DEF At, Shape
<1> HIDE DEF s
<1>4. JobsInv' /\ job'[j] = s /\ \A k \in Jobs \ {j} : job'[k] = job[k]
  <2>1. taken' = taken
    BY <1>2
  <2>2. Len(taken') \in Nat /\ Len(taken) <= Len(taken') /\ s \in JobRec(Len(taken'))
        /\ Shape(s)
    BY <1>1, <1>3, <2>1
  <2>3. job' = [job EXCEPT ![j] = s]
    BY <1>2 DEF s
  <2> QED BY <2>2, <2>3, OneJob
<1> QED BY <1>2, <1>3, <1>4

(* PruneList, *)
LEMMA ListIs == ASSUME TypeInv, NEW j \in Jobs, PruneList(j)
    PROVE  /\ JobsInv' /\ \A k \in Jobs \ {j} : job'[k] = job[k]
           /\ job[j].pc = "list"
           /\ \/ /\ job'[j].pc = "destroy"
                 /\ job'[j].victims = Excess(Ours(Cur(j).form.label), Cur(j).form.keep)
              \/ job'[j].pc = "local" /\ job'[j].victims = job[j].victims
           /\ job'[j].mem = job[j].mem /\ job'[j].todo = job[j].todo
              /\ job'[j].base = job[j].base
           /\ job'[j].snap = job[j].snap /\ job'[j].solo = job[j].solo
              /\ job'[j].ran = job[j].ran
           /\ job'[j].hit = job[j].hit /\ job'[j].bad = job[j].bad
           /\ UNCHANGED <<file, taken, src, dst, adm, unused, calm, strikes, admin>>
           /\ (Fault("list") \/ UNCHANGED faults)
<1> DEFINE r == job[j]
           n == Len(taken)
           V == Excess(Ours(Cur(j).form.label), Cur(j).form.keep)
           s1 == [r EXCEPT !.pc = "destroy", !.victims = V]
           s2 == [r EXCEPT !.pc = "local"]
<1>1. r \in JobRec(n) /\ Shape(r) /\ n \in Nat
  BY RecOf
<1>2. /\ r.pc = "list"
         /\ UNCHANGED <<file, taken, src, dst, adm, unused, calm, strikes, admin>>
      /\ (Fault("list") \/ UNCHANGED faults)
      /\ (job' = [job EXCEPT ![j] = s1] \/ job' = [job EXCEPT ![j] = s2])
  BY DEF PruneList
<1>3. V \in SUBSET (1..n)
  BY DEF Excess, Ours, TypeInv, Store
<1>4. Len(taken') = n
  <2>1. taken' = taken
    BY <1>2
  <2> QED BY <2>1
<1> HIDE DEF n, r, V
<1>5. /\ s1 \in JobRec(n) /\ s1.pc = "destroy" /\ s1.victims = V
      /\ s1.mem = r.mem /\ s1.todo = r.todo /\ s1.base = r.base /\ s1.snap = r.snap
      /\ s1.solo = r.solo /\ s1.ran = r.ran /\ s1.hit = r.hit /\ s1.bad = r.bad
  BY <1>1, <1>3 DEF JobRec, Points
<1>6. /\ s2 \in JobRec(n) /\ s2.pc = "local" /\ s2.victims = r.victims
      /\ s2.mem = r.mem /\ s2.todo = r.todo /\ s2.base = r.base /\ s2.snap = r.snap
      /\ s2.solo = r.solo /\ s2.ran = r.ran /\ s2.hit = r.hit /\ s2.bad = r.bad
  BY <1>1 DEF JobRec, Points
<1> HIDE DEF s1, s2
<1>7. Shape(s1) /\ Shape(s2)
  <2>1. r.pc = "list"
    BY <1>2
  <2> QED BY <1>1, <2>1, <1>5, <1>6 DEF Shape, Working
<1>8. \A s \in {s1, s2} : job' = [job EXCEPT ![j] = s] =>
        JobsInv' /\ job'[j] = s /\ \A k \in Jobs \ {j} : job'[k] = job[k]
  <2> TAKE s \in {s1, s2}
  <2>1. Len(taken') \in Nat /\ Len(taken) <= Len(taken') /\ s \in JobRec(Len(taken'))
        /\ Shape(s)
    BY <1>1, <1>4, <1>5, <1>6, <1>7 DEF n
  <2> QED BY <2>1, OneJob
<1>9. CASE job' = [job EXCEPT ![j] = s1]
  BY <1>2, <1>5, <1>8, <1>9 DEF r, V
<1>10. CASE job' = [job EXCEPT ![j] = s2]
  BY <1>2, <1>6, <1>8, <1>10 DEF r, V
<1> QED BY <1>2, <1>9, <1>10

(* PruneDestroy, PruneDone and NoLocalReplication, *)
LEMMA DestroyIs ==
  ASSUME TypeInv, NEW j \in Jobs, PruneDestroy(j) \/ PruneDone(j) \/ NoLocalReplication(j)
    PROVE  /\ JobsInv' /\ \A k \in Jobs \ {j} : job'[k] = job[k]
           /\ \/ job[j].pc = "destroy" /\ job'[j].pc = "destroy" /\ job[j].victims # {}
                 /\ Least(job[j].victims) \in job[j].victims
                 /\ \A v \in job[j].victims : Least(job[j].victims) <= v
                 /\ job'[j].victims = job[j].victims \ {Least(job[j].victims)}
                 /\ src' \in {src, src \ {Least(job[j].victims)}}
                 /\ (Fault("destroy") \/ UNCHANGED faults)
              \/ job[j].pc = "destroy" /\ job'[j].pc = "local"
                 /\ job'[j].victims = job[j].victims
                 /\ UNCHANGED <<src, faults>>
              \/ job[j].pc = "local" /\ job'[j].pc = "remote"
                 /\ job'[j].victims = job[j].victims
                 /\ UNCHANGED <<src, faults>>
           /\ job'[j].mem = job[j].mem /\ job'[j].todo = job[j].todo
              /\ job'[j].base = job[j].base
           /\ job'[j].snap = job[j].snap /\ job'[j].solo = job[j].solo
              /\ job'[j].ran = job[j].ran
           /\ job'[j].hit = job[j].hit /\ job'[j].bad = job[j].bad
           /\ UNCHANGED <<file, taken, dst, adm, unused, calm, strikes, admin>>
<1> DEFINE r == job[j]
           n == Len(taken)
           V == r.victims \ {Least(r.victims)}
           s1 == [r EXCEPT !.victims = V]
           s2 == [r EXCEPT !.pc = "local"]
           s3 == [r EXCEPT !.pc = "remote"]
<1>1. r \in JobRec(n) /\ Shape(r) /\ n \in Nat
  BY RecOf
<1>2. /\ UNCHANGED <<file, taken, dst, adm, unused, calm, strikes, admin>>
      /\ (\/ r.pc = "destroy" /\ r.victims # {} /\ job' = [job EXCEPT ![j] = s1]
             /\ src' \in {src, src \ {Least(r.victims)}}
                /\ (Fault("destroy") \/ UNCHANGED faults)
          \/ r.pc = "destroy" /\ job' = [job EXCEPT ![j] = s2] /\ UNCHANGED <<src, faults>>
          \/ r.pc = "local" /\ job' = [job EXCEPT ![j] = s3] /\ UNCHANGED <<src, faults>>)
  <2>1. CASE PruneDestroy(j)
    BY <2>1 DEF PruneDestroy
  <2>2. CASE PruneDone(j)
    BY <2>2 DEF PruneDone
  <2>3. CASE NoLocalReplication(j)
    BY <2>3 DEF NoLocalReplication
  <2> QED BY <2>1, <2>2, <2>3
<1>3. V \in SUBSET (1..n) /\ r.victims \in SUBSET Nat
  BY <1>1 DEF JobRec
<1>4. Len(taken') = n
  <2>1. taken' = taken
    BY <1>2
  <2> QED BY <2>1
<1>a. r.victims # {} => Least(r.victims) \in r.victims
/\ \A v \in r.victims : Least(r.victims) <= v
  BY <1>3, LeastNat
<1> HIDE DEF n, r, V
<1>5. /\ s1 \in JobRec(n) /\ s1.pc = r.pc /\ s1.victims = V
      /\ s1.mem = r.mem /\ s1.todo = r.todo /\ s1.base = r.base /\ s1.snap = r.snap
      /\ s1.solo = r.solo /\ s1.ran = r.ran /\ s1.hit = r.hit /\ s1.bad = r.bad
  BY <1>1, <1>3 DEF JobRec, Points
<1>6. \A s \in {s2, s3} :
      /\ s \in JobRec(n) /\ s.pc = (IF s = s2 THEN "local" ELSE "remote")
         /\ s.victims = r.victims
      /\ s.mem = r.mem /\ s.todo = r.todo /\ s.base = r.base /\ s.snap = r.snap
      /\ s.solo = r.solo /\ s.ran = r.ran /\ s.hit = r.hit /\ s.bad = r.bad
  BY <1>1 DEF JobRec, Points
<1>b. s2.pc = "local" /\ s3.pc = "remote"
  BY <1>1 DEF JobRec, Points
<1> HIDE DEF s1, s2, s3
<1>7. (r.pc \in {"destroy", "local"}) => Shape(s1) /\ Shape(s2) /\ Shape(s3)
  BY <1>1, <1>5, <1>6, <1>b DEF Shape, Working
<1>8. ASSUME NEW s \in {s1, s2, s3}, job' = [job EXCEPT ![j] = s],
             r.pc \in {"destroy", "local"}
      PROVE  JobsInv' /\ job'[j] = s /\ \A k \in Jobs \ {j} : job'[k] = job[k]
  <2>1. Len(taken') \in Nat /\ Len(taken) <= Len(taken') /\ s \in JobRec(Len(taken'))
        /\ Shape(s)
    BY <1>1, <1>4, <1>5, <1>6, <1>7, <1>8 DEF n
  <2> QED BY <1>8, <2>1, OneJob
<1>9. CASE /\ r.pc = "destroy" /\ r.victims # {} /\ job' = [job EXCEPT ![j] = s1]
           /\ src' \in {src, src \ {Least(r.victims)}}
              /\ (Fault("destroy") \/ UNCHANGED faults)
  BY <1>2, <1>5, <1>8, <1>9, <1>a DEF r, V
<1>10. CASE r.pc = "destroy" /\ job' = [job EXCEPT ![j] = s2] /\ UNCHANGED <<src, faults>>
  BY <1>2, <1>6, <1>8, <1>10, <1>b DEF r
<1>11. CASE r.pc = "local" /\ job' = [job EXCEPT ![j] = s3] /\ UNCHANGED <<src, faults>>
  BY <1>2, <1>6, <1>8, <1>11, <1>b DEF r
<1> QED BY <1>2, <1>9, <1>10, <1>11

(* A stream that is received brings its snapshot and keeps its base ... *)
LEMMA ReceivedIs ==
    ASSUME NEW n \in Nat, NEW S \in SUBSET (1..n), NEW D \in SUBSET (1..n), NEW base \in 0..n,
           NEW snap \in S, base <= snap, Receivable(D, base)
    PROVE  /\ Received(S, D, base, snap) \in SUBSET (1..n)
           /\ snap \in Received(S, D, base, snap)
           /\ base # 0 => base \in Received(S, D, base, snap)
<1>1. CASE base = 0
  BY <1>1 DEF Received
<1>2. CASE base # 0
  <2>1. base \in D
    BY <1>2 DEF Receivable
  <2>2. Received(S, D, base, snap) = {s \in D : s <= base} \cup {s \in S : base < s
        /\ s <= snap}
    BY <1>2 DEF Received
  <2>3. base \in {s \in D : s <= base}
    BY <2>1
  <2>4. base = snap \/ base < snap
    OBVIOUS
  <2>5. snap \in {s \in D : s <= base} \cup {s \in S : base < s /\ s <= snap}
    BY <2>3, <2>4
  <2> QED BY <2>2, <2>3, <2>5
<1> QED BY <1>1, <1>2

(* ... and a broken one keeps its base. *)
LEMMA BrokenIs ==
    ASSUME NEW n \in Nat, NEW S \in SUBSET (1..n), NEW D \in SUBSET (1..n), NEW base \in 0..n,
           NEW snap \in S, base <= snap, Receivable(D, base),
              NEW X \in Broken(S, D, base, snap)
    PROVE  X \in SUBSET (1..n) /\ (base # 0 => base \in X)
<1>1. CASE X = D
  BY <1>1 DEF Receivable
<1>2. CASE X # D
  <2>1. PICK s \in {t \in S : t <= snap /\ IF base = 0 THEN t = snap ELSE t >= base} :
          X = Received(S, D, base, s)
    BY <1>2 DEF Broken
  <2>2. s \in S /\ base <= s
    BY <2>1
  <2> QED BY <2>1, <2>2, ReceivedIs
<1> QED BY <1>1, <1>2

(* A stream that can flow goes from the dataset to a destination. *)
LEMMA FlowsIs == ASSUME TypeInv, NEW j \in Jobs, NEW to, Flows(j, to)
    PROVE  /\ job[j].pc \in {"local", "send"}
           /\ Target(j) \in Dest /\ job[j].snap \in src /\ job[j].snap \in 1..Len(taken)
           /\ StreamBase(j) \in 0..Len(taken) /\ StreamBase(j) <= job[j].snap
           /\ StreamBase(j) \in src \cup {0}
           /\ Receivable(to[Target(j)], StreamBase(j))
<1>1. job[j].pc \in {"local", "send"} /\ Target(j) # NoDest /\ job[j].snap \in src
      /\ StreamBase(j) \in src \cup {0} /\ Receivable(to[Target(j)], StreamBase(j))
  BY DEF Flows, Sendable
<1>2. job[j] \in JobRec(Len(taken)) /\ Shape(job[j]) /\ Len(taken) \in Nat
  BY RecOf
<1>3. /\ Cur(j).form.local \in Dest \cup {NoDest} /\ Cur(j).form.remote \in Dest \cup {NoDest}
      /\ At(j) \in 1..Len(job[j].mem) /\ Cur(j) = job[j].mem[At(j)]
      /\ Cur(j).lastLocal \in 0..Len(taken)
  BY <1>1, CurIs
<1>4. Cur(j).lastLocal <= job[j].snap
  BY <1>1, <1>2, <1>3 DEF Shape, Working
<1>5. job[j].base \in 0..Len(taken) /\ job[j].snap \in 0..Len(taken)
  BY <1>2 DEF JobRec
<1>6. job[j].pc = "send" => job[j].base <= job[j].snap
  BY <1>2, <1>5 DEF Shape
<1>7. src \subseteq 1..Len(taken)
  BY DEF TypeInv, Store
<1>8. StreamBase(j) \in 0..Len(taken) /\ StreamBase(j) <= job[j].snap
  BY <1>1, <1>3, <1>4, <1>5, <1>6 DEF StreamBase
<1>9. Target(j) \in Dest
  BY <1>1, <1>3 DEF Target
<1> QED BY <1>1, <1>7, <1>8, <1>9

(* What is on the destinations once the stream of j has arrived, *)
LEMMA ArrivedIs == ASSUME TypeInv, NEW j \in Jobs, Flows(j, dst)
    PROVE  /\ Arrived(j) \in [Dest -> SUBSET (1..Len(taken))]
           /\ \A d \in Dest : d # Target(j) => Arrived(j)[d] = dst[d]
           /\ job[j].snap \in Arrived(j)[Target(j)]
           /\ StreamBase(j) # 0 => StreamBase(j) \in Arrived(j)[Target(j)]
<1>1. dst \in [Dest -> SUBSET (1..Len(taken))] /\ src \in SUBSET (1..Len(taken))
      /\ Len(taken) \in Nat
  BY RecOf DEF TypeInv, Store
<1> DEFINE b == StreamBase(j)
           d == Target(j)
           R == Received(src, dst[d], b, job[j].snap)
<1>2. d \in Dest /\ job[j].snap \in src /\ b \in 0..Len(taken) /\ b <= job[j].snap
      /\ Receivable(dst[d], b)
  BY FlowsIs
<1>a. dst[d] \in SUBSET (1..Len(taken))
  BY <1>1, <1>2
<1> HIDE DEF b, d
<1>3. R \in SUBSET (1..Len(taken)) /\ job[j].snap \in R /\ (b # 0 => b \in R)
  <2>1. PICK k \in Nat : k = Len(taken)
    BY <1>1
  <2>2. PICK D \in SUBSET (1..k) : D = dst[d]
    BY <1>a, <2>1
  <2>3. PICK S \in SUBSET (1..k) : S = src
    BY <1>1, <2>1
  <2>4. PICK t \in S : t = job[j].snap
    BY <1>2, <2>3
  <2>5. b \in 0..k /\ b <= t /\ Receivable(D, b)
    BY <1>2, <2>1, <2>2, <2>4
  <2>6. Received(S, D, b, t) \in SUBSET (1..k) /\ t \in Received(S, D, b, t)
        /\ (b # 0 => b \in Received(S, D, b, t))
    BY <2>5, ReceivedIs
  <2> QED BY <2>1, <2>2, <2>3, <2>4, <2>6
<1>4. Arrived(j) = [dst EXCEPT ![d] = R]
  BY DEF Arrived, b, d
<1> HIDE DEF R
<1>5. /\ Arrived(j) \in [Dest -> SUBSET (1..Len(taken))] /\ Arrived(j)[d] = R
      /\ \A e \in Dest : e # d => Arrived(j)[e] = dst[e]
  BY <1>1, <1>2, <1>3, <1>4
<1> QED BY <1>3, <1>5 DEF b, d

(* or was cut. *)
LEMMA CutIs ==
  ASSUME TypeInv, NEW j \in Jobs, NEW to \in [Dest -> SUBSET (1..Len(taken))],
         NEW D \in Cut(j, to)
    PROVE  /\ D \in [Dest -> SUBSET (1..Len(taken))]
           /\ \A d \in Dest : \/ D[d] = to[d]
                              \/ Flows(j, to) /\ d = Target(j)
                                 /\ (StreamBase(j) # 0 => StreamBase(j) \in D[d])
<1>1. CASE ~Flows(j, to)
  BY <1>1 DEF Cut
<1>2. CASE Flows(j, to)
  <2>1. src \in SUBSET (1..Len(taken)) /\ Len(taken) \in Nat
    BY RecOf DEF TypeInv, Store
  <2> DEFINE b == StreamBase(j)
             d == Target(j)
  <2>2. d \in Dest /\ job[j].snap \in src /\ b \in 0..Len(taken) /\ b <= job[j].snap
        /\ Receivable(to[d], b)
    BY <1>2, FlowsIs
  <2>3. PICK X \in Broken(src, to[d], b, job[j].snap) : D = [to EXCEPT ![d] = X]
    BY <1>2 DEF Cut
  <2>4. X \in SUBSET (1..Len(taken)) /\ (b # 0 => b \in X)
    BY <2>1, <2>2, BrokenIs
  <2> HIDE DEF b, d
  <2>5. /\ D \in [Dest -> SUBSET (1..Len(taken))] /\ D[d] = X
        /\ \A e \in Dest : e # d => D[e] = to[e]
    BY <2>2, <2>3, <2>4
  <2> QED BY <1>2, <2>4, <2>5 DEF b, d
<1> QED BY <1>1, <1>2

(* RunLocalReplication, *)
LEMMA LocalIs == ASSUME TypeInv, NEW j \in Jobs, RunLocalReplication(j)
    PROVE  /\ JobsInv' /\ \A k \in Jobs \ {j} : job'[k] = job[k]
           /\ job[j].pc = "local" /\ job'[j].pc = "remote" /\ Cur(j).form.local # NoDest
           /\ Len(job'[j].mem) = Len(job[j].mem)
           /\ \A i \in 1..Len(job[j].mem) : i # At(j) => job'[j].mem[i] = job[j].mem[i]
           /\ LET e == job'[j].mem[At(j)]
              IN /\ e.id = Cur(j).id /\ e.form = Cur(j).form /\ e.lastRep = Cur(j).lastRep
                 /\ \/ e.lastLocal = job[j].snap /\ Flows(j, dst) /\ dst' = Arrived(j)
                    \/ e.lastLocal = Cur(j).lastLocal /\ dst' \in Cut(j, dst)
           /\ job'[j].todo = job[j].todo /\ job'[j].base = job[j].base
           /\ job'[j].snap = job[j].snap /\ job'[j].solo = job[j].solo
              /\ job'[j].ran = job[j].ran
           /\ job'[j].hit = job[j].hit /\ job'[j].bad = job[j].bad
              /\ job'[j].victims = job[j].victims
           /\ UNCHANGED <<file, taken, src, adm, unused, calm, strikes, admin>>
           /\ (Fault("send") \/ UNCHANGED faults)
<1> DEFINE r == job[j]
           n == Len(taken)
           Sent(last) == job' = [job EXCEPT ![j].pc = "remote",
              ![j].mem[At(j)].lastLocal = last]
<1>1. /\ r \in JobRec(n) /\ Shape(r) /\ n \in Nat
      /\ r.mem \in Seq(Entries(n)) /\ Len(r.mem) \in Nat /\ DOMAIN r.mem = 1..Len(r.mem)
  BY RecOf
<1>2. r.pc = "local" /\ Cur(j).form.local # NoDest
  BY DEF RunLocalReplication
<1>3. /\ UNCHANGED <<file, taken, src, adm, unused, calm, strikes, admin>>
      /\ (Fault("send") \/ UNCHANGED faults)
      /\ \/ Flows(j, dst) /\ Sent(r.snap) /\ dst' = Arrived(j)
         \/ ~Flows(j, dst) /\ Sent(Cur(j).lastLocal) /\ UNCHANGED dst
         \/ Sent(Cur(j).lastLocal) /\ dst' \in Cut(j, dst)
  BY DEF RunLocalReplication
<1>4. ~Flows(j, dst) => Cut(j, dst) = {dst}
  BY DEF Cut
<1>5. \E last \in {r.snap, Cur(j).lastLocal} :
        /\ Sent(last)
        /\ \/ last = r.snap /\ Flows(j, dst) /\ dst' = Arrived(j)
           \/ last = Cur(j).lastLocal /\ dst' \in Cut(j, dst)
  BY <1>3, <1>4
<1>6. PICK last \in {r.snap, Cur(j).lastLocal} :
        /\ Sent(last)
        /\ \/ last = r.snap /\ Flows(j, dst) /\ dst' = Arrived(j)
           \/ last = Cur(j).lastLocal /\ dst' \in Cut(j, dst)
  BY <1>5
<1>7. /\ At(j) \in 1..Len(r.mem) /\ Cur(j) = r.mem[At(j)] /\ Cur(j) \in Entries(n)
      /\ Cur(j).lastLocal \in 0..n
  BY <1>2, CurIs
<1>8. r.snap \in 0..n
  BY <1>1 DEF JobRec
<1>9. last \in 0..n
  BY <1>6, <1>7, <1>8
<1> DEFINE e == [Cur(j) EXCEPT !.lastLocal = last]
           m == [r.mem EXCEPT ![At(j)] = e]
           s == [r EXCEPT !.pc = "remote", !.mem = m]
<1>10. job \in [Jobs -> JobRec(n)]
  BY DEF TypeInv, JobsInv
<1>11. job' = [job EXCEPT ![j] = s]
  BY <1>1, <1>6, <1>7, <1>10
<1>12. /\ e \in Entries(n) /\ e.id = Cur(j).id /\ e.form = Cur(j).form /\ e.lastLocal = last
       /\ e.lastRep = Cur(j).lastRep
  BY <1>1, <1>7, <1>9 DEF Entries
<1> HIDE DEF e
<1>13. /\ m \in Seq(Entries(n)) /\ Len(m) = Len(r.mem) /\ m[At(j)] = e
       /\ \A i \in 1..Len(r.mem) : i # At(j) => m[i] = r.mem[i]
  BY <1>1, <1>7, <1>12, SetEntry
<1> HIDE DEF m
<1>14. taken' = taken
  BY <1>3
<1> HIDE DEF r, n
<1>15. /\ s \in JobRec(n) /\ s.pc = "remote" /\ s.mem = m
       /\ s.todo = r.todo /\ s.base = r.base /\ s.snap = r.snap /\ s.victims = r.victims
       /\ s.solo = r.solo /\ s.ran = r.ran /\ s.hit = r.hit /\ s.bad = r.bad
  BY <1>1, <1>13 DEF JobRec, Points
<1> HIDE DEF s
<1>16. Shape(s)
  <2>1. \A i \in 1..Len(r.mem) : r.mem[i].lastRep < r.snap /\ r.mem[i].lastLocal <= r.snap
    BY <1>1, <1>2 DEF Shape, Working
  <2>2. \A i \in 1..Len(m) : m[i].lastRep < r.snap /\ m[i].lastLocal <= r.snap
    BY <2>1, <1>6, <1>7, <1>8, <1>12, <1>13
  <2> QED BY <1>1, <1>2, <1>13, <1>15, <2>2 DEF Shape, Working
<1>17. JobsInv' /\ job'[j] = s /\ \A k \in Jobs \ {j} : job'[k] = job[k]
  <2>1. Len(taken') \in Nat /\ Len(taken) <= Len(taken') /\ s \in JobRec(Len(taken'))
        /\ Shape(s)
    BY <1>1, <1>14, <1>15, <1>16 DEF n
  <2> QED BY <2>1, <1>11, OneJob
<1> QED BY <1>2, <1>3, <1>6, <1>12, <1>13, <1>15, <1>17 DEF r

(* PrepareReplication, *)
LEMMA PrepareIs == ASSUME TypeInv, NEW j \in Jobs, PrepareReplication(j)
    PROVE  /\ JobsInv' /\ \A k \in Jobs \ {j} : job'[k] = job[k]
           /\ job[j].pc = "remote" /\ job'[j].pc = "send" /\ Cur(j).form.remote # NoDest
           /\ job'[j].base = IncrementalBase(Cur(j).lastRep)
           /\ \/ /\ job'[j].base = 0 /\ dst' = [dst EXCEPT ![Cur(j).form.remote] = {}]
                 /\ job'[j].hit = job[j].hit
              \/ job'[j].base # 0 /\ dst' = dst /\ job'[j].hit = job[j].hit
              \/ job'[j].base = 0 /\ dst' = dst /\ job'[j].hit = TRUE
           /\ job'[j].mem = job[j].mem /\ job'[j].todo = job[j].todo
           /\ job'[j].snap = job[j].snap /\ job'[j].solo = job[j].solo
              /\ job'[j].ran = job[j].ran
           /\ job'[j].bad = job[j].bad /\ job'[j].victims = job[j].victims
           /\ UNCHANGED <<file, taken, src, adm, unused, calm, strikes, admin>>
           /\ (Fault("clean") \/ UNCHANGED faults)
<1> DEFINE r == job[j]
           n == Len(taken)
           b == IncrementalBase(Cur(j).lastRep)
           s1 == [r EXCEPT !.pc = "send", !.base = b]
           s2 == [r EXCEPT !.pc = "send", !.base = b, !.hit = TRUE]
<1>1. r \in JobRec(n) /\ Shape(r) /\ n \in Nat
  BY RecOf
<1>2. /\ r.pc = "remote" /\ Cur(j).form.remote # NoDest
      /\ UNCHANGED <<file, taken, src, adm, unused, calm, strikes, admin>>
      /\ (Fault("clean") \/ UNCHANGED faults)
      /\ \/ /\ job' = [job EXCEPT ![j] = s1]
            /\ dst' = IF b = 0 THEN [dst EXCEPT ![Cur(j).form.remote] = {}] ELSE dst
         \/ b = 0 /\ job' = [job EXCEPT ![j] = s2] /\ dst' = dst
  BY DEF PrepareReplication
<1>3. /\ Cur(j).lastRep \in 0..n /\ At(j) \in 1..Len(r.mem) /\ Cur(j) = r.mem[At(j)]
  BY <1>2, CurIs
<1>4. Cur(j).lastRep < r.snap
  BY <1>1, <1>2, <1>3 DEF Shape, Working
<1>5. r.snap \in 0..n
  BY <1>1 DEF JobRec
<1>6. b \in 0..n /\ b < r.snap
  BY <1>1, <1>3, <1>4, <1>5 DEF IncrementalBase
<1>7. Len(taken') = n
  <2>1. taken' = taken
    BY <1>2
  <2> QED BY <2>1
<1> HIDE DEF n, r, b
<1>8. /\ s1 \in JobRec(n) /\ s1.pc = "send" /\ s1.base = b /\ s1.hit = r.hit
      /\ s1.mem = r.mem /\ s1.todo = r.todo /\ s1.snap = r.snap /\ s1.victims = r.victims
      /\ s1.solo = r.solo /\ s1.ran = r.ran /\ s1.bad = r.bad
  BY <1>1, <1>6 DEF JobRec, Points
<1>9. /\ s2 \in JobRec(n) /\ s2.pc = "send" /\ s2.base = b /\ s2.hit = TRUE
      /\ s2.mem = r.mem /\ s2.todo = r.todo /\ s2.snap = r.snap /\ s2.victims = r.victims
      /\ s2.solo = r.solo /\ s2.ran = r.ran /\ s2.bad = r.bad
  BY <1>1, <1>6 DEF JobRec, Points
<1> HIDE DEF s1, s2
<1>10. Shape(s1) /\ Shape(s2)
  <2>1. r.pc = "remote"
    BY <1>2
  <2> QED BY <1>1, <1>6, <1>8, <1>9, <2>1 DEF Shape, Working
<1>11. ASSUME NEW s \in {s1, s2}, job' = [job EXCEPT ![j] = s]
       PROVE  JobsInv' /\ job'[j] = s /\ \A k \in Jobs \ {j} : job'[k] = job[k]
  <2>1. Len(taken') \in Nat /\ Len(taken) <= Len(taken') /\ s \in JobRec(Len(taken'))
        /\ Shape(s)
    BY <1>1, <1>7, <1>8, <1>9, <1>10 DEF n
  <2> QED BY <1>11, <2>1, OneJob
<1>12. CASE /\ job' = [job EXCEPT ![j] = s1]
            /\ dst' = IF b = 0 THEN [dst EXCEPT ![Cur(j).form.remote] = {}] ELSE dst
  BY <1>2, <1>8, <1>11, <1>12 DEF r, b
<1>13. CASE b = 0 /\ job' = [job EXCEPT ![j] = s2] /\ dst' = dst
  BY <1>2, <1>9, <1>11, <1>13 DEF r, b
<1> QED BY <1>2, <1>12, <1>13

(* RunReplication, *)
LEMMA SendIs == ASSUME TypeInv, NEW j \in Jobs, RunReplication(j)
    PROVE  /\ JobsInv' /\ \A k \in Jobs \ {j} : job'[k] = job[k]
           /\ job[j].pc = "send" /\ job'[j].pc \in {"save", "snapshot"}
           /\ Len(job'[j].mem) = Len(job[j].mem)
           /\ \A i \in 1..Len(job[j].mem) : i # At(j) => job'[j].mem[i] = job[j].mem[i]
           /\ job'[j].mem[At(j)].id = Cur(j).id /\ job'[j].mem[At(j)].form = Cur(j).form
           /\ job'[j].mem[At(j)].lastLocal = Cur(j).lastLocal
           /\ \/ /\ job'[j].mem[At(j)].lastRep = job[j].snap /\ job'[j].bad = job[j].bad
                 /\ Flows(j, dst) /\ dst' = Arrived(j)
              \/ /\ job'[j].mem[At(j)].lastRep = 0 /\ ~Flows(j, dst) /\ dst' = dst
                 /\ job'[j].bad = IF job[j].hit THEN job[j].bad ELSE job[j].bad \cup {Cur(j).id}
              \/ /\ job'[j].mem[At(j)].lastRep = 0 /\ job'[j].bad = job[j].bad
                 /\ dst' \in Cut(j, dst)
           /\ job'[j].todo = job[j].todo \ {At(j)} /\ job'[j].base = job[j].base
           /\ job'[j].snap = job[j].snap /\ job'[j].solo = job[j].solo
              /\ job'[j].ran = job[j].ran
           /\ job'[j].hit = FALSE /\ job'[j].victims = job[j].victims
           /\ UNCHANGED <<file, taken, src, adm, unused, calm, strikes, admin>>
           /\ (Fault("send") \/ UNCHANGED faults)
<1> DEFINE r == job[j]
           n == Len(taken)
           E(ok) == AfterSend(Cur(j), ok, r.snap)
           W(ok, bad) == [r EXCEPT !.mem[At(j)] = E(ok), !.bad = bad]
           nb == IF r.hit THEN r.bad ELSE r.bad \cup {Cur(j).id}
<1>1. /\ r \in JobRec(n) /\ Shape(r) /\ n \in Nat
      /\ r.mem \in Seq(Entries(n)) /\ Len(r.mem) \in Nat /\ DOMAIN r.mem = 1..Len(r.mem)
  BY RecOf
<1>2. /\ r.pc = "send"
      /\ UNCHANGED <<file, taken, src, adm, unused, calm, strikes, admin>>
      /\ (Fault("send") \/ UNCHANGED faults)
      /\ \/ job' = [job EXCEPT ![j] = Advance(W(TRUE, r.bad))] /\ Flows(j, dst)
            /\ dst' = Arrived(j)
         \/ job' = [job EXCEPT ![j] = Advance(W(FALSE, nb))] /\ ~Flows(j, dst) /\ dst' = dst
         \/ job' = [job EXCEPT ![j] = Advance(W(FALSE, r.bad))] /\ dst' \in Cut(j, dst)
  <2>1. /\ r.pc = "send"
        /\ UNCHANGED <<file, taken, src, adm, unused, calm, strikes, admin>>
        /\ (Fault("send") \/ UNCHANGED faults)
    BY DEF RunReplication
  <2>2. \/ job' = [job EXCEPT ![j] = Advance(W(TRUE, r.bad))] /\ Flows(j, dst)
           /\ dst' = Arrived(j)
        \/ job' = [job EXCEPT ![j] = Advance(W(FALSE, nb))] /\ ~Flows(j, dst) /\ dst' = dst
        \/ job' = [job EXCEPT ![j] = Advance(W(FALSE, r.bad))] /\ dst' \in Cut(j, dst)
    BY DEF RunReplication
  <2> QED BY <2>1, <2>2
<1>3. /\ At(j) = Least(r.todo) /\ At(j) \in 1..Len(r.mem) /\ Cur(j) = r.mem[At(j)]
         /\ Cur(j) \in Entries(n)
      /\ Cur(j).id \in Policy
  BY <1>2, CurIs
<1>4. r.snap \in 0..n /\ r.bad \in SUBSET Policy /\ nb \in SUBSET Policy
  BY <1>1, <1>3 DEF JobRec
<1> DEFINE e(x) == [Cur(j) EXCEPT !.lastRep = x]
           m(x) == [r.mem EXCEPT ![At(j)] = e(x)]
           w(x, bad) == [r EXCEPT !.mem = m(x), !.bad = bad]
<1>5. /\ W(TRUE, r.bad) = w(r.snap, r.bad)
      /\ W(FALSE, r.bad) = w(0, r.bad)
      /\ W(FALSE, nb) = w(0, nb)
  BY <1>1, <1>3 DEF AfterSend, JobRec
<1>6. \E x \in {0, r.snap} : \E bad \in {r.bad, nb} :
        /\ job' = [job EXCEPT ![j] = Advance(w(x, bad))]
        /\ \/ x = r.snap /\ bad = r.bad /\ Flows(j, dst) /\ dst' = Arrived(j)
           \/ x = 0 /\ bad = nb /\ ~Flows(j, dst) /\ dst' = dst
           \/ x = 0 /\ bad = r.bad /\ dst' \in Cut(j, dst)
  BY <1>2, <1>5
<1>7. PICK x \in {0, r.snap}, bad \in {r.bad, nb} :
        /\ job' = [job EXCEPT ![j] = Advance(w(x, bad))]
        /\ \/ x = r.snap /\ bad = r.bad /\ Flows(j, dst) /\ dst' = Arrived(j)
           \/ x = 0 /\ bad = nb /\ ~Flows(j, dst) /\ dst' = dst
           \/ x = 0 /\ bad = r.bad /\ dst' \in Cut(j, dst)
  BY <1>6
<1>8. x \in 0..n /\ bad \in SUBSET Policy /\ x \in Nat /\ r.snap \in Nat
  BY <1>1, <1>4
<1>9. taken' = taken
  BY <1>2
<1> DEFINE ee == e(x)
           mm == m(x)
           ww == w(x, bad)
<1> HIDE DEF W, nb
<1>10. /\ ee \in Entries(n) /\ ee.id = Cur(j).id /\ ee.form = Cur(j).form /\ ee.lastRep = x
       /\ ee.lastLocal = Cur(j).lastLocal
  BY <1>1, <1>3, <1>8 DEF Entries
<1>11. mm = [r.mem EXCEPT ![At(j)] = ee]
  OBVIOUS
<1> HIDE DEF ee, e
<1>12. /\ mm \in Seq(Entries(n)) /\ Len(mm) = Len(r.mem) /\ mm[At(j)] = ee
       /\ \A i \in 1..Len(r.mem) : i # At(j) => mm[i] = r.mem[i]
  BY <1>1, <1>3, <1>10, <1>11, SetEntry
<1>13. ww = [r EXCEPT !.mem = mm, !.bad = bad]
  OBVIOUS
<1> HIDE DEF mm, m
<1> HIDE DEF r, n
<1>14. /\ ww \in JobRec(n) /\ ww.pc = r.pc /\ ww.mem = mm /\ ww.bad = bad
       /\ ww.todo = r.todo /\ ww.base = r.base /\ ww.snap = r.snap /\ ww.victims = r.victims
       /\ ww.solo = r.solo /\ ww.ran = r.ran /\ ww.hit = r.hit
  BY <1>1, <1>8, <1>12, <1>13 DEF JobRec, Points
<1>15. job' = [job EXCEPT ![j] = Advance(ww)]
  BY <1>7
<1> HIDE DEF ww, w
<1>16. r.todo \subseteq 1..Len(r.mem) /\ r.todo # {}
  <2>1. r.pc = "send"
    BY <1>2
  <2> QED BY <1>1, <2>1 DEF Shape
<1>17. /\ Advance(ww) \in JobRec(n) /\ Shape(Advance(ww))
          /\ Advance(ww).pc \in {"save", "snapshot"}
       /\ Advance(ww).todo = ww.todo \ {Least(ww.todo)} /\ Advance(ww).hit = FALSE
       /\ Advance(ww).mem = ww.mem /\ Advance(ww).snap = ww.snap /\ Advance(ww).base = ww.base
       /\ Advance(ww).victims = ww.victims /\ Advance(ww).solo = ww.solo
       /\ Advance(ww).bad = ww.bad /\ Advance(ww).ran = ww.ran
  BY <1>1, <1>12, <1>14, <1>16, AdvanceIs
<1>18. JobsInv' /\ job'[j] = Advance(ww) /\ \A k \in Jobs \ {j} : job'[k] = job[k]
  <2>1. Len(taken') \in Nat /\ Len(taken) <= Len(taken') /\ Advance(ww) \in JobRec(Len(taken'))
    BY <1>1, <1>9, <1>17 DEF n
  <2> QED BY <2>1, <1>15, <1>17, OneJob
<1>19. \/ job'[j].mem[At(j)].lastRep = r.snap /\ job'[j].bad = r.bad /\ Flows(j, dst)
          /\ dst' = Arrived(j)
       \/ job'[j].mem[At(j)].lastRep = 0 /\ job'[j].bad = nb /\ ~Flows(j, dst) /\ dst' = dst
       \/ job'[j].mem[At(j)].lastRep = 0 /\ job'[j].bad = r.bad /\ dst' \in Cut(j, dst)
  BY <1>7, <1>10, <1>12, <1>14, <1>17, <1>18
<1>20. /\ job'[j].pc \in {"save", "snapshot"} /\ Len(job'[j].mem) = Len(r.mem)
       /\ \A i \in 1..Len(r.mem) : i # At(j) => job'[j].mem[i] = r.mem[i]
       /\ job'[j].mem[At(j)].id = Cur(j).id /\ job'[j].mem[At(j)].form = Cur(j).form
       /\ job'[j].mem[At(j)].lastLocal = Cur(j).lastLocal
       /\ job'[j].todo = r.todo \ {At(j)} /\ job'[j].base = r.base
       /\ job'[j].snap = r.snap /\ job'[j].solo = r.solo /\ job'[j].ran = r.ran
       /\ job'[j].hit = FALSE /\ job'[j].victims = r.victims
  BY <1>3, <1>10, <1>12, <1>14, <1>17, <1>18
<1> QED BY <1>2, <1>18, <1>19, <1>20 DEF r, nb

(* SavePolicies. *)
LEMMA SaveIs == ASSUME TypeInv, NEW j \in Jobs, SavePolicies(j)
    PROVE  /\ JobsInv' /\ \A k \in Jobs \ {j} : job'[k] = job[k]
           /\ job[j].pc = "save" /\ job'[j] = Idle
           /\ \/ file' = job[j].mem /\ strikes' = Struck(job[j], TRUE)
              \/ file' = file /\ strikes' = Struck(job[j], FALSE)
           /\ file' \in Seq(Entries(Len(taken)))
           /\ UNCHANGED <<taken, src, dst, adm, unused, calm, admin>>
           /\ (Fault("save") \/ UNCHANGED faults)
<1>1. /\ job[j].pc = "save" /\ job' = [job EXCEPT ![j] = Idle]
      /\ \/ file' = job[j].mem /\ strikes' = Struck(job[j], TRUE)
         \/ file' = file /\ strikes' = Struck(job[j], FALSE)
      /\ UNCHANGED <<taken, src, dst, adm, unused, calm, admin>>
      /\ (Fault("save") \/ UNCHANGED faults)
  BY DEF SavePolicies
<1>2. Len(taken) \in Nat /\ job[j].mem \in Seq(Entries(Len(taken)))
  BY RecOf
<1>3. Idle \in JobRec(Len(taken)) /\ Shape(Idle)
  BY <1>2, IdleIs
<1>4. taken' = taken
  BY <1>1
<1>5. JobsInv' /\ job'[j] = Idle /\ \A k \in Jobs \ {j} : job'[k] = job[k]
  <2>1. Len(taken') \in Nat /\ Len(taken) <= Len(taken') /\ Idle \in JobRec(Len(taken'))
    BY <1>2, <1>3, <1>4
  <2>2. job' = [job EXCEPT ![j] = Idle]
    BY <1>1
  <2> QED BY <2>1, <2>2, <1>3, OneJob
<1>6. file' \in Seq(Entries(Len(taken)))
  BY <1>1, <1>2 DEF TypeInv, FileInv
<1> QED BY <1>1, <1>5, <1>6

(***************************************************************************)
(* Begin, edits and the rest of the world, field by field.                 *)
(***************************************************************************)
(* Joined changes only who has the file to itself. *)
LEMMA JoinedIs == ASSUME TypeInv
    PROVE  /\ Joined \in [Jobs -> JobRec(Len(taken))]
           /\ \A k \in Jobs :
                /\ Joined[k] \in JobRec(Len(taken)) /\ Shape(Joined[k])
                   /\ Joined[k].solo = FALSE
                /\ Joined[k].pc = job[k].pc /\ Joined[k].mem = job[k].mem
                /\ Joined[k].todo = job[k].todo /\ Joined[k].snap = job[k].snap
                /\ Joined[k].base = job[k].base /\ Joined[k].victims = job[k].victims
                /\ Joined[k].hit = job[k].hit /\ Joined[k].bad = job[k].bad
                /\ Joined[k].ran = job[k].ran
<1>1. ASSUME NEW k \in Jobs
      PROVE  /\ Joined[k] \in JobRec(Len(taken)) /\ Shape(Joined[k]) /\ Joined[k].solo = FALSE
             /\ Joined[k].pc = job[k].pc /\ Joined[k].mem = job[k].mem
             /\ Joined[k].todo = job[k].todo /\ Joined[k].snap = job[k].snap
             /\ Joined[k].base = job[k].base /\ Joined[k].victims = job[k].victims
             /\ Joined[k].hit = job[k].hit /\ Joined[k].bad = job[k].bad
             /\ Joined[k].ran = job[k].ran
  <2> DEFINE r == job[k]
             n == Len(taken)
             s == [r EXCEPT !.solo = FALSE]
  <2>1. r \in JobRec(n) /\ Shape(r) /\ n \in Nat
    BY RecOf
  <2>2. Joined[k] = s
    BY DEF Joined
  <2> HIDE DEF r, n
  <2>3. /\ s \in JobRec(n) /\ s.solo = FALSE /\ s.pc = r.pc /\ s.mem = r.mem /\ s.todo = r.todo
        /\ s.snap = r.snap /\ s.base = r.base /\ s.victims = r.victims
        /\ s.hit = r.hit /\ s.bad = r.bad /\ s.ran = r.ran
    BY <2>1 DEF JobRec
  <2> HIDE DEF s
  <2>4. Shape(s)
    BY <2>1, <2>3 DEF Shape
  <2> QED BY <2>2, <2>3, <2>4 DEF r, n
<1>2. Joined \in [Jobs -> JobRec(Len(taken))]
  <2>1. Joined = [k \in Jobs |-> Joined[k]]
    BY DEF Joined
  <2> QED BY <1>1, <2>1
<1> QED BY <1>1, <1>2

(* It keeps the type of the jobs. *)
LEMMA JoinInv == ASSUME TypeInv, job' = Joined, taken' = taken PROVE JobsInv'
<1>1. \A k \in Jobs : Shape(job'[k])
  BY JoinedIs
<1>2. job' \in [Jobs -> JobRec(Len(taken'))]
  BY JoinedIs
<1> QED BY <1>1, <1>2 DEF JobsInv

(* Begin, field by field. *)
LEMMA BeginIs ==
  ASSUME TypeInv, NEW j \in Jobs, NEW todo \in SUBSET DOMAIN file, todo # {}, Begin(j, todo)
    PROVE  /\ JobsInv'
           /\ job[j].pc = "idle" /\ job'[j].pc = "snapshot" /\ job'[j].mem = file
              /\ job'[j].todo = todo
           /\ job'[j].solo = Quiet /\ job'[j].snap = 0 /\ job'[j].base = 0
              /\ job'[j].victims = {}
           /\ job'[j].hit = FALSE /\ job'[j].bad = {} /\ job'[j].ran = {}
           /\ \A k \in Jobs \ {j} : job'[k] = Joined[k]
           /\ adm' \in AdmRec(Len(taken)) /\ adm'.pc = adm.pc /\ adm'.mem = adm.mem
              /\ adm'.solo = FALSE
           /\ calm' = (calm /\ Quiet)
           /\ UNCHANGED <<file, taken, src, dst, unused, strikes, faults>>
<1> DEFINE n == Len(taken)
           s == [Idle EXCEPT !.pc = "snapshot", !.mem = file, !.todo = todo, !.solo = Quiet]
<1>1. /\ job[j].pc = "idle" /\ job' = [Joined EXCEPT ![j] = s]
      /\ adm' = [adm EXCEPT !.solo = FALSE]
      /\ calm' = (calm /\ Quiet)
      /\ UNCHANGED <<file, taken, src, dst, unused, strikes, faults>>
  BY DEF Begin
<1>2. n \in Nat /\ file \in Seq(Entries(n)) /\ adm \in AdmRec(n)
  BY RecOf DEF TypeInv, FileInv, Jobs
<1>3. Len(file) \in Nat /\ DOMAIN file = 1..Len(file) /\ todo \in SUBSET Nat
  BY <1>2, LenProperties
<1>4. Quiet \in BOOLEAN
  BY DEF Quiet
<1>5. Idle \in JobRec(n)
  BY <1>2, IdleIs
<1> HIDE DEF n
<1>6. /\ s \in JobRec(n) /\ s.pc = "snapshot" /\ s.mem = file /\ s.todo = todo
         /\ s.solo = Quiet
      /\ s.snap = 0 /\ s.base = 0 /\ s.victims = {} /\ s.hit = FALSE /\ s.bad = {}
         /\ s.ran = {}
  <2>1. Idle.snap = 0 /\ Idle.base = 0 /\ Idle.victims = {} /\ Idle.hit = FALSE
        /\ Idle.bad = {} /\ Idle.ran = {}
    BY DEF Idle
  <2>2. /\ s \in JobRec(n) /\ s.pc = "snapshot" /\ s.mem = file /\ s.todo = todo
           /\ s.solo = Quiet
        /\ s.snap = Idle.snap /\ s.base = Idle.base /\ s.victims = Idle.victims
        /\ s.hit = Idle.hit /\ s.bad = Idle.bad /\ s.ran = Idle.ran
    BY <1>2, <1>3, <1>4, <1>5 DEF JobRec, Points
  <2> QED BY <2>1, <2>2
<1> HIDE DEF s
<1>7. Shape(s)
  BY <1>3, <1>6 DEF Shape, Working
<1>8. \A k \in Jobs : job'[k] = IF k = j THEN s ELSE Joined[k]
  BY <1>1, JoinedIs
<1>9. job' \in [Jobs -> JobRec(n)]
  BY <1>1, <1>6, JoinedIs DEF n
<1>10. JobsInv'
  <2>1. \A k \in Jobs : Shape(job'[k])
    BY <1>7, <1>8, JoinedIs
  <2>2. Len(taken') = n
    <3>1. taken' = taken
      BY <1>1
    <3> QED BY <3>1 DEF n
  <2> QED BY <1>9, <2>1, <2>2 DEF JobsInv
<1>11. /\ adm' \in AdmRec(n) /\ adm'.pc = adm.pc /\ adm'.mem = adm.mem /\ adm'.solo = FALSE
  BY <1>1, <1>2 DEF AdmRec
<1>12. \A k \in Jobs \ {j} : job'[k] = Joined[k]
  BY <1>8
<1>13. job'[j] = s
  BY <1>8
<1> QED BY <1>1, <1>6, <1>10, <1>11, <1>12, <1>13 DEF n

(* A new policy has no run state. *)
LEMMA NewEntry == ASSUME NEW n \in Nat, NEW p \in Policy, NEW f \in Forms[p]
    PROVE  /\ Entry(p, f) \in Entries(n) /\ Entry(p, f).id = p /\ Entry(p, f).form = f
           /\ Entry(p, f).lastRep = 0 /\ Entry(p, f).lastLocal = 0
<1>1. f \in Form
  BY ScheduleAssumption DEF ScheduleAssumption
<1>2. 0 \in 0..n
  OBVIOUS
<1> QED BY <1>1, <1>2 DEF Entry, Entries

(* The settings come from the admin, the run state from the file. *)
Derived(list) ==
  /\ \A i \in 1..Len(list) :
       \/ list[i].lastRep = 0 /\ list[i].lastLocal = 0 /\ list[i].id \in unused
       \/ \E k \in 1..Len(file) : list[i].id = file[k].id /\ list[i].lastRep = file[k].lastRep
                                  /\ list[i].lastLocal = file[k].lastLocal

(* The ids in a file, none of them twice, none of them in u. *)
IdSet(m) == {m[i].id : i \in 1..Len(m)}
Distinct(m) == \A i, k \in 1..Len(m) : m[i].id = m[k].id => i = k
Clean(m, u) == Distinct(m) /\ IdSet(m) \cap u = {}

(* The three edits of a list: a policy is added, *)
LEMMA CreateList ==
    ASSUME NEW n \in Nat, NEW m \in Seq(Entries(n)), NEW u \in SUBSET Policy, NEW p \in u,
           NEW f \in Forms[p]
    PROVE  LET list == Append(m, Entry(p, f))
           IN /\ list \in Seq(Entries(n)) /\ Len(list) = Len(m) + 1
              /\ \A i \in 1..Len(m) : list[i] = m[i]
              /\ list[Len(m) + 1] = Entry(p, f)
              /\ Clean(m, u) => Clean(list, u \ {p})
<1> DEFINE list == Append(m, Entry(p, f))
<1>1. Entry(p, f) \in Entries(n) /\ Entry(p, f).id = p
  BY NewEntry
<1>2. /\ list \in Seq(Entries(n)) /\ Len(list) = Len(m) + 1
      /\ \A i \in 1..Len(m) : list[i] = m[i]
      /\ list[Len(m) + 1] = Entry(p, f)
  BY <1>1, AppendProperties
<1>3. Len(m) \in Nat
  BY LenProperties
<1> HIDE DEF list
<1>4. ASSUME Clean(m, u) PROVE Clean(list, u \ {p})
  <2>1. \A i \in 1..Len(m) : m[i].id \notin u
    BY <1>4 DEF Clean, IdSet
  <2>2. \A i \in 1..Len(list) : i \in 1..Len(m) \/ i = Len(m) + 1
    BY <1>2, <1>3
  <2>3. \A i \in 1..Len(list) : list[i].id = IF i \in 1..Len(m) THEN m[i].id ELSE p
    BY <1>1, <1>2, <2>2
  <2>4. Distinct(list)
    BY <1>4, <2>1, <2>2, <2>3 DEF Distinct, Clean
  <2>5. \A i \in 1..Len(list) : list[i].id \notin u \ {p}
    BY <2>1, <2>3
  <2> QED BY <2>4, <2>5 DEF Clean, IdSet
<1> QED BY <1>2, <1>4 DEF list

(* gets other settings, *)
LEMMA UpdateList ==
    ASSUME NEW n \in Nat, NEW m \in Seq(Entries(n)), NEW i \in 1..Len(m),
           NEW f \in Forms[m[i].id]
    PROVE  LET list == [m EXCEPT ![i].form = f]
           IN /\ list \in Seq(Entries(n)) /\ Len(list) = Len(m)
              /\ \A k \in 1..Len(m) : list[k].id = m[k].id /\ list[k].lastRep = m[k].lastRep
                                      /\ list[k].lastLocal = m[k].lastLocal
              /\ \A u : Clean(m, u) => Clean(list, u)
<1> DEFINE e == [m[i] EXCEPT !.form = f]
           list == [m EXCEPT ![i] = e]
<1>1. m[i] \in Entries(n) /\ m[i].id \in Policy
  BY ElementOfSeq DEF Entries
<1>2. f \in Form
  BY <1>1, ScheduleAssumption DEF ScheduleAssumption
<1>3. e \in Entries(n) /\ e.id = m[i].id /\ e.lastRep = m[i].lastRep
      /\ e.lastLocal = m[i].lastLocal
  BY <1>1, <1>2 DEF Entries
<1> HIDE DEF e
<1>4. list \in Seq(Entries(n)) /\ Len(list) = Len(m) /\ DOMAIN m = 1..Len(m)
  BY <1>3, SetEntry
<1>5. \A k \in 1..Len(m) : list[k] = IF k = i THEN e ELSE m[k]
  BY <1>4
<1> HIDE DEF list
<1>6. \A k \in 1..Len(m) : list[k].id = m[k].id /\ list[k].lastRep = m[k].lastRep
                           /\ list[k].lastLocal = m[k].lastLocal
  BY <1>3, <1>5
<1>7. \A u : Clean(m, u) => Clean(list, u)
  BY <1>4, <1>6 DEF Clean, Distinct, IdSet
<1> QED BY <1>4, <1>6, <1>7 DEF list, e

(* or is removed. *)
LEMMA DeleteList ==
    ASSUME NEW n \in Nat, NEW m \in Seq(Entries(n)), NEW i \in 1..Len(m)
    PROVE  LET list == SubSeq(m, 1, i - 1) \o SubSeq(m, i + 1, Len(m))
           IN /\ list \in Seq(Entries(n))
              /\ \A k \in 1..Len(list) : \E q \in 1..Len(m) : list[k] = m[q]
              /\ \A u : Clean(m, u) => Clean(list, u)
<1> DEFINE a == SubSeq(m, 1, i - 1)
           b == SubSeq(m, i + 1, Len(m))
           list == a \o b
<1>1. Len(m) \in Nat /\ i \in Int /\ \A k \in 1..Len(m) : m[k] \in Entries(n)
  BY LenProperties, ElementOfSeq
<1>2. /\ a \in Seq(Entries(n)) /\ Len(a) = i - 1
      /\ \A k \in 1..(i - 1) : a[k] = m[k]
  <2>1. \A k \in 1..(i - 1) : m[k] \in Entries(n)
    BY <1>1
  <2>2. /\ a \in Seq(Entries(n)) /\ Len(a) = IF 1 <= i - 1 THEN (i - 1) - 1 + 1 ELSE 0
        /\ \A k \in 1..((i - 1) - 1 + 1) : a[k] = m[1 + k - 1]
    BY <1>1, <2>1, SubSeqProperties
  <2> HIDE DEF a
  <2> QED BY <1>1, <2>2
<1>3. /\ b \in Seq(Entries(n)) /\ Len(b) = Len(m) - i
      /\ \A k \in 1..(Len(m) - i) : b[k] = m[i + k]
  <2>1. \A k \in (i + 1)..Len(m) : m[k] \in Entries(n)
    BY <1>1
  <2>2. /\ b \in Seq(Entries(n))
           /\ Len(b) = IF i + 1 <= Len(m) THEN Len(m) - (i + 1) + 1 ELSE 0
        /\ \A k \in 1..(Len(m) - (i + 1) + 1) : b[k] = m[(i + 1) + k - 1]
    BY <1>1, <2>1, SubSeqProperties
  <2> HIDE DEF b
  <2> QED BY <1>1, <2>2
<1> HIDE DEF a, b
<1>4. /\ list \in Seq(Entries(n)) /\ Len(list) = Len(m) - 1
      /\ \A k \in 1..(Len(m) - 1) : list[k] = IF k <= i - 1 THEN a[k] ELSE b[k - (i - 1)]
  <2>1. /\ list \in Seq(Entries(n)) /\ Len(list) = Len(a) + Len(b)
        /\ \A k \in 1..(Len(a) + Len(b)) : list[k] = IF k <= Len(a) THEN a[k] ELSE b[k - Len(a)]
    BY <1>2, <1>3, ConcatProperties
  <2> QED BY <1>1, <1>2, <1>3, <2>1
<1> HIDE DEF list
<1> DEFINE g(k) == IF k <= i - 1 THEN k ELSE k + 1
<1>5. \A k \in 1..Len(list) : g(k) \in 1..Len(m) /\ list[k] = m[g(k)]
  BY <1>1, <1>2, <1>3, <1>4
<1>6. \A k, q \in 1..Len(list) : g(k) = g(q) => k = q
  BY <1>1, <1>4
<1> HIDE DEF g
<1>7. \A u : Clean(m, u) => Clean(list, u)
  BY <1>5, <1>6 DEF Clean, Distinct, IdSet
<1> QED BY <1>4, <1>5, <1>7 DEF list, a, b

(* A request that edits the file, up to its save. *)
EditStep == HandleCreateSchedule \/ HandleUpdateSchedule \/ HandleDeleteSchedule

(* It saves what derives from the file it read. *)
LEMMA EditIs == ASSUME TypeInv, EditStep
    PROVE  /\ job' = Joined /\ JobsInv'
           /\ adm.pc = "idle" /\ adm'.pc = "save" /\ adm'.solo = Quiet
           /\ adm'.mem \in Seq(Entries(Len(taken))) /\ adm' \in AdmRec(Len(taken))
           /\ Derived(adm'.mem)
           /\ Clean(file, unused) => Clean(adm'.mem, unused')
           /\ unused' \subseteq unused
           /\ calm' = (calm /\ Quiet /\ ~Moves(adm'.mem))
           /\ UNCHANGED <<file, taken, src, dst, strikes, faults>>
           /\ admin' = admin + 1 /\ admin < MaxAdmin
<1> DEFINE n == Len(taken)
<1>1. n \in Nat /\ file \in Seq(Entries(n)) /\ adm \in AdmRec(n) /\ unused \in SUBSET Policy
  BY RecOf DEF TypeInv, FileInv, Jobs, Rest
<1>2. Len(file) \in Nat /\ DOMAIN file = 1..Len(file)
  BY <1>1, LenProperties
<1>a. admin' = admin + 1 /\ admin < MaxAdmin
  BY DEF EditStep, HandleCreateSchedule, HandleUpdateSchedule, HandleDeleteSchedule, Admin
<1>b. Quiet \in BOOLEAN
  BY DEF Quiet
<1> HIDE DEF n
<1>3. SUFFICES ASSUME NEW list \in Seq(Entries(n)), Edit(list), Derived(list),
                      Clean(file, unused) => Clean(list, unused'), unused' \subseteq unused
               PROVE  /\ job' = Joined /\ JobsInv'
                      /\ adm.pc = "idle" /\ adm'.pc = "save" /\ adm'.solo = Quiet
                      /\ adm'.mem = list /\ adm' \in AdmRec(n)
                      /\ calm' = (calm /\ Quiet /\ ~Moves(adm'.mem))
                      /\ UNCHANGED <<file, taken, src, dst, strikes, faults>>
  <2>1. CASE HandleCreateSchedule
    <3>1. PICK p \in unused : \E f \in Forms[p] : Edit(Append(file, Entry(p, f)))
          /\ unused' = unused \ {p}
      BY <2>1 DEF HandleCreateSchedule
    <3>2. PICK f \in Forms[p] : Edit(Append(file, Entry(p, f))) /\ unused' = unused \ {p}
      BY <3>1
    <3> DEFINE list == Append(file, Entry(p, f))
    <3>3. /\ list \in Seq(Entries(n)) /\ Len(list) = Len(file) + 1
          /\ \A i \in 1..Len(file) : list[i] = file[i]
          /\ list[Len(file) + 1] = Entry(p, f)
          /\ Clean(file, unused) => Clean(list, unused \ {p})
      BY <1>1, CreateList
    <3>4. Edit(list) /\ unused' = unused \ {p}
      BY <3>2
    <3> HIDE DEF list
    <3>5. Entry(p, f).id = p /\ Entry(p, f).lastRep = 0 /\ Entry(p, f).lastLocal = 0
      BY DEF Entry
    <3>6. \A i \in 1..Len(list) : i \in 1..Len(file) \/ i = Len(file) + 1
      BY <1>2, <3>3
    <3>7. Derived(list)
      BY <3>3, <3>5, <3>6 DEF Derived
    <3>8. (Clean(file, unused) => Clean(list, unused')) /\ unused' \subseteq unused
      BY <3>3, <3>4
    <3> QED BY <1>a, <1>3, <3>3, <3>4, <3>7, <3>8 DEF n
  <2>2. CASE HandleUpdateSchedule
    <3>1. PICK i \in 1..Len(file) :
            \E f \in Forms[file[i].id] : Edit([file EXCEPT ![i].form = f])
      BY <1>2, <2>2 DEF HandleUpdateSchedule
    <3>2. PICK f \in Forms[file[i].id] : Edit([file EXCEPT ![i].form = f])
      BY <3>1
    <3> DEFINE list == [file EXCEPT ![i].form = f]
    <3>3. /\ list \in Seq(Entries(n)) /\ Len(list) = Len(file)
          /\ \A k \in 1..Len(file) : list[k].id = file[k].id
             /\ list[k].lastRep = file[k].lastRep
                                  /\ list[k].lastLocal = file[k].lastLocal
          /\ \A u : Clean(file, u) => Clean(list, u)
      BY <1>1, UpdateList
    <3>4. Edit(list) /\ unused' = unused
      BY <2>2, <3>2 DEF HandleUpdateSchedule
    <3> HIDE DEF list
    <3>5. Derived(list)
      BY <3>3 DEF Derived
    <3> QED BY <1>a, <1>3, <3>3, <3>4, <3>5 DEF n
  <2>3. CASE HandleDeleteSchedule
    <3>1. PICK i \in 1..Len(file) : Edit(SubSeq(file, 1, i - 1) \o SubSeq(file, i + 1,
             Len(file)))
      BY <1>2, <2>3 DEF HandleDeleteSchedule
    <3> DEFINE list == SubSeq(file, 1, i - 1) \o SubSeq(file, i + 1, Len(file))
    <3>3. /\ list \in Seq(Entries(n))
          /\ \A k \in 1..Len(list) : \E q \in 1..Len(file) : list[k] = file[q]
          /\ \A u : Clean(file, u) => Clean(list, u)
      BY <1>1, DeleteList
    <3>4. Edit(list) /\ unused' = unused
      BY <2>3, <3>1 DEF HandleDeleteSchedule
    <3> HIDE DEF list
    <3>5. Derived(list)
      BY <3>3 DEF Derived
    <3> QED BY <1>a, <1>3, <3>3, <3>4, <3>5 DEF n
  <2> QED BY <2>1, <2>2, <2>3 DEF EditStep
<1>4. /\ adm.pc = "idle" /\ adm' = [pc |-> "save", mem |-> list, solo |-> Quiet]
      /\ job' = Joined /\ calm' = (calm /\ Quiet /\ ~Moves(list))
      /\ UNCHANGED <<file, taken, src, dst, strikes, faults>>
  BY <1>3 DEF Edit
<1>5. JobsInv'
  <2>1. taken' = taken /\ job' = Joined
    BY <1>4
  <2> QED BY <2>1, JoinInv
<1>6. adm'.pc = "save" /\ adm'.mem = list /\ adm'.solo = Quiet
  BY <1>4
<1>7. adm' \in AdmRec(n)
  BY <1>3, <1>4, <1>b DEF AdmRec
<1> QED BY <1>4, <1>5, <1>6, <1>7

(* SaveEdit, *)
LEMMA SaveEditIs == ASSUME TypeInv, SaveEdit
    PROVE  /\ adm.pc = "save" /\ adm' = NoEdit /\ adm' \in AdmRec(Len(taken))
           /\ \/ file' = adm.mem
                 /\ strikes' = IF adm.solo THEN strikes ELSE [p \in Policy |-> 0]
              \/ file' = file /\ strikes' = strikes
           /\ file' \in Seq(Entries(Len(taken)))
           /\ UNCHANGED <<taken, src, dst, job, unused, calm, admin>>
           /\ (Fault("save") \/ UNCHANGED faults)
<1>1. /\ adm.pc = "save" /\ adm' = NoEdit
      /\ \/ file' = adm.mem /\ strikes' = IF adm.solo THEN strikes ELSE [p \in Policy |-> 0]
         \/ file' = file /\ strikes' = strikes
      /\ UNCHANGED <<taken, src, dst, job, unused, calm, admin>>
      /\ (Fault("save") \/ UNCHANGED faults)
  BY DEF SaveEdit
<1>2. adm.mem \in Seq(Entries(Len(taken))) /\ file \in Seq(Entries(Len(taken)))
  BY DEF TypeInv, FileInv, AdmRec
<1>3. <<>> \in Seq(Entries(Len(taken)))
  BY EmptySeq
<1>4. NoEdit \in AdmRec(Len(taken))
  BY <1>3 DEF NoEdit, AdmRec
<1> QED BY <1>1, <1>2, <1>4

(* Crash: every destination keeps the base of the stream that went there, *)
LEMMA CrashIs == ASSUME TypeInv, Crash
    PROVE  /\ \A k \in Jobs : job'[k] = Idle
           /\ JobsInv' /\ adm' = NoEdit /\ adm' \in AdmRec(Len(taken))
           /\ dst' \in [Dest -> SUBSET (1..Len(taken))]
           /\ \A d \in Dest :
                \/ dst'[d] = dst[d]
                \/ \E j \in Jobs, to \in [Dest -> SUBSET (1..Len(taken))] :
                     /\ Flows(j, to) /\ d = Target(j)
                     /\ StreamBase(j) # 0 => StreamBase(j) \in dst'[d]
           /\ UNCHANGED <<file, taken, src, unused, calm, strikes, admin>>
           /\ Fault("crash")
<1>1. /\ job' = [j \in Jobs |-> Idle] /\ adm' = NoEdit /\ Fault("crash")
      /\ UNCHANGED <<file, taken, src, unused, calm, strikes, admin>>
  BY DEF Crash
<1>2. PICK to \in Cut("tick", dst) : dst' \in Cut("now", to)
  BY DEF Crash
<1>3. "tick" \in Jobs /\ "now" \in Jobs /\ dst \in [Dest -> SUBSET (1..Len(taken))]
  BY DEF Jobs, TypeInv, Store
<1>4. /\ to \in [Dest -> SUBSET (1..Len(taken))]
      /\ \A d \in Dest : \/ to[d] = dst[d]
                         \/ /\ Flows("tick", dst) /\ d = Target("tick")
                            /\ StreamBase("tick") # 0 => StreamBase("tick") \in to[d]
  BY <1>2, <1>3, CutIs
<1>5. /\ dst' \in [Dest -> SUBSET (1..Len(taken))]
      /\ \A d \in Dest : \/ dst'[d] = to[d]
                         \/ /\ Flows("now", to) /\ d = Target("now")
                            /\ StreamBase("now") # 0 => StreamBase("now") \in dst'[d]
  BY <1>2, <1>3, <1>4, CutIs
<1>6. Len(taken) \in Nat
  BY <1>3, RecOf
<1>7. Idle \in JobRec(Len(taken)) /\ Shape(Idle)
  BY <1>6, IdleIs
<1>8. JobsInv'
  <2>1. taken' = taken /\ job' = [j \in Jobs |-> Idle]
    BY <1>1
  <2> QED BY <2>1, <1>7 DEF JobsInv
<1>9. <<>> \in Seq(Entries(Len(taken)))
  BY EmptySeq
<1>10. NoEdit \in AdmRec(Len(taken))
  BY <1>9 DEF NoEdit, AdmRec
<1>11. ASSUME NEW d \in Dest
       PROVE  \/ dst'[d] = dst[d]
              \/ \E j \in Jobs, v \in [Dest -> SUBSET (1..Len(taken))] :
                     /\ Flows(j, v) /\ d = Target(j)
                     /\ StreamBase(j) # 0 => StreamBase(j) \in dst'[d]
  <2>1. CASE dst'[d] = to[d] /\ to[d] = dst[d]
    BY <2>1
  <2>2. CASE /\ dst'[d] = to[d] /\ Flows("tick", dst) /\ d = Target("tick")
             /\ StreamBase("tick") # 0 => StreamBase("tick") \in to[d]
    BY <1>3, <2>2
  <2>3. CASE /\ Flows("now", to) /\ d = Target("now")
             /\ StreamBase("now") # 0 => StreamBase("now") \in dst'[d]
    BY <1>3, <1>4, <2>3
  <2> QED BY <1>4, <1>5, <2>1, <2>2, <2>3
<1> QED BY <1>1, <1>5, <1>8, <1>10, <1>11

(***************************************************************************)
(* The type invariant.                                                     *)
(***************************************************************************)
(* Every step of a job keeps the type of the jobs. *)
LEMMA JobTypes == ASSUME TypeInv, NEW j \in Jobs, JobStep(j) PROVE JobsInv'
<1>1. CASE CreateSnapshot(j)
  BY <1>1, CreateIs
<1>2. CASE SnapshotFails(j) \/ NoReplication(j)
  BY <1>2, FailsIs
<1>3. CASE PruneList(j)
  BY <1>3, ListIs
<1>4. CASE PruneDestroy(j) \/ PruneDone(j) \/ NoLocalReplication(j)
  BY <1>4, DestroyIs
<1>5. CASE RunLocalReplication(j)
  BY <1>5, LocalIs
<1>6. CASE PrepareReplication(j)
  BY <1>6, PrepareIs
<1>7. CASE RunReplication(j)
  BY <1>7, SendIs
<1>8. CASE SavePolicies(j)
  BY <1>8, SaveIs
<1> QED BY <1>1, <1>2, <1>3, <1>4, <1>5, <1>6, <1>7, <1>8 DEF JobStep

(* The count of faults stays in its bound ... *)
LEMMA FaultType ==
  ASSUME TypeInv, (\E f \in Faults : Fault(f)) \/ UNCHANGED faults
  PROVE  faults' \in 0..MaxFaults
  BY ScheduleAssumption DEF Fault, TypeInv, Rest, ScheduleAssumption

(* ... whichever fault it is. *)
LEMMA AnyFault == ASSUME NEW f, Fault(f) PROVE \E g \in Faults : Fault(g)
  BY DEF Fault

(* Struck counts up to 2. *)
LEMMA StruckType ==
  ASSUME TypeInv, NEW r, NEW saved
  PROVE  Struck(r, saved) \in [Policy -> 0..2]
<1>1. strikes \in [Policy -> 0..2]
  BY DEF TypeInv, Rest
<1> QED BY <1>1 DEF Struck

(* What a step of a job leaves alone besides the jobs. *)
LEMMA JobOthers == ASSUME TypeInv, NEW j \in Jobs, JobStep(j)
    PROVE  /\ UNCHANGED <<adm, unused, calm, admin>>
           /\ \A k \in Jobs \ {j} : job'[k] = job[k]
           /\ (\E f \in Faults : Fault(f)) \/ UNCHANGED faults
           /\ ~CreateSnapshot(j) => UNCHANGED taken
           /\ ~SavePolicies(j) => UNCHANGED <<file, strikes>>
<1>1. CASE CreateSnapshot(j)
  BY <1>1, CreateIs DEF CreateSnapshot, SavePolicies
<1>2. CASE SnapshotFails(j) \/ NoReplication(j)
  BY <1>2, FailsIs, AnyFault
<1>3. CASE PruneList(j)
  BY <1>3, ListIs, AnyFault
<1>4. CASE PruneDestroy(j) \/ PruneDone(j) \/ NoLocalReplication(j)
  BY <1>4, DestroyIs, AnyFault
<1>5. CASE RunLocalReplication(j)
  BY <1>5, LocalIs, AnyFault
<1>6. CASE PrepareReplication(j)
  BY <1>6, PrepareIs, AnyFault
<1>7. CASE RunReplication(j)
  BY <1>7, SendIs, AnyFault
<1>8. CASE SavePolicies(j)
  BY <1>8, SaveIs, AnyFault
<1> QED BY <1>1, <1>2, <1>3, <1>4, <1>5, <1>6, <1>7, <1>8 DEF JobStep

(* It keeps the types of the snapshots. *)
LEMMA JobStore == ASSUME TypeInv, NEW j \in Jobs, JobStep(j) PROVE Store'
<1> DEFINE n == Len(taken)
<1>0. /\ taken \in Seq(Label) /\ n <= MaxSnaps /\ src \subseteq 1..n /\ n \in Nat
      /\ dst \in [Dest -> SUBSET (1..n)]
  BY RecOf DEF TypeInv, Store
<1>a. ASSUME taken' = taken, src' \subseteq src, dst' \in [Dest -> SUBSET (1..n)]
      PROVE  Store'
  BY <1>0, <1>a DEF Store
<1>1. CASE CreateSnapshot(j)
  <2>1. /\ Len(taken') = n + 1 /\ taken' \in Seq(Label) /\ Len(taken') <= MaxSnaps
        /\ src' = src \cup {n + 1} /\ dst' = dst
    BY <1>1, CreateIs
  <2> HIDE DEF n
  <2>2. 1..n \subseteq 1..(n + 1) /\ n + 1 \in 1..(n + 1)
    BY <1>0
  <2>3. src' \subseteq 1..(n + 1) /\ dst' \in [Dest -> SUBSET (1..(n + 1))]
    BY <1>0, <2>1, <2>2
  <2> QED BY <2>1, <2>3 DEF Store
<1>2. CASE SnapshotFails(j) \/ NoReplication(j)
  BY <1>2, <1>0, <1>a, FailsIs
<1>3. CASE PruneList(j)
  BY <1>3, <1>0, <1>a, ListIs
<1>4. CASE PruneDestroy(j) \/ PruneDone(j) \/ NoLocalReplication(j)
  <2>1. taken' = taken /\ src' \subseteq src /\ dst' = dst
    BY <1>4, DestroyIs
  <2> QED BY <2>1, <1>0, <1>a
<1>5. CASE RunLocalReplication(j)
  <2>1. /\ taken' = taken /\ src' = src
        /\ (Flows(j, dst) /\ dst' = Arrived(j)) \/ dst' \in Cut(j, dst)
    BY <1>5, LocalIs
  <2> QED BY <2>1, <1>0, <1>a, ArrivedIs, CutIs
<1>6. CASE PrepareReplication(j)
  <2>1. /\ taken' = taken /\ src' = src
        /\ dst' = dst \/ dst' = [dst EXCEPT ![Cur(j).form.remote] = {}]
    BY <1>6, PrepareIs
  <2>2. [dst EXCEPT ![Cur(j).form.remote] = {}] \in [Dest -> SUBSET (1..n)]
    BY <1>0
  <2> QED BY <2>1, <2>2, <1>0, <1>a
<1>7. CASE RunReplication(j)
  <2>1. /\ taken' = taken /\ src' = src
        /\ dst' = dst \/ (Flows(j, dst) /\ dst' = Arrived(j)) \/ dst' \in Cut(j, dst)
    BY <1>7, SendIs
  <2> QED BY <2>1, <1>0, <1>a, ArrivedIs, CutIs
<1>8. CASE SavePolicies(j)
  BY <1>8, <1>0, <1>a, SaveIs
<1> QED BY <1>1, <1>2, <1>3, <1>4, <1>5, <1>6, <1>7, <1>8 DEF JobStep

(* TypeInv holds initially. *)
LEMMA TypeInit == Init => TypeInv
<1> SUFFICES ASSUME Init PROVE TypeInv
  OBVIOUS
<1>1. PICK f \in [DOMAIN First -> UNION {Forms[p] : p \in Policy}] :
        /\ \A i \in DOMAIN First : f[i] \in Forms[First[i]]
        /\ file = [i \in DOMAIN First |-> Entry(First[i], f[i])]
  BY DEF Init
<1>2. /\ taken = <<>> /\ src = {} /\ dst = [d \in Dest |-> {}]
      /\ job = [j \in Jobs |-> Idle] /\ adm = NoEdit
      /\ unused = Policy \ {First[i] : i \in DOMAIN First} /\ calm = TRUE
      /\ strikes = [p \in Policy |-> 0] /\ faults = 0 /\ admin = 0
  BY DEF Init
<1>3. Len(taken) = 0 /\ taken \in Seq(Label)
  BY <1>2, EmptySeq
<1>4. First \in Seq(Policy) /\ MaxSnaps \in Nat /\ MaxFaults \in Nat /\ MaxAdmin \in Nat
  BY ScheduleAssumption DEF ScheduleAssumption
<1>5. DOMAIN First = 1..Len(First) /\ Len(First) \in Nat
      /\ \A i \in 1..Len(First) : First[i] \in Policy
  BY <1>4, LenProperties, ElementOfSeq
<1>6. \A i \in 1..Len(First) : Entry(First[i], f[i]) \in Entries(0)
  BY <1>1, <1>5, NewEntry
<1>7. file \in [1..Len(First) -> Entries(0)]
  BY <1>1, <1>5, <1>6
<1>8. file \in Seq(Entries(0))
  BY <1>5, <1>7, SeqDef
<1>9. <<>> \in Seq(Entries(0))
  BY EmptySeq
<1>10. adm \in AdmRec(0)
  BY <1>2, <1>9 DEF NoEdit, AdmRec
<1>11. FileInv
  BY <1>3, <1>8, <1>10 DEF FileInv
<1>12. Store
  BY <1>2, <1>3, <1>4 DEF Store
<1>13. Rest
  BY <1>2, <1>4 DEF Rest
<1>14. Idle \in JobRec(0) /\ Shape(Idle)
  BY IdleIs
<1>15. JobsInv
  BY <1>2, <1>3, <1>14 DEF JobsInv
<1> QED BY <1>11, <1>12, <1>13, <1>15 DEF TypeInv

(* Wipe, *)
LEMMA WipeIs == ASSUME TypeInv, Wipe
    PROVE  /\ job' = Joined /\ JobsInv' /\ dst' \in [Dest -> SUBSET (1..Len(taken))]
              /\ calm' = FALSE
           /\ UNCHANGED <<file, taken, src, adm, unused, strikes, faults>>
           /\ admin' = admin + 1 /\ admin < MaxAdmin
<1>1. /\ job' = Joined /\ calm' = FALSE
      /\ UNCHANGED <<file, taken, src, adm, unused, strikes, faults>>
      /\ admin' = admin + 1 /\ admin < MaxAdmin
  BY DEF Wipe, Admin
<1>2. PICK d \in Dest : dst' = [dst EXCEPT ![d] = {}]
  BY DEF Wipe
<1>3. dst \in [Dest -> SUBSET (1..Len(taken))]
  BY DEF TypeInv, Store
<1>4. dst' \in [Dest -> SUBSET (1..Len(taken))]
  BY <1>2, <1>3
<1>5. taken' = taken
  BY <1>1
<1> QED BY <1>1, <1>4, <1>5, JoinInv

(* A tick or Run now begins. *)
BeginStep(j, todo) ==
  /\ todo \in SUBSET DOMAIN file /\ todo # {} /\ Begin(j, todo)
  /\ UNCHANGED admin \/ (admin < MaxAdmin /\ admin' = admin + 1)

(* Only these begin a job. *)
LEMMA BeginSteps == ASSUME TickPolicies \/ HandleRunScheduleNow
    PROVE  \E j \in Jobs : \E todo \in SUBSET DOMAIN file :
             BeginStep(j, todo) /\ (j = "now" => "now" \in AdminOps)
<1>1. CASE TickPolicies
  BY <1>1 DEF TickPolicies, BeginStep, Jobs
<1>2. CASE HandleRunScheduleNow
  <2>1. PICK i \in DOMAIN file : Begin("now", {i})
    BY <1>2 DEF HandleRunScheduleNow
  <2>2. "now" \in AdminOps /\ admin < MaxAdmin /\ admin' = admin + 1
    BY <1>2 DEF HandleRunScheduleNow, Admin
  <2>3. {i} \in SUBSET DOMAIN file /\ {i} # {} /\ "now" \in Jobs
    BY DEF Jobs
  <2> QED BY <2>1, <2>2, <2>3 DEF BeginStep
<1> QED BY <1>1, <1>2

(* Every step keeps TypeInv, *)
LEMMA TypeNext == TypeInv /\ [Next]_vars => TypeInv'
<1> SUFFICES ASSUME TypeInv, [Next]_vars PROVE TypeInv'
  OBVIOUS
<1>0. /\ Store /\ FileInv /\ JobsInv /\ Rest /\ Len(taken) \in Nat
      /\ MaxFaults \in Nat /\ MaxAdmin \in Nat
  BY RecOf, ScheduleAssumption DEF TypeInv, Jobs, ScheduleAssumption
<1>1. CASE UNCHANGED vars
  BY <1>0, <1>1 DEF vars, TypeInv, Store, FileInv, JobsInv, Rest
<1>2. CASE \E j \in Jobs : JobStep(j)
  <2>1. PICK j \in Jobs : JobStep(j)
    BY <1>2
  <2>2. JobsInv' /\ Store'
    BY <2>1, JobTypes, JobStore
  <2>3. UNCHANGED <<adm, unused, calm, admin>> /\ faults' \in 0..MaxFaults
    BY <2>1, JobOthers, FaultType
  <2>4. FileInv' /\ strikes' \in [Policy -> 0..2]
    <3>1. CASE CreateSnapshot(j)
      <4>1. file' = file /\ adm' = adm /\ strikes' = strikes /\ Len(taken') = Len(taken) + 1
        BY <3>1, CreateIs
      <4>2. file \in Seq(Entries(Len(taken'))) /\ adm \in AdmRec(Len(taken'))
        BY <1>0, <4>1, SeqMono, EntriesMono, JobMono DEF FileInv
      <4> QED BY <1>0, <4>1, <4>2 DEF FileInv, Rest
    <3>2. CASE SavePolicies(j)
      <4>1. file' \in Seq(Entries(Len(taken))) /\ taken' = taken /\ adm' = adm
            /\ (strikes' = Struck(job[j], TRUE) \/ strikes' = Struck(job[j], FALSE))
        BY <3>2, SaveIs
      <4> QED BY <1>0, <4>1, StruckType DEF FileInv
    <3>3. CASE ~CreateSnapshot(j) /\ ~SavePolicies(j)
      <4>1. file' = file /\ taken' = taken /\ strikes' = strikes
        BY <2>1, <3>3, JobOthers
      <4> QED BY <1>0, <2>3, <4>1 DEF FileInv, Rest
    <3> QED BY <3>1, <3>2, <3>3
  <2>5. Rest'
    BY <1>0, <2>3, <2>4 DEF Rest
  <2> QED BY <2>2, <2>4, <2>5 DEF TypeInv
<1>3. CASE TickPolicies \/ HandleRunScheduleNow
  <2>1. PICK j \in Jobs, todo \in SUBSET DOMAIN file : BeginStep(j, todo)
    BY <1>3, BeginSteps
  <2>2. JobsInv' /\ adm' \in AdmRec(Len(taken)) /\ calm' = (calm /\ Quiet)
        /\ UNCHANGED <<file, taken, src, dst, unused, strikes, faults>>
    BY <2>1, BeginIs DEF BeginStep
  <2>3. admin' \in 0..MaxAdmin
    BY <1>0, <2>1 DEF BeginStep, Rest
  <2>4. calm' \in BOOLEAN
    BY <2>2
  <2>5. Store' /\ FileInv'
    BY <1>0, <2>2 DEF Store, FileInv
  <2>6. Rest'
    BY <1>0, <2>2, <2>3, <2>4 DEF Rest
  <2> QED BY <2>2, <2>5, <2>6 DEF TypeInv
<1>4. CASE EditStep
  <2>1. /\ JobsInv' /\ adm' \in AdmRec(Len(taken)) /\ unused' \subseteq unused
        /\ calm' = (calm /\ Quiet /\ ~Moves(adm'.mem))
        /\ UNCHANGED <<file, taken, src, dst, strikes, faults>>
        /\ admin' = admin + 1 /\ admin < MaxAdmin
    BY <1>4, EditIs
  <2>2. Store' /\ FileInv'
    BY <1>0, <2>1 DEF Store, FileInv
  <2>3. admin' \in 0..MaxAdmin /\ calm' \in BOOLEAN
    BY <1>0, <2>1 DEF Rest
  <2>4. Rest'
    BY <1>0, <2>1, <2>3 DEF Rest
  <2> QED BY <2>1, <2>2, <2>4 DEF TypeInv
<1>5. CASE SaveEdit
  <2>1. /\ adm' \in AdmRec(Len(taken)) /\ file' \in Seq(Entries(Len(taken)))
        /\ UNCHANGED <<taken, src, dst, job, unused, calm, admin>>
        /\ strikes' = strikes \/ strikes' = [p \in Policy |-> 0]
        /\ faults' \in 0..MaxFaults
    BY <1>5, SaveEditIs, AnyFault, FaultType
  <2>2. Store' /\ FileInv' /\ JobsInv'
    BY <1>0, <2>1 DEF Store, FileInv, JobsInv
  <2>3. Rest'
    BY <1>0, <2>1 DEF Rest
  <2> QED BY <2>2, <2>3 DEF TypeInv
<1>6. CASE Wipe
  <2>1. /\ JobsInv' /\ dst' \in [Dest -> SUBSET (1..Len(taken))] /\ calm' = FALSE
        /\ UNCHANGED <<file, taken, src, adm, unused, strikes, faults>>
        /\ admin' = admin + 1 /\ admin < MaxAdmin
    BY <1>6, WipeIs
  <2>2. Store' /\ FileInv'
    BY <1>0, <2>1 DEF Store, FileInv
  <2>3. calm' \in BOOLEAN
    BY <2>1, Zenon
  <2>4. admin' \in 0..MaxAdmin
    <3>1. admin' = admin + 1 /\ admin < MaxAdmin
      BY <2>1
    <3> QED BY <1>0, <3>1 DEF Rest
  <2>5. unused' = unused /\ strikes' = strikes /\ faults' = faults
    BY <2>1
  <2>6. Rest'
    BY <1>0, <2>3, <2>4, <2>5 DEF Rest
  <2> QED BY <2>1, <2>2, <2>6 DEF TypeInv
<1>7. CASE Crash
  <2>1. /\ JobsInv' /\ dst' \in [Dest -> SUBSET (1..Len(taken))] /\ adm' \in AdmRec(Len(taken))
        /\ UNCHANGED <<file, taken, src, unused, calm, strikes, admin>>
        /\ faults' \in 0..MaxFaults
    BY <1>7, CrashIs, AnyFault, FaultType
  <2>2. Store' /\ FileInv'
    BY <1>0, <2>1 DEF Store, FileInv
  <2>3. Rest'
    BY <1>0, <2>1 DEF Rest
  <2> QED BY <2>1, <2>2, <2>3 DEF TypeInv
<1> QED BY <1>1, <1>2, <1>3, <1>4, <1>5, <1>6, <1>7 DEF Next, EditStep

(* which implies TypeOK. *)
LEMMA TypeGives == TypeInv => TypeOK
<1> SUFFICES ASSUME TypeInv PROVE TypeOK
  OBVIOUS
<1>1. /\ Store /\ FileInv /\ JobsInv /\ Rest /\ Len(taken) \in Nat
         /\ DOMAIN taken = 1..Len(taken)
  BY RecOf DEF TypeInv, Jobs
<1>2. ASSUME NEW m \in Seq(Entries(Len(taken))), NEW i \in DOMAIN m PROVE EntryOK(m[i])
  <2>1. i \in 1..Len(m)
    BY LenProperties
  <2>2. m[i] \in Entries(Len(taken))
    BY <2>1, ElementOfSeq
  <2> QED BY <2>2 DEF Entries, EntryOK
<1>3. ASSUME NEW j \in Jobs PROVE JobOK(job[j])
  <2>1. job[j] \in JobRec(Len(taken)) /\ Shape(job[j])
        /\ job[j].mem \in Seq(Entries(Len(taken)))
        /\ DOMAIN job[j].mem = 1..Len(job[j].mem)
    BY RecOf
  <2>2. \A i \in DOMAIN job[j].mem : EntryOK(job[j].mem[i])
    BY <1>2, <2>1
  <2>3. job[j].pc \in Points /\ job[j].snap \in 0..Len(taken) /\ job[j].base \in 0..Len(taken)
    BY <2>1 DEF JobRec
  <2> QED BY <2>1, <2>2, <2>3 DEF JobOK, Shape, Points
<1>4. \A i \in DOMAIN file : EntryOK(file[i])
  BY <1>1, <1>2 DEF FileInv
<1>5. (\A i \in DOMAIN adm.mem : EntryOK(adm.mem[i])) /\ adm.pc \in {"idle", "save"}
      /\ adm.solo \in BOOLEAN
  <2>1. adm.mem \in Seq(Entries(Len(taken))) /\ adm.pc \in {"idle", "save"}
        /\ adm.solo \in BOOLEAN
    BY <1>1 DEF FileInv, AdmRec
  <2> QED BY <2>1, <1>2
<1> QED BY <1>1, <1>3, <1>4, <1>5 DEF TypeOK, Store, Rest

(* A job works on a policy of its copy of the file and a stream never starts from a       *)
(* snapshot that is not older than the one it brings, whatever overlaps, fails or crashes *)
(* (execScheduledSnapshot, RunReplication, RunLocalReplication).                          *)
THEOREM TypeCorrect == Spec => []TypeOK
<1>1. Spec => []TypeInv
  BY TypeInit, TypeNext, PTL DEF Spec
<1> QED BY <1>1, TypeGives, PTL

(***************************************************************************)
(* Retention.                                                              *)
(***************************************************************************)
(* The snapshots of S after v that label l counts. *)
After(S, tk, v, l) == {t \in S : t > v /\ tk[t] \in Covers[l]}

(* So many that some policy may destroy v. *)
Floor(S, tk, v) ==
  \E p \in Policy : \E f \in Forms[p] :
    tk[v] \in Covers[f.label] /\ Cardinality(After(S, tk, v, f.label)) >= f.keep

(* Labels and counts of the settings. *)
LEMMA FormIs == ASSUME NEW p \in Policy, NEW f \in Forms[p]
    PROVE  f.label \in Label /\ f.keep \in Nat /\ f.keep >= 1
<1>1. f \in Form
  BY ScheduleAssumption DEF ScheduleAssumption
<1> QED BY <1>1 DEF Form

(* Counting in a larger set. *)
LEMMA AfterMore ==
    ASSUME NEW n \in Nat, NEW S \in SUBSET (1..n), NEW T \in SUBSET (1..n), NEW tk, NEW uk,
           NEW v \in 1..n, NEW w \in 1..n, NEW l, NEW m,
           \A t \in S : t > v /\ tk[t] \in Covers[l] => t \in T /\ t > w /\ uk[t] \in Covers[m]
    PROVE  /\ Cardinality(After(S, tk, v, l)) <= Cardinality(After(T, uk, w, m))
           /\ Cardinality(After(S, tk, v, l)) \in Nat
              /\ Cardinality(After(T, uk, w, m)) \in Nat
<1>1. After(T, uk, w, m) \in SUBSET (1..n) /\ After(S, tk, v, l) \in SUBSET After(T, uk, w, m)
  BY DEF After
<1> QED BY <1>1, MoreSnaps

(* Snapshots that are added do not lift the floor, *)
LEMMA FloorGrows ==
    ASSUME NEW n \in Nat, NEW S \in SUBSET (1..n), NEW T \in SUBSET (1..n), S \subseteq T,
           NEW tk, NEW uk, \A t \in S : uk[t] = tk[t], NEW v \in S, Floor(S, tk, v)
    PROVE  Floor(T, uk, v)
<1>1. PICK p \in Policy : \E f \in Forms[p] :
        tk[v] \in Covers[f.label] /\ Cardinality(After(S, tk, v, f.label)) >= f.keep
  BY DEF Floor
<1>2. PICK f \in Forms[p] :
        tk[v] \in Covers[f.label] /\ Cardinality(After(S, tk, v, f.label)) >= f.keep
  BY <1>1
<1>3. /\ Cardinality(After(S, tk, v, f.label)) <= Cardinality(After(T, uk, v, f.label))
      /\ Cardinality(After(S, tk, v, f.label)) \in Nat
         /\ Cardinality(After(T, uk, v, f.label)) \in Nat
  BY AfterMore
<1>4. Cardinality(After(T, uk, v, f.label)) >= f.keep
  BY <1>2, <1>3, FormIs
<1>5. uk[v] \in Covers[f.label]
  BY <1>2
<1> QED BY <1>4, <1>5 DEF Floor

(* nor those taken before, *)
LEMMA FloorLater ==
    ASSUME NEW n \in Nat, NEW S \in SUBSET (1..n), NEW tk, NEW v \in S, NEW t \in S, t < v,
           Floor(S, tk, v)
    PROVE  Floor(S \ {t}, tk, v)
<1>1. \A l : After(S \ {t}, tk, v, l) = After(S, tk, v, l)
  BY DEF After
<1> QED BY <1>1 DEF Floor

(* nor one destroyed that has itself enough newer ones, if labels are ordered. *)
LEMMA FloorPasses ==
    ASSUME NEW n \in Nat, NEW S \in SUBSET (1..n), NEW tk, NEW v \in S, NEW t \in S, v < t,
           Ordered, Floor(S, tk, v), Floor(S, tk, t)
    PROVE  Floor(S \ {t}, tk, v)
<1>a. PICK p \in Policy : \E f \in Forms[p] :
        tk[v] \in Covers[f.label] /\ Cardinality(After(S, tk, v, f.label)) >= f.keep
  BY DEF Floor
<1>1. PICK f \in Forms[p] :
        tk[v] \in Covers[f.label] /\ Cardinality(After(S, tk, v, f.label)) >= f.keep
  BY <1>a
<1>b. PICK q \in Policy : \E g \in Forms[q] :
        tk[t] \in Covers[g.label] /\ Cardinality(After(S, tk, t, g.label)) >= g.keep
  BY DEF Floor
<1>2. PICK g \in Forms[q] :
        tk[t] \in Covers[g.label] /\ Cardinality(After(S, tk, t, g.label)) >= g.keep
  BY <1>b
<1>3. f.label \in Label /\ f.keep \in Nat /\ g.label \in Label /\ g.keep \in Nat
  BY FormIs
<1> DEFINE U == S \ {t}
<1>4. U \in SUBSET (1..n) /\ v \in 1..n /\ t \in 1..n
  OBVIOUS
<1>5. CASE tk[t] \notin Covers[f.label]
  <2>1. After(U, tk, v, f.label) = After(S, tk, v, f.label)
    BY <1>5 DEF After
  <2> QED BY <1>1, <2>1 DEF Floor
<1>6. ASSUME Covers[g.label] \subseteq Covers[f.label], g.keep >= f.keep PROVE Floor(U, tk, v)
  <2>1. \A x \in S : x > t /\ tk[x] \in Covers[g.label] => x \in U /\ x > v
        /\ tk[x] \in Covers[f.label]
    <3>1. \A x \in S : x > t => x \in U /\ x > v
      BY <1>4
    <3> QED BY <1>6, <3>1
  <2>2. /\ Cardinality(After(S, tk, t, g.label)) <= Cardinality(After(U, tk, v, f.label))
        /\ Cardinality(After(S, tk, t, g.label)) \in Nat
           /\ Cardinality(After(U, tk, v, f.label)) \in Nat
    BY <1>4, <2>1, AfterMore
  <2>3. Cardinality(After(U, tk, v, f.label)) >= f.keep
    BY <1>2, <1>3, <1>6, <2>2
  <2> QED BY <1>1, <2>3 DEF Floor
<1>7. ASSUME Covers[f.label] \subseteq Covers[g.label] PROVE Floor(U, tk, v)
  <2>1. \A x \in S : x > t /\ tk[x] \in Covers[g.label] => x \in U /\ x > v
        /\ tk[x] \in Covers[g.label]
    OBVIOUS
  <2>2. /\ Cardinality(After(S, tk, t, g.label)) <= Cardinality(After(U, tk, v, g.label))
        /\ Cardinality(After(S, tk, t, g.label)) \in Nat
           /\ Cardinality(After(U, tk, v, g.label)) \in Nat
    BY <1>4, <2>1, AfterMore
  <2>3. Cardinality(After(U, tk, v, g.label)) >= g.keep
    BY <1>2, <1>3, <2>2
  <2> QED BY <1>1, <1>7, <2>3 DEF Floor
<1>8. CASE tk[t] \in Covers[f.label]
  <2>1. f.label \in Covers[g.label] \/ g.label \in Covers[f.label]
    BY <1>2, <1>3, <1>8, ScheduleAssumption DEF ScheduleAssumption
  <2>2. CASE f.label \in Covers[g.label]
    BY <1>3, <1>7, <2>2, ScheduleAssumption DEF ScheduleAssumption
  <2>3. CASE g.label \in Covers[f.label]
    <3>1. Covers[g.label] \subseteq Covers[f.label]
      BY <1>3, <2>3, ScheduleAssumption DEF ScheduleAssumption
    <3>2. g.label = f.label \/ g.keep >= f.keep
      BY <2>3 DEF Ordered
    <3> QED BY <1>6, <1>7, <3>1, <3>2
  <2> QED BY <2>1, <2>2, <2>3
<1> QED BY <1>5, <1>8

(* What pruneSnapshots picks has enough newer ones. *)
LEMMA ExcessFloor == ASSUME TypeInv, NEW j \in Jobs, job[j].pc = "list",
                            NEW v \in Excess(Ours(Cur(j).form.label), Cur(j).form.keep)
    PROVE  v \in src /\ Floor(src, taken, v)
<1> DEFINE f == Cur(j).form
<1>1. Cur(j).id \in Policy /\ f \in Forms[Cur(j).id]
  BY CurIs
<1>2. v \in src /\ taken[v] \in Covers[f.label]
      /\ Cardinality({t \in Ours(f.label) : t > v}) >= f.keep
  BY DEF Excess, Ours
<1>3. {t \in Ours(f.label) : t > v} = After(src, taken, v, f.label)
  BY DEF Ours, After
<1> QED BY <1>1, <1>2, <1>3 DEF Floor

(* Every snapshot a job means to destroy has enough newer ones. *)
KeptInv == \A j \in Jobs : \A v \in job[j].victims : v \in src => Floor(src, taken, v)

(* Without Run now there is one job. *)
SingleInv == "now" \notin AdminOps => job["now"].pc = "idle" /\ job["now"].victims = {}

(* What a step may do to the snapshots: destroy the first a job means to, *)
Prunes(j) ==
  /\ taken' = taken
  /\ Least(job[j].victims) \in job[j].victims /\ Least(job[j].victims) \in src
  /\ \A v \in job[j].victims : Least(job[j].victims) <= v
  /\ src' = src \ {Least(job[j].victims)}
  /\ job'[j].victims = job[j].victims \ {Least(job[j].victims)}
  /\ \A k \in Jobs \ {j} : job'[k].victims = job[k].victims

(* or destroy none. *)
Grows ==
  /\ src \subseteq src' /\ Len(taken) <= Len(taken')
     /\ \A t \in 1..Len(taken) : taken'[t] = taken[t]
  /\ \A k \in Jobs : \/ job'[k].victims \subseteq job[k].victims
                     \/ job[k].pc = "list"
                        /\ job'[k].victims = Excess(Ours(Cur(k).form.label), Cur(k).form.keep)
  /\ \A k \in Jobs : \A v \in job'[k].victims : v \in 1..Len(taken)
     /\ (v \in src' => v \in src)

(* What a job means to destroy was taken. *)
LEMMA VictimRange ==
  ASSUME TypeInv, NEW k \in Jobs
  PROVE  job[k].victims \subseteq 1..Len(taken)
<1>1. job[k] \in JobRec(Len(taken))
  BY RecOf
<1> QED BY <1>1 DEF JobRec

(* A step that leaves the snapshots alone. *)
LEMMA StillGrows ==
  ASSUME TypeInv, src' = src, taken' = taken,
         \A k \in Jobs : job'[k].victims \subseteq job[k].victims
    PROVE Grows
  BY VictimRange DEF Grows

(* Every step of a job does one or the other ... *)
LEMMA JobSnaps == ASSUME TypeInv, NEW j \in Jobs, JobStep(j) PROVE Prunes(j) \/ Grows
<1>1. CASE CreateSnapshot(j)
  <2>1. /\ \A k \in Jobs : job'[k].victims = job[k].victims
        /\ Len(taken') = Len(taken) + 1 /\ \A i \in 1..Len(taken) : taken'[i] = taken[i]
        /\ src' = src \cup {Len(taken) + 1}
    BY <1>1, CreateIs
  <2>2. Len(taken) \in Nat
    BY RecOf
  <2>3. \A k \in Jobs : \A v \in job'[k].victims : v \in 1..Len(taken)
        /\ (v \in src' => v \in src)
    BY <2>1, <2>2, VictimRange
  <2> QED BY <2>1, <2>2, <2>3 DEF Grows
<1>2. CASE SnapshotFails(j) \/ NoReplication(j)
  BY <1>2, FailsIs, StillGrows
<1>3. CASE PruneList(j)
  <2>1. /\ src' = src /\ taken' = taken /\ \A k \in Jobs \ {j} : job'[k] = job[k]
        /\ job[j].pc = "list"
        /\ \/ job'[j].victims = Excess(Ours(Cur(j).form.label), Cur(j).form.keep)
           \/ job'[j].victims = job[j].victims
    BY <1>3, ListIs
  <2>2. \A v \in Excess(Ours(Cur(j).form.label), Cur(j).form.keep) : v \in src
    BY DEF Excess, Ours
  <2>3. src \subseteq 1..Len(taken) /\ Len(taken) \in Nat
    BY RecOf DEF TypeInv, Store
  <2>4. \A k \in Jobs : \A v \in job'[k].victims : v \in 1..Len(taken)
    BY <2>1, <2>2, <2>3, VictimRange
  <2>5. \A k \in Jobs : \/ job'[k].victims \subseteq job[k].victims
                        \/ job[k].pc = "list"
                           /\ job'[k].victims = Excess(Ours(Cur(k).form.label),
                              Cur(k).form.keep)
    BY <2>1
  <2> QED BY <2>1, <2>3, <2>4, <2>5 DEF Grows
<1>4. CASE PruneDestroy(j) \/ PruneDone(j) \/ NoLocalReplication(j)
  <2> DEFINE t == Least(job[j].victims)
  <2>1. /\ taken' = taken /\ \A k \in Jobs \ {j} : job'[k] = job[k]
        /\ \/ /\ t \in job[j].victims /\ \A v \in job[j].victims : t <= v
              /\ job'[j].victims = job[j].victims \ {t}
              /\ src' \in {src, src \ {t}}
           \/ job'[j].victims = job[j].victims /\ src' = src
    BY <1>4, DestroyIs
  <2>2. CASE t \in src /\ t \in job[j].victims /\ src' = src \ {t}
             /\ job'[j].victims = job[j].victims \ {t}
             /\ \A v \in job[j].victims : t <= v
    BY <2>1, <2>2 DEF Prunes
  <2>3. CASE src' = src /\ job'[j].victims \subseteq job[j].victims
    <3>1. \A k \in Jobs : job'[k].victims \subseteq job[k].victims
      BY <2>1, <2>3
    <3> QED BY <2>1, <2>3, <3>1, StillGrows
  <2>4. src \ {t} = src \/ t \in src
    OBVIOUS
  <2> HIDE DEF t
  <2> QED BY <2>1, <2>2, <2>3, <2>4
<1>5. CASE RunLocalReplication(j)
  BY <1>5, LocalIs, StillGrows
<1>6. CASE PrepareReplication(j)
  BY <1>6, PrepareIs, StillGrows
<1>7. CASE RunReplication(j)
  BY <1>7, SendIs, StillGrows
<1>8. CASE SavePolicies(j)
  <2>1. src' = src /\ taken' = taken
        /\ \A k \in Jobs : job'[k] = IF k = j THEN Idle ELSE job[k]
    BY <1>8, SaveIs
  <2>2. Idle.victims = {}
    BY DEF Idle
  <2> QED BY <2>1, <2>2, StillGrows
<1> QED BY <1>1, <1>2, <1>3, <1>4, <1>5, <1>6, <1>7, <1>8 DEF JobStep

(* ... and every other step. *)
LEMMA StepSnaps == ASSUME TypeInv, [Next]_vars PROVE (\E j \in Jobs : Prunes(j)) \/ Grows
<1>1. CASE UNCHANGED vars
  <2>1. src' = src /\ taken' = taken /\ job' = job
    BY <1>1 DEF vars
  <2> QED BY <2>1, StillGrows
<1>2. CASE \E j \in Jobs : JobStep(j)
  BY <1>2, JobSnaps
<1>3. CASE TickPolicies \/ HandleRunScheduleNow
  <2>1. PICK j \in Jobs, todo \in SUBSET DOMAIN file : BeginStep(j, todo)
    BY <1>3, BeginSteps
  <2>2. /\ src' = src /\ taken' = taken /\ job'[j].victims = {}
        /\ \A k \in Jobs \ {j} : job'[k] = Joined[k]
    BY <2>1, BeginIs DEF BeginStep
  <2>3. \A k \in Jobs : job'[k].victims \subseteq job[k].victims
    BY <2>2, JoinedIs
  <2> QED BY <2>2, <2>3, StillGrows
<1>4. CASE EditStep
  BY <1>4, EditIs, JoinedIs, StillGrows
<1>5. CASE SaveEdit
  BY <1>5, SaveEditIs, StillGrows
<1>6. CASE Wipe
  BY <1>6, WipeIs, JoinedIs, StillGrows
<1>7. CASE Crash
  <2>1. src' = src /\ taken' = taken /\ \A k \in Jobs : job'[k] = Idle
    BY <1>7, CrashIs
  <2>2. Idle.victims = {}
    BY DEF Idle
  <2> QED BY <2>1, <2>2, StillGrows
<1> QED BY <1>1, <1>2, <1>3, <1>4, <1>5, <1>6, <1>7 DEF Next, EditStep

(* An idle job makes no step. *)
LEMMA IdleStep == ASSUME TypeInv, NEW j \in Jobs, JobStep(j) PROVE job[j].pc # "idle"
  BY CreateIs, FailsIs, ListIs, DestroyIs, LocalIs, PrepareIs, SendIs, SaveIs DEF JobStep

(* Every step keeps SingleInv, *)
LEMMA SingleNext == ASSUME TypeInv, SingleInv, [Next]_vars PROVE SingleInv'
<1> SUFFICES ASSUME "now" \notin AdminOps PROVE job'["now"].pc = "idle"
/\ job'["now"].victims = {}
  BY DEF SingleInv
<1>0. "now" \in Jobs /\ job["now"].pc = "idle" /\ job["now"].victims = {}
  BY DEF Jobs, SingleInv
<1>1. CASE UNCHANGED vars
  BY <1>0, <1>1 DEF vars
<1>2. CASE \E j \in Jobs : JobStep(j)
  <2>1. PICK j \in Jobs : JobStep(j)
    BY <1>2
  <2>2. j # "now"
    BY <1>0, <2>1, IdleStep
  <2> QED BY <1>0, <2>1, <2>2, JobOthers
<1>3. CASE TickPolicies \/ HandleRunScheduleNow
  <2>1. PICK j \in Jobs, todo \in SUBSET DOMAIN file : BeginStep(j, todo)
        /\ (j = "now" => "now" \in AdminOps)
    BY <1>3, BeginSteps
  <2>2. \A k \in Jobs \ {j} : job'[k] = Joined[k]
    BY <2>1, BeginIs DEF BeginStep
  <2>3. j # "now"
    BY <2>1
  <2> QED BY <1>0, <2>2, <2>3, JoinedIs
<1>4. CASE EditStep
  BY <1>0, <1>4, EditIs, JoinedIs
<1>5. CASE SaveEdit
  BY <1>0, <1>5, SaveEditIs
<1>6. CASE Wipe
  BY <1>0, <1>6, WipeIs, JoinedIs
<1>7. CASE Crash
  BY <1>0, <1>7, CrashIs DEF Idle
<1> QED BY <1>1, <1>2, <1>3, <1>4, <1>5, <1>6, <1>7 DEF Next, EditStep

(* and KeptInv if it destroys nothing, *)
LEMMA KeptGrows ==
  ASSUME TypeInv, KeptInv, Grows, Len(taken') \in Nat, src' \subseteq 1..Len(taken')
  PROVE  KeptInv'
<1> SUFFICES ASSUME NEW k \in Jobs, NEW v \in job'[k].victims, v \in src'
             PROVE  Floor(src', taken', v)
  BY DEF KeptInv
<1>1. v \in src /\ src \subseteq 1..Len(taken) /\ Len(taken) \in Nat
  BY RecOf DEF Grows, TypeInv, Store
<1>2. /\ src \in SUBSET (1..Len(taken')) /\ src' \in SUBSET (1..Len(taken'))
         /\ src \subseteq src'
      /\ \A t \in src : taken'[t] = taken[t]
  BY <1>1 DEF Grows
<1>3. Floor(src, taken, v)
  <2>1. CASE job'[k].victims \subseteq job[k].victims
    BY <1>1, <2>1 DEF KeptInv
  <2>2. CASE job[k].pc = "list"
             /\ job'[k].victims = Excess(Ours(Cur(k).form.label), Cur(k).form.keep)
    BY <2>2, ExcessFloor
  <2> QED BY <2>1, <2>2 DEF Grows
<1> QED BY <1>1, <1>2, <1>3, FloorGrows

(* and if it destroys something. *)
LEMMA KeptPrunes ==
  ASSUME TypeInv, SingleInv, KeptInv, Prudent, NEW j \in Jobs, Prunes(j)
  PROVE  KeptInv'
<1> SUFFICES ASSUME NEW k \in Jobs, NEW v \in job'[k].victims, v \in src'
             PROVE  Floor(src', taken', v)
  BY DEF KeptInv
<1> DEFINE t == Least(job[j].victims)
<1>1. /\ taken' = taken /\ t \in job[j].victims /\ t \in src /\ src' = src \ {t}
      /\ \A w \in job[j].victims : t <= w
      /\ job'[j].victims = job[j].victims \ {t}
      /\ \A q \in Jobs \ {j} : job'[q].victims = job[q].victims
  BY DEF Prunes
<1>2. src \in SUBSET (1..Len(taken)) /\ Len(taken) \in Nat
  BY RecOf DEF TypeInv, Store
<1> HIDE DEF t
<1>3. v \in src /\ v # t /\ v \in job[k].victims
  BY <1>1
<1>4. Floor(src, taken, v) /\ Floor(src, taken, t)
  BY <1>1, <1>3 DEF KeptInv
<1>5. CASE t < v
  BY <1>1, <1>2, <1>3, <1>4, <1>5, FloorLater
<1>6. CASE v < t
  <2>1. k # j
    BY <1>1, <1>2, <1>3, <1>6
  <2>2. job["now"].victims # {}
    BY <1>1, <1>3, <2>1 DEF Jobs
  <2>3. Ordered
    BY <2>2 DEF Prudent, SingleInv
  <2> QED BY <1>1, <1>2, <1>3, <1>4, <1>6, <2>3, FloorPasses
<1> QED BY <1>2, <1>1, <1>3, <1>5, <1>6

(* The step that RetentionFloor allows. *)
RetentionStep ==
  \A s \in src \ src' : \E p \in Policy : \E f \in Forms[p] :
    /\ taken[s] \in Covers[f.label]
    /\ Cardinality({t \in src' : t > s /\ taken[t] \in Covers[f.label]}) >= f.keep

(* KeptInv allows no other. *)
LEMMA KeptStep == ASSUME TypeInv, KeptInv, [Next]_vars PROVE RetentionStep
<1>1. CASE Grows
  BY <1>1 DEF Grows, RetentionStep
<1>2. CASE \E j \in Jobs : Prunes(j)
  <2>1. PICK j \in Jobs : Prunes(j)
    BY <1>2
  <2> DEFINE t == Least(job[j].victims)
  <2>2. t \in job[j].victims /\ t \in src /\ src' = src \ {t}
    BY <2>1 DEF Prunes
  <2>3. Floor(src, taken, t)
    BY <2>2 DEF KeptInv
  <2>4. PICK p \in Policy : \E f \in Forms[p] :
          taken[t] \in Covers[f.label] /\ Cardinality(After(src, taken, t, f.label)) >= f.keep
    BY <2>3 DEF Floor
  <2>5. PICK f \in Forms[p] :
          taken[t] \in Covers[f.label] /\ Cardinality(After(src, taken, t, f.label)) >= f.keep
    BY <2>4
  <2>6. src \subseteq Nat
    BY RecOf DEF TypeInv, Store, Jobs
  <2> HIDE DEF t
  <2>7. After(src, taken, t, f.label) = {x \in src' : x > t /\ taken[x] \in Covers[f.label]}
    BY <2>2, <2>6 DEF After
  <2>8. \A s \in src \ src' : s = t
    BY <2>2
  <2> QED BY <2>5, <2>7, <2>8 DEF RetentionStep
<1> QED BY <1>1, <1>2, StepSnaps

(* The inductive invariant of RetentionFloor. *)
RetentionInv == TypeInv /\ SingleInv /\ KeptInv

(* It holds initially. *)
LEMMA RetentionInit == Init => RetentionInv
<1> SUFFICES ASSUME Init PROVE RetentionInv
  OBVIOUS
<1>1. job = [j \in Jobs |-> Idle]
  BY DEF Init
<1>2. Idle.pc = "idle" /\ Idle.victims = {}
  BY DEF Idle
<1> QED BY <1>1, <1>2, TypeInit DEF RetentionInv, SingleInv, KeptInv, Jobs

(* Every step keeps it and is one that RetentionFloor allows. *)
LEMMA RetentionNext == Prudent /\ RetentionInv /\ [Next]_vars => RetentionInv' /\ RetentionStep
<1> SUFFICES ASSUME Prudent, RetentionInv, [Next]_vars PROVE RetentionInv' /\ RetentionStep
  OBVIOUS
<1>0. TypeInv /\ SingleInv /\ KeptInv
  BY DEF RetentionInv
<1>1. TypeInv'
  BY <1>0, TypeNext
<1>2. SingleInv'
  BY <1>0, SingleNext
<1>3. Len(taken') \in Nat /\ src' \subseteq 1..Len(taken')
  <2>1. taken' \in Seq(Label) /\ src' \subseteq 1..Len(taken')
    BY <1>1 DEF TypeInv, Store
  <2> QED BY <2>1, LenProperties
<1>4. KeptInv'
  <2>1. CASE Grows
    BY <1>0, <1>3, <2>1, KeptGrows
  <2>2. CASE \E j \in Jobs : Prunes(j)
    BY <1>0, <2>2, KeptPrunes
  <2> QED BY <1>0, <2>1, <2>2, StepSnaps
<1>5. RetentionStep
  BY <1>0, KeptStep
<1> QED BY <1>1, <1>2, <1>4, <1>5 DEF RetentionInv

(* Retention destroys a snapshot only while as many newer ones exist as some policy that *)
(* counts it keeps, even when a tick and Run now prune from lists the other has made     *)
(* stale, provided that the labels are ordered or Run now is not used (pruneSnapshots).  *)
THEOREM RetentionKeeps ==
  ASSUME Prudent
  PROVE  Spec => RetentionFloor
<1>1. RetentionInv /\ [Next]_vars => RetentionInv'
  BY RetentionNext
<1>2. Spec => []RetentionInv
  BY RetentionInit, <1>1, PTL DEF Spec
<1>3. RetentionInv /\ [Next]_vars => [RetentionStep]_vars
  BY RetentionNext
<1>4. Spec => [][RetentionStep]_vars
  BY <1>2, <1>3, PTL DEF Spec
<1> QED BY <1>4, PTL DEF RetentionFloor, RetentionStep

(***************************************************************************)
(* Ids.                                                                    *)
(***************************************************************************)
(* No id is used twice, none of those still unused is in a copy of the file. *)
IdsInv ==
  /\ Clean(file, unused) /\ Clean(adm.mem, unused)
  /\ \A j \in Jobs : Clean(job[j].mem, unused)

(* Clean with fewer unused ids, *)
LEMMA CleanLess == ASSUME NEW m, NEW u, NEW w, w \subseteq u, Clean(m, u) PROVE Clean(m, w)
  BY DEF Clean

(* the same ids, *)
LEMMA CleanSame ==
  ASSUME NEW m, NEW k, NEW u, Len(k) = Len(m), \A i \in 1..Len(m) : k[i].id = m[i].id,
         Clean(m, u)
    PROVE  Clean(k, u)
  BY DEF Clean, Distinct, IdSet

(* no ids. *)
LEMMA CleanEmpty == ASSUME NEW u PROVE Clean(<<>>, u)
<1>1. Len(<<>>) = 0
  BY EmptySeq
<1>2. 1..Len(<<>>) = {}
  BY <1>1
<1> QED BY <1>2 DEF Clean, Distinct, IdSet

(* A job changes the run state of its entries only. *)
LEMMA JobForms == ASSUME TypeInv, NEW j \in Jobs, JobStep(j), ~SavePolicies(j)
    PROVE  /\ Len(job'[j].mem) = Len(job[j].mem)
           /\ \A i \in 1..Len(job[j].mem) : job'[j].mem[i].id = job[j].mem[i].id
              /\ job'[j].mem[i].form = job[j].mem[i].form
<1>1. CASE job'[j].mem = job[j].mem
  BY <1>1
<1>2. CASE RunLocalReplication(j) \/ RunReplication(j)
  <2>1. job[j].pc \notin {"idle", "save"}
    BY <1>2 DEF RunLocalReplication, RunReplication
  <2>2. Cur(j) = job[j].mem[At(j)]
    BY DEF Cur
  <2>3. /\ Len(job'[j].mem) = Len(job[j].mem)
        /\ \A i \in 1..Len(job[j].mem) : i # At(j) => job'[j].mem[i] = job[j].mem[i]
        /\ job'[j].mem[At(j)].id = Cur(j).id /\ job'[j].mem[At(j)].form = Cur(j).form
    BY <1>2, LocalIs, SendIs
  <2> QED BY <2>2, <2>3
<1> QED BY <1>1, <1>2, CreateIs, FailsIs, ListIs, DestroyIs, PrepareIs DEF JobStep

(* Every step of a job keeps IdsInv. *)
LEMMA IdsJob == ASSUME TypeInv, IdsInv, NEW j \in Jobs, JobStep(j) PROVE IdsInv'
<1>1. /\ adm' = adm /\ unused' = unused /\ \A k \in Jobs \ {j} : job'[k] = job[k]
      /\ ~SavePolicies(j) => file' = file
  BY JobOthers
<1>2. CASE SavePolicies(j)
  <2>1. job'[j] = Idle /\ (file' = job[j].mem \/ file' = file)
    BY <1>2, SaveIs
  <2>2. Clean(job'[j].mem, unused)
    BY <2>1, CleanEmpty DEF Idle
  <2>3. Clean(file', unused)
    BY <2>1 DEF IdsInv
  <2> QED BY <1>1, <2>2, <2>3 DEF IdsInv
<1>3. CASE ~SavePolicies(j)
  <2>1. /\ Len(job'[j].mem) = Len(job[j].mem)
        /\ \A i \in 1..Len(job[j].mem) : job'[j].mem[i].id = job[j].mem[i].id
    BY <1>3, JobForms
  <2>2. Clean(job'[j].mem, unused)
    BY <2>1, CleanSame DEF IdsInv
  <2> QED BY <1>1, <1>3, <2>2 DEF IdsInv
<1> QED BY <1>2, <1>3

(* IdsInv holds initially. *)
LEMMA IdsInit == Init => IdsInv
<1> SUFFICES ASSUME Init PROVE IdsInv
  OBVIOUS
<1>1. PICK f \in [DOMAIN First -> UNION {Forms[p] : p \in Policy}] :
        file = [i \in DOMAIN First |-> Entry(First[i], f[i])]
  BY DEF Init
<1>2. job = [j \in Jobs |-> Idle] /\ adm = NoEdit
      /\ unused = Policy \ {First[i] : i \in DOMAIN First}
  BY DEF Init
<1>3. First \in Seq(Policy) /\ \A i, k \in DOMAIN First : First[i] = First[k] => i = k
  BY ScheduleAssumption DEF ScheduleAssumption
<1>4. DOMAIN First = 1..Len(First) /\ Len(First) \in Nat
  BY <1>3, LenProperties
<1>5. file \in Seq(Entries(Len(taken)))
  BY TypeInit DEF TypeInv, FileInv
<1>6. DOMAIN file = 1..Len(file) /\ Len(file) \in Nat
  BY <1>5, LenProperties
<1>7. 1..Len(file) = DOMAIN First
  BY <1>1, <1>6
<1>8. \A i \in 1..Len(file) : file[i].id = First[i]
  BY <1>1, <1>7 DEF Entry
<1>9. Clean(file, unused)
  BY <1>2, <1>3, <1>7, <1>8 DEF Clean, Distinct, IdSet
<1>10. Clean(adm.mem, unused) /\ \A j \in Jobs : Clean(job[j].mem, unused)
  BY <1>2, CleanEmpty DEF NoEdit, Idle
<1> QED BY <1>9, <1>10 DEF IdsInv

(* Every step keeps IdsInv. *)
LEMMA IdsNext == ASSUME TypeInv, IdsInv, [Next]_vars PROVE IdsInv'
<1>1. CASE UNCHANGED vars
  BY <1>1 DEF vars, IdsInv
<1>2. CASE \E j \in Jobs : JobStep(j)
  BY <1>2, IdsJob
<1>3. CASE TickPolicies \/ HandleRunScheduleNow
  <2>1. PICK j \in Jobs, todo \in SUBSET DOMAIN file : BeginStep(j, todo)
    BY <1>3, BeginSteps
  <2>2. /\ file' = file /\ adm'.mem = adm.mem /\ unused' = unused /\ job'[j].mem = file
        /\ \A k \in Jobs \ {j} : job'[k] = Joined[k]
    BY <2>1, BeginIs DEF BeginStep
  <2>3. \A k \in Jobs : Clean(job'[k].mem, unused)
    BY <2>2, JoinedIs DEF IdsInv
  <2> QED BY <2>2, <2>3 DEF IdsInv
<1>4. CASE EditStep
  <2>1. /\ job' = Joined /\ file' = file /\ unused' \subseteq unused
        /\ Clean(file, unused) => Clean(adm'.mem, unused')
    BY <1>4, EditIs
  <2>2. \A k \in Jobs : job'[k].mem = job[k].mem
    BY <2>1, JoinedIs
  <2> QED BY <2>1, <2>2, CleanLess DEF IdsInv
<1>5. CASE SaveEdit
  <2>1. job' = job /\ unused' = unused /\ adm' = NoEdit /\ (file' = adm.mem \/ file' = file)
    BY <1>5, SaveEditIs
  <2> QED BY <2>1, CleanEmpty DEF IdsInv, NoEdit
<1>6. CASE Wipe
  <2>1. job' = Joined /\ file' = file /\ adm' = adm /\ unused' = unused
    BY <1>6, WipeIs
  <2>2. \A k \in Jobs : job'[k].mem = job[k].mem
    BY <2>1, JoinedIs
  <2> QED BY <2>1, <2>2 DEF IdsInv
<1>7. CASE Crash
  <2>1. /\ file' = file /\ adm' = NoEdit /\ unused' = unused
        /\ \A k \in Jobs : job'[k] = Idle
    BY <1>7, CrashIs
  <2> QED BY <2>1, CleanEmpty DEF IdsInv, NoEdit, Idle
<1> QED BY <1>1, <1>2, <1>3, <1>4, <1>5, <1>6, <1>7 DEF Next, EditStep

(***************************************************************************)
(* A job that has the file to itself.                                      *)
(***************************************************************************)
Loaded(r, m) ==
  /\ Len(r.mem) = Len(m)
  /\ \A i \in 1..Len(m) :
       /\ r.mem[i].id = m[i].id /\ r.mem[i].form = m[i].form
       /\ i \in r.todo \/ r.mem[i].id \notin r.ran => r.mem[i].lastRep = m[i].lastRep
       /\ i \in r.todo /\ ~(r.pc \in {"remote", "send"} /\ i = Least(r.todo))
            => r.mem[i].lastLocal = m[i].lastLocal
       /\ r.mem[i].id \in r.bad => i \notin r.todo /\ r.mem[i].lastRep = 0

(* A policy whose replication has failed without a fault had no strike. *)
FirstBad(r, s) == \A p \in r.bad : s[p] = 0 /\ p \in r.ran

(* The snapshot a job works on is there and stays. *)
AtWork(r, S, n) ==
  r.pc \in Working =>
    /\ r.snap \in S /\ \A v \in r.victims : v < r.snap
    /\ r.mem[Least(r.todo)].id \in r.ran
    /\ r.pc = "list" => r.snap = n

(* What PrepareReplication has found is still so. *)
Sending(r, S, D) ==
  r.pc = "send" =>
    /\ r.mem[Least(r.todo)].form.remote # NoDest
    /\ r.base = IF r.mem[Least(r.todo)].lastRep \in S THEN r.mem[Least(r.todo)].lastRep ELSE 0
    /\ r.base = 0 /\ ~r.hit => D[r.mem[Least(r.todo)].form.remote] = {}

(* Job j has the file to itself. *)
Sole(j) ==
  /\ adm.pc = "idle" /\ \A k \in Jobs \ {j} : job[k].pc = "idle"
  /\ job[j].pc # "idle"
  /\ Loaded(job[j], file) /\ FirstBad(job[j], strikes)
  /\ AtWork(job[j], src, Len(taken)) /\ Sending(job[j], src, dst)

(* So for every job that does. *)
SoleInv == \A j \in Jobs : job[j].solo => Sole(j)

(* An edit that has the file to itself. *)
EditInv ==
  adm.solo =>
    /\ adm.pc = "save" /\ \A j \in Jobs : job[j].pc = "idle"
    /\ \A i \in 1..Len(adm.mem) :
         \/ adm.mem[i].lastRep = 0
         \/ \E k \in 1..Len(file) : file[k].id = adm.mem[i].id
            /\ file[k].lastRep = adm.mem[i].lastRep

(* One strike at most, and then the next replication is a full one. *)
StrikeInv ==
  \A p \in Policy :
    /\ strikes[p] \in {0, 1}
    /\ strikes[p] = 1 => \A i \in 1..Len(file) : file[i].id = p => file[i].lastRep = 0

(* Once no job has the file to itself. *)
LEMMA NotSole == ASSUME \A j \in Jobs : ~job'[j].solo PROVE SoleInv'
  BY DEF SoleInv

(* The steps of a job that has the file to itself: the snapshot, *)
LEMMA SoleCreate == ASSUME TypeInv, NEW j \in Jobs, Sole(j), CreateSnapshot(j)
    PROVE  /\ Loaded(job'[j], file') /\ FirstBad(job'[j], strikes')
           /\ AtWork(job'[j], src', Len(taken')) /\ Sending(job'[j], src', dst')
<1> DEFINE r == job[j]
           s == job'[j]
           n == Len(taken)
<1>1. /\ r.pc = "snapshot" /\ s.pc = "list" /\ s.snap = n + 1 /\ s.ran = r.ran \cup {Cur(j).id}
      /\ s.mem = r.mem /\ s.todo = r.todo /\ s.victims = r.victims /\ s.bad = r.bad
      /\ Len(taken') = n + 1 /\ src' = src \cup {n + 1} /\ file' = file /\ strikes' = strikes
  BY CreateIs
<1>2. Cur(j) = r.mem[Least(r.todo)]
  BY DEF Cur, At
<1>3. r.victims \subseteq 1..n /\ n \in Nat
  BY VictimRange, RecOf
<1>4. Loaded(r, file) /\ FirstBad(r, strikes)
  BY DEF Sole
<1> HIDE DEF r, s, n
<1>5. Loaded(s, file)
  BY <1>1, <1>4 DEF Loaded
<1>6. FirstBad(s, strikes)
  BY <1>1, <1>4 DEF FirstBad
<1>7. AtWork(s, src', n + 1)
  BY <1>1, <1>2, <1>3 DEF AtWork
<1>8. Sending(s, src', dst')
  BY <1>1 DEF Sending
<1> QED BY <1>1, <1>5, <1>6, <1>7, <1>8 DEF s

(* none, or no replication, *)
LEMMA SoleFails ==
  ASSUME TypeInv, NEW j \in Jobs, Sole(j), SnapshotFails(j) \/ NoReplication(j)
    PROVE  /\ Loaded(job'[j], file') /\ FirstBad(job'[j], strikes')
           /\ AtWork(job'[j], src', Len(taken')) /\ Sending(job'[j], src', dst')
<1> DEFINE r == job[j]
           s == job'[j]
<1>1. /\ r.pc \in {"snapshot", "remote"} /\ s.pc \in {"save", "snapshot"}
      /\ s.todo = r.todo \ {Least(r.todo)} /\ s.mem = r.mem /\ s.bad = r.bad /\ s.ran = r.ran
      /\ file' = file /\ strikes' = strikes
  BY FailsIs DEF At
<1>2. Loaded(r, file) /\ FirstBad(r, strikes)
  BY DEF Sole
<1> HIDE DEF r, s
<1>5. Loaded(s, file)
  BY <1>1, <1>2 DEF Loaded
<1>6. FirstBad(s, strikes)
  BY <1>1, <1>2 DEF FirstBad
<1>7. AtWork(s, src', Len(taken')) /\ Sending(s, src', dst')
  BY <1>1 DEF AtWork, Sending, Working
<1> QED BY <1>1, <1>5, <1>6, <1>7 DEF s

(* (retention spares the newest) *)
LEMMA NewestSafe ==
  ASSUME TypeInv, NEW l \in Label, NEW k \in Nat, k >= 1, NEW v \in Excess(Ours(l), k)
    PROVE  v < Len(taken)
<1>1. src \subseteq 1..Len(taken) /\ Len(taken) \in Nat
  BY RecOf DEF TypeInv, Store, Jobs
<1>2. v \in src /\ Cardinality({t \in Ours(l) : t > v}) >= k
  BY DEF Excess, Ours
<1>3. ASSUME ~(v < Len(taken)) PROVE FALSE
  <2>1. {t \in Ours(l) : t > v} = {}
    <3>1. \A t \in Ours(l) : ~(t > v)
      BY <1>1, <1>2, <1>3 DEF Ours
    <3> QED BY <3>1, Zenon
  <2>2. Cardinality({t \in Ours(l) : t > v}) = 0
    BY <2>1, FS_EmptySet
  <2> QED BY <1>2, <2>2
<1> QED BY <1>3

(* the list of what to destroy, *)
LEMMA SoleList == ASSUME TypeInv, NEW j \in Jobs, Sole(j), PruneList(j)
    PROVE  /\ Loaded(job'[j], file') /\ FirstBad(job'[j], strikes')
           /\ AtWork(job'[j], src', Len(taken')) /\ Sending(job'[j], src', dst')
<1> DEFINE r == job[j]
           s == job'[j]
<1>1. /\ r.pc = "list" /\ s.pc \in {"destroy", "local"}
      /\ s.mem = r.mem /\ s.todo = r.todo /\ s.snap = r.snap /\ s.ran = r.ran /\ s.bad = r.bad
      /\ (s.victims = r.victims \/ s.victims = Excess(Ours(Cur(j).form.label),
            Cur(j).form.keep))
      /\ file' = file /\ strikes' = strikes /\ src' = src /\ taken' = taken
  BY ListIs
<1>2. Loaded(r, file) /\ FirstBad(r, strikes) /\ AtWork(r, src, Len(taken))
  BY DEF Sole
<1>3. \A v \in Excess(Ours(Cur(j).form.label), Cur(j).form.keep) : v < Len(taken)
  <2>1. Cur(j).form.label \in Label /\ Cur(j).form.keep \in Nat /\ Cur(j).form.keep >= 1
    BY <1>1, CurIs
  <2> QED BY <2>1, NewestSafe
<1> HIDE DEF r, s
<1>5. Loaded(s, file)
  BY <1>1, <1>2 DEF Loaded
<1>6. FirstBad(s, strikes)
  BY <1>1, <1>2 DEF FirstBad
<1>7. AtWork(s, src, Len(taken))
  BY <1>1, <1>2, <1>3 DEF AtWork, Working
<1>8. Sending(s, src', dst')
  BY <1>1 DEF Sending
<1> QED BY <1>1, <1>5, <1>6, <1>7, <1>8 DEF s

(* each of these, *)
LEMMA SoleDestroy ==
  ASSUME TypeInv, NEW j \in Jobs, Sole(j),
         PruneDestroy(j) \/ PruneDone(j) \/ NoLocalReplication(j)
    PROVE  /\ Loaded(job'[j], file') /\ FirstBad(job'[j], strikes')
           /\ AtWork(job'[j], src', Len(taken')) /\ Sending(job'[j], src', dst')
<1> DEFINE r == job[j]
           s == job'[j]
<1>1. /\ r.pc \in {"destroy", "local"} /\ s.pc \in {"destroy", "local", "remote"}
      /\ s.mem = r.mem /\ s.todo = r.todo /\ s.snap = r.snap /\ s.ran = r.ran /\ s.bad = r.bad
      /\ file' = file /\ strikes' = strikes
  BY DestroyIs
<1>a. \/ s.victims = r.victims /\ src' = src
      \/ /\ Least(r.victims) \in r.victims /\ s.victims = r.victims \ {Least(r.victims)}
         /\ src' \in {src, src \ {Least(r.victims)}}
  BY DestroyIs
<1>2. Loaded(r, file) /\ FirstBad(r, strikes) /\ AtWork(r, src, Len(taken))
  BY DEF Sole
<1>3. r.snap \in Nat /\ r.victims \subseteq Nat
  <2>1. r \in JobRec(Len(taken)) /\ Len(taken) \in Nat
    BY RecOf
  <2> QED BY <2>1 DEF JobRec
<1> HIDE DEF r, s
<1>5. Loaded(s, file)
  BY <1>1, <1>2 DEF Loaded
<1>6. FirstBad(s, strikes)
  BY <1>1, <1>2 DEF FirstBad
<1>b. r.snap \in src' /\ \A v \in s.victims : v < r.snap
  BY <1>1, <1>a, <1>2, <1>3 DEF AtWork, Working
<1>7. AtWork(s, src', Len(taken'))
  BY <1>1, <1>2, <1>b DEF AtWork, Working
<1>8. Sending(s, src', dst')
  BY <1>1 DEF Sending
<1> QED BY <1>1, <1>5, <1>6, <1>7, <1>8 DEF s

(* the local replication, *)
LEMMA SoleLocal == ASSUME TypeInv, NEW j \in Jobs, Sole(j), RunLocalReplication(j)
    PROVE  /\ Loaded(job'[j], file') /\ FirstBad(job'[j], strikes')
           /\ AtWork(job'[j], src', Len(taken')) /\ Sending(job'[j], src', dst')
<1> DEFINE r == job[j]
           s == job'[j]
           a == Least(r.todo)
<1>1. /\ r.pc = "local" /\ s.pc = "remote"
      /\ s.todo = r.todo /\ s.snap = r.snap /\ s.ran = r.ran /\ s.bad = r.bad
         /\ s.victims = r.victims
      /\ file' = file /\ strikes' = strikes /\ src' = src /\ taken' = taken
  BY LocalIs
<1>a. a \in 1..Len(r.mem) /\ Cur(j) = r.mem[a] /\ a \in r.todo
  BY <1>1, CurIs
<1>b. /\ Len(s.mem) = Len(r.mem) /\ \A i \in 1..Len(r.mem) : i # a => s.mem[i] = r.mem[i]
      /\ s.mem[a].id = r.mem[a].id /\ s.mem[a].form = r.mem[a].form
         /\ s.mem[a].lastRep = r.mem[a].lastRep
  BY <1>a, LocalIs DEF At
<1>2. Loaded(r, file) /\ FirstBad(r, strikes) /\ AtWork(r, src, Len(taken))
  BY DEF Sole
<1> HIDE DEF r, s, a
<1>3. s.todo = r.todo /\ Least(s.todo) = a
  BY <1>1 DEF a
<1>5. Loaded(s, file)
  <2>1. Len(s.mem) = Len(file)
    BY <1>2, <1>b DEF Loaded
  <2>2. \A i \in 1..Len(file) : s.mem[i].id = r.mem[i].id /\ s.mem[i].form = r.mem[i].form
                             /\ s.mem[i].lastRep = r.mem[i].lastRep
    BY <2>1, <1>b
  <2>3. \A i \in 1..Len(file) : i # a => s.mem[i].lastLocal = r.mem[i].lastLocal
    BY <2>1, <1>b
  <2> QED BY <1>1, <1>2, <1>3, <2>1, <2>2, <2>3 DEF Loaded
<1>6. FirstBad(s, strikes)
  BY <1>1, <1>2 DEF FirstBad
<1>7. AtWork(s, src, Len(taken))
  BY <1>1, <1>2, <1>3, <1>b DEF AtWork, Working, a
<1>8. Sending(s, src', dst')
  BY <1>1 DEF Sending
<1> QED BY <1>1, <1>5, <1>6, <1>7, <1>8 DEF s

(* the cleaning of the remote, *)
LEMMA SolePrepare == ASSUME TypeInv, NEW j \in Jobs, Sole(j), PrepareReplication(j)
    PROVE  /\ Loaded(job'[j], file') /\ FirstBad(job'[j], strikes')
           /\ AtWork(job'[j], src', Len(taken')) /\ Sending(job'[j], src', dst')
<1> DEFINE r == job[j]
           s == job'[j]
           e == r.mem[Least(r.todo)]
<1>1. /\ r.pc = "remote" /\ s.pc = "send"
      /\ s.mem = r.mem /\ s.todo = r.todo /\ s.snap = r.snap /\ s.ran = r.ran /\ s.bad = r.bad
      /\ s.victims = r.victims
      /\ file' = file /\ strikes' = strikes /\ src' = src /\ taken' = taken
  BY PrepareIs
<1>2. Loaded(r, file) /\ FirstBad(r, strikes) /\ AtWork(r, src, Len(taken))
  BY DEF Sole
<1>a. Cur(j) = e
  BY DEF Cur, At
<1>b. e.form.remote # NoDest /\ e.form.remote \in Dest \cup {NoDest}
  <2>1. Cur(j).form.remote # NoDest
    BY DEF PrepareReplication
  <2>2. job[j].pc \notin {"idle", "save"}
    BY <1>1
  <2>3. Cur(j).form.remote \in Dest \cup {NoDest}
    BY <2>2, CurIs
  <2> QED BY <1>a, <2>1, <2>3
<1>c. s.base = IF e.lastRep \in src THEN e.lastRep ELSE 0
  BY <1>a, PrepareIs DEF IncrementalBase
<1>d. s.base = 0 /\ ~s.hit => dst' = [dst EXCEPT ![e.form.remote] = {}]
  BY <1>a, PrepareIs
<1>e. dst \in [Dest -> SUBSET (1..Len(taken))]
  BY DEF TypeInv, Store
<1>f. s.base = 0 /\ ~s.hit => dst'[e.form.remote] = {}
  BY <1>b, <1>d, <1>e
<1> HIDE DEF r, s
<1>5. Loaded(s, file)
  BY <1>1, <1>2 DEF Loaded
<1>6. FirstBad(s, strikes)
  BY <1>1, <1>2 DEF FirstBad
<1>7. AtWork(s, src, Len(taken))
  BY <1>1, <1>2 DEF AtWork, Working
<1>8. Sending(s, src, dst')
  BY <1>1, <1>b, <1>c, <1>f DEF Sending
<1> QED BY <1>1, <1>5, <1>6, <1>7, <1>8 DEF s

(* and the send, which fails without a fault only if the base is missing on the remote. *)
LEMMA SoleFlows ==
  ASSUME TypeInv, NEW j \in Jobs, Sole(j), job[j].pc = "send", ~Flows(j, dst), ~job[j].hit
    PROVE  Cur(j).lastRep # 0 /\ Cur(j).lastRep \in src
           /\ Cur(j).lastRep \notin dst[Cur(j).form.remote]
<1>1. Cur(j) = job[j].mem[Least(job[j].todo)]
  BY DEF Cur, At
<1>2. /\ Cur(j).form.remote # NoDest
      /\ job[j].base = IF Cur(j).lastRep \in src THEN Cur(j).lastRep ELSE 0
      /\ job[j].base = 0 => dst[Cur(j).form.remote] = {}
  BY <1>1 DEF Sole, Sending
<1>3. job[j].snap \in src
  BY DEF Sole, AtWork, Working
<1>4. Target(j) = Cur(j).form.remote /\ StreamBase(j) = job[j].base
  BY DEF Target, StreamBase
<1>5. ~Receivable(dst[Cur(j).form.remote], job[j].base)
  BY <1>2, <1>3, <1>4 DEF Flows, Sendable
<1> QED BY <1>2, <1>5 DEF Receivable

(* A failure leaves no base. *)
LEMMA SoleSend == ASSUME TypeInv, IdsInv, StrikeInv, NEW j \in Jobs, Sole(j), RunReplication(j)
    PROVE  /\ Loaded(job'[j], file') /\ FirstBad(job'[j], strikes')
           /\ AtWork(job'[j], src', Len(taken')) /\ Sending(job'[j], src', dst')
<1> DEFINE r == job[j]
           s == job'[j]
           a == Least(r.todo)
<1>1. /\ r.pc = "send" /\ s.pc \in {"save", "snapshot"}
      /\ s.todo = r.todo \ {a} /\ s.ran = r.ran
      /\ file' = file /\ strikes' = strikes
  BY SendIs DEF At
<1>a. a \in 1..Len(r.mem) /\ Cur(j) = r.mem[a] /\ a \in r.todo /\ Cur(j).id \in Policy
  BY <1>1, CurIs
<1>b. /\ Len(s.mem) = Len(r.mem) /\ \A i \in 1..Len(r.mem) : i # a => s.mem[i] = r.mem[i]
      /\ s.mem[a].id = r.mem[a].id /\ s.mem[a].form = r.mem[a].form
  BY <1>a, SendIs DEF At
<1>c. \/ s.bad = r.bad
      \/ s.bad = r.bad \cup {r.mem[a].id} /\ s.mem[a].lastRep = 0 /\ ~Flows(j, dst) /\ ~r.hit
  BY <1>a, SendIs DEF At
<1>2. Loaded(r, file) /\ FirstBad(r, strikes) /\ AtWork(r, src, Len(taken))
  BY DEF Sole
<1>d. Distinct(r.mem)
  BY DEF IdsInv, Clean
<1>e. s.bad # r.bad => strikes[r.mem[a].id] = 0
  <2> HAVE s.bad # r.bad
  <2>1. Cur(j).lastRep # 0
    BY <1>1, <1>c, SoleFlows
  <2>2. a \in 1..Len(file) /\ file[a].id = r.mem[a].id /\ file[a].lastRep # 0
    BY <1>2, <1>a, <2>1 DEF Loaded
  <2> QED BY <1>a, <2>2 DEF StrikeInv
<1> HIDE DEF r, s, a
<1>5. Loaded(s, file)
  <2>1. Len(s.mem) = Len(file)
    BY <1>2, <1>b DEF Loaded
  <2>2. \A i \in 1..Len(file) : s.mem[i].id = file[i].id /\ s.mem[i].form = file[i].form
    BY <1>2, <2>1, <1>b DEF Loaded
  <2>3. r.mem[a].id \in r.ran /\ r.mem[a].id \notin r.bad
    BY <1>1, <1>2, <1>a, <2>1, <1>b DEF AtWork, Working, Loaded, a
  <2>4. \A i \in 1..Len(file) : i # a => s.mem[i] = r.mem[i] /\ s.mem[i].id # r.mem[a].id
    BY <2>1, <1>a, <1>b, <1>d DEF Distinct
  <2>5. \A i \in 1..Len(file) : i # a =>
          /\ i \in s.todo \/ s.mem[i].id \notin s.ran => s.mem[i].lastRep = file[i].lastRep
          /\ s.mem[i].id \in s.bad => i \notin s.todo /\ s.mem[i].lastRep = 0
    BY <1>1, <1>2, <1>c, <2>4 DEF Loaded
  <2>6. \A i \in 1..Len(file) : i \in s.todo => s.mem[i].lastLocal = file[i].lastLocal
    BY <1>1, <1>2, <2>4 DEF Loaded, a
  <2>7. s.mem[a].id \in s.ran /\ (s.mem[a].id \in s.bad => s.mem[a].lastRep = 0)
        /\ a \notin s.todo
    BY <1>1, <1>b, <1>c, <2>3
  <2> QED BY <1>1, <2>1, <2>2, <2>5, <2>6, <2>7 DEF Loaded
<1>6. FirstBad(s, strikes)
  <2>1. r.mem[a].id \in r.ran
    BY <1>1, <1>2 DEF AtWork, Working, a
  <2> QED BY <1>1, <1>2, <1>c, <1>e, <2>1 DEF FirstBad
<1>7. AtWork(s, src', Len(taken')) /\ Sending(s, src', dst')
  BY <1>1 DEF AtWork, Sending, Working
<1> QED BY <1>1, <1>5, <1>6, <1>7 DEF s

(***************************************************************************)
(* No policy fails twice.                                                  *)
(***************************************************************************)
(* The job still has the file to itself. *)
LEMMA SoleJob ==
  ASSUME TypeInv, IdsInv, StrikeInv, NEW j \in Jobs, JobStep(j), Sole(j), ~SavePolicies(j)
    PROVE  Sole(j)'
<1>1. adm' = adm /\ \A k \in Jobs \ {j} : job'[k] = job[k]
  BY JobOthers
<1>2. adm.pc = "idle" /\ \A k \in Jobs \ {j} : job[k].pc = "idle"
  BY DEF Sole
<1>3. job'[j].pc # "idle"
  BY CreateIs, FailsIs, ListIs, DestroyIs, LocalIs, PrepareIs, SendIs DEF JobStep
<1>4. /\ Loaded(job'[j], file') /\ FirstBad(job'[j], strikes')
      /\ AtWork(job'[j], src', Len(taken')) /\ Sending(job'[j], src', dst')
  BY SoleCreate, SoleFails, SoleList, SoleDestroy, SoleLocal, SolePrepare, SoleSend DEF JobStep
<1> QED BY <1>1, <1>2, <1>3, <1>4 DEF Sole

(* A job that begins when all is quiet has the file to itself. *)
LEMMA SoleFresh ==
  ASSUME TypeInv, NEW j \in Jobs, NEW todo \in SUBSET DOMAIN file, todo # {}, Begin(j, todo),
         Quiet
    PROVE  Sole(j)'
<1> DEFINE s == job'[j]
<1>1. /\ s.pc = "snapshot" /\ s.mem = file /\ s.bad = {} /\ s.ran = {}
      /\ adm'.pc = adm.pc /\ file' = file /\ strikes' = strikes
      /\ \A k \in Jobs \ {j} : job'[k] = Joined[k]
  BY BeginIs
<1>2. adm'.pc = "idle" /\ \A k \in Jobs \ {j} : job'[k].pc = "idle"
  <2>1. adm'.pc = "idle"
    BY <1>1 DEF Quiet
  <2>2. ASSUME NEW k \in Jobs \ {j} PROVE job'[k].pc = "idle"
    <3>1. job'[k] = Joined[k]
      BY <1>1
    <3>2. Joined[k].pc = job[k].pc
      BY JoinedIs
    <3> QED BY <3>1, <3>2 DEF Quiet
  <2> QED BY <2>1, <2>2
<1> HIDE DEF s
<1>3. Loaded(s, file) /\ FirstBad(s, strikes)
  BY <1>1 DEF Loaded, FirstBad
<1>4. AtWork(s, src', Len(taken')) /\ Sending(s, src', dst')
  BY <1>1 DEF AtWork, Sending, Working
<1> QED BY <1>1, <1>2, <1>3, <1>4 DEF Sole, s

(* Every step of a job keeps SoleInv ... *)
LEMMA SoleJobs ==
  ASSUME TypeInv, IdsInv, StrikeInv, SoleInv, NEW j \in Jobs, JobStep(j)
  PROVE  SoleInv'
<1>0. /\ adm' = adm /\ \A k \in Jobs \ {j} : job'[k] = job[k]
  BY JobOthers
<1>1. ASSUME NEW k \in Jobs, job'[k].solo PROVE Sole(k)'
  <2>1. CASE k # j
    <3>1. job[k].solo
      BY <1>0, <1>1, <2>1
    <3>2. job[j].pc = "idle"
      BY <2>1, <3>1 DEF SoleInv, Sole
    <3> QED BY <3>2, IdleStep
  <2>2. CASE k = j /\ ~SavePolicies(j)
    <3>1. job[j].solo
      <4>1. job'[j].solo = job[j].solo
        BY <2>2, CreateIs, FailsIs, ListIs, DestroyIs, LocalIs, PrepareIs, SendIs DEF JobStep
      <4> QED BY <1>1, <2>2, <4>1
    <3> QED BY <2>2, <3>1, SoleJob DEF SoleInv
  <2>3. CASE k = j /\ SavePolicies(j)
    <3>1. job'[j] = Idle
      BY <2>3, SaveIs
    <3> QED BY <1>1, <2>3, <3>1 DEF Idle
  <2> QED BY <2>1, <2>2, <2>3
<1> QED BY <1>1 DEF SoleInv

(* ... and every other step. *)
LEMMA SoleNext == ASSUME TypeInv, IdsInv, StrikeInv, SoleInv, [Next]_vars PROVE SoleInv'
<1>1. CASE UNCHANGED vars
  BY <1>1 DEF vars, SoleInv, Sole
<1>2. CASE \E j \in Jobs : JobStep(j)
  BY <1>2, SoleJobs
<1>3. CASE TickPolicies \/ HandleRunScheduleNow
  <2>1. PICK j \in Jobs, todo \in SUBSET DOMAIN file : BeginStep(j, todo)
    BY <1>3, BeginSteps
  <2>2. job'[j].solo = Quiet /\ \A k \in Jobs \ {j} : ~job'[k].solo
    BY <2>1, BeginIs, JoinedIs DEF BeginStep
  <2>3. ASSUME NEW k \in Jobs, job'[k].solo PROVE Sole(k)'
    BY <2>1, <2>2, <2>3, SoleFresh DEF BeginStep
  <2> QED BY <2>3 DEF SoleInv
<1>4. CASE EditStep
  BY <1>4, EditIs, JoinedIs, NotSole
<1>5. CASE SaveEdit
  <2>1. adm.pc = "save" /\ job' = job
    BY <1>5, SaveEditIs
  <2>2. \A j \in Jobs : ~job'[j].solo
    BY <2>1 DEF SoleInv, Sole
  <2> QED BY <2>2, NotSole
<1>6. CASE Wipe
  BY <1>6, WipeIs, JoinedIs, NotSole
<1>7. CASE Crash
  <2>1. \A j \in Jobs : ~job'[j].solo
    BY <1>7, CrashIs DEF Idle
  <2> QED BY <2>1, NotSole
<1> QED BY <1>1, <1>2, <1>3, <1>4, <1>5, <1>6, <1>7 DEF Next, EditStep

(* Every step keeps EditInv. *)
LEMMA EditNext == ASSUME TypeInv, EditInv, [Next]_vars PROVE EditInv'
<1>1. CASE UNCHANGED vars
  BY <1>1 DEF vars, EditInv
<1>2. CASE \E j \in Jobs : JobStep(j)
  <2>1. PICK j \in Jobs : JobStep(j)
    BY <1>2
  <2>2. adm' = adm /\ job[j].pc # "idle"
    BY <2>1, JobOthers, IdleStep
  <2>3. ~adm.solo
    BY <2>2 DEF EditInv
  <2> QED BY <2>2, <2>3 DEF EditInv
<1>3. CASE TickPolicies \/ HandleRunScheduleNow
  <2>1. PICK j \in Jobs, todo \in SUBSET DOMAIN file : BeginStep(j, todo)
    BY <1>3, BeginSteps
  <2>2. adm'.solo = FALSE
    BY <2>1, BeginIs DEF BeginStep
  <2> QED BY <2>2 DEF EditInv
<1>4. CASE EditStep
  <2>1. /\ job' = Joined /\ file' = file /\ adm'.pc = "save" /\ adm'.solo = Quiet
        /\ Derived(adm'.mem)
    BY <1>4, EditIs
  <2>2. Quiet => \A j \in Jobs : job'[j].pc = "idle"
    BY <2>1, JoinedIs DEF Quiet
  <2> QED BY <2>1, <2>2 DEF EditInv, Derived
<1>5. CASE SaveEdit
  <2>1. adm' = NoEdit
    BY <1>5, SaveEditIs
  <2> QED BY <2>1 DEF EditInv, NoEdit
<1>6. CASE Wipe
  <2>1. job' = Joined /\ file' = file /\ adm' = adm
    BY <1>6, WipeIs
  <2> QED BY <2>1, JoinedIs DEF EditInv
<1>7. CASE Crash
  <2>1. adm' = NoEdit
    BY <1>7, CrashIs
  <2> QED BY <2>1 DEF EditInv, NoEdit
<1> QED BY <1>1, <1>2, <1>3, <1>4, <1>5, <1>6, <1>7 DEF Next, EditStep

(* The save of a job keeps StrikeInv, *)
LEMMA StrikeSave ==
  ASSUME TypeInv, StrikeInv, SoleInv, NEW j \in Jobs, SavePolicies(j)
  PROVE  StrikeInv'
<1> DEFINE r == job[j]
<1>1. \/ file' = r.mem /\ strikes' = Struck(r, TRUE)
      \/ file' = file /\ strikes' = Struck(r, FALSE)
  BY SaveIs
<1>2. r.pc = "save"
  BY SaveIs
<1>3. r.todo = {}
  <2>1. Shape(r)
    BY RecOf
  <2> QED BY <1>2, <2>1 DEF Shape
<1>4. r.solo => Loaded(r, file) /\ FirstBad(r, strikes)
  BY DEF SoleInv, Sole
<1>5. ASSUME NEW p \in Policy
      PROVE  /\ strikes'[p] \in {0, 1}
             /\ strikes'[p] = 1 => \A i \in 1..Len(file') : file'[i].id = p
                => file'[i].lastRep = 0
  <2>1. strikes[p] \in {0, 1}
        /\ (strikes[p] = 1 => \A i \in 1..Len(file) : file[i].id = p => file[i].lastRep = 0)
    BY DEF StrikeInv
  <2>2. CASE file' = file /\ strikes' = Struck(r, FALSE)
    <3>1. strikes'[p] = 0
      BY <2>2 DEF Struck
    <3> QED BY <3>1
  <2>3. CASE file' = r.mem /\ strikes' = Struck(r, TRUE) /\ r.solo /\ p \in r.bad
    <3>1. strikes[p] = 0
      BY <1>4, <2>3 DEF FirstBad
    <3>2. strikes'[p] = 1
      BY <2>3, <3>1 DEF Struck
    <3>3. \A i \in 1..Len(r.mem) : r.mem[i].id = p => r.mem[i].lastRep = 0
      BY <1>4, <2>3 DEF Loaded
    <3> QED BY <2>3, <3>2, <3>3
  <2>4. CASE file' = r.mem /\ strikes' = Struck(r, TRUE) /\ r.solo /\ p \notin r.bad
             /\ p \notin r.ran
    <3>1. strikes'[p] = strikes[p]
      BY <2>4 DEF Struck
    <3>2. Len(r.mem) = Len(file) /\ \A i \in 1..Len(file) : r.mem[i].id = file[i].id
          /\ (r.mem[i].id = p => r.mem[i].lastRep = file[i].lastRep)
      BY <1>4, <2>4 DEF Loaded
    <3> QED BY <2>1, <2>4, <3>1, <3>2
  <2>5. CASE strikes' = Struck(r, TRUE) /\ (~r.solo \/ (p \notin r.bad /\ p \in r.ran))
    <3>1. strikes'[p] = 0
      BY <2>5 DEF Struck
    <3> QED BY <3>1
  <2> QED BY <1>1, <2>2, <2>3, <2>4, <2>5
<1> QED BY <1>5 DEF StrikeInv

(* so does that of an edit, *)
LEMMA StrikeEdit == ASSUME TypeInv, StrikeInv, EditInv, SaveEdit PROVE StrikeInv'
<1>1. \/ file' = adm.mem /\ strikes' = IF adm.solo THEN strikes ELSE [p \in Policy |-> 0]
      \/ file' = file /\ strikes' = strikes
  BY SaveEditIs
<1>2. CASE file' = file /\ strikes' = strikes
  BY <1>2 DEF StrikeInv
<1>3. CASE strikes' = [p \in Policy |-> 0]
  BY <1>3 DEF StrikeInv
<1>4. CASE file' = adm.mem /\ strikes' = strikes /\ adm.solo
  <2>1. ASSUME NEW p \in Policy, strikes[p] = 1, NEW i \in 1..Len(adm.mem), adm.mem[i].id = p
        PROVE  adm.mem[i].lastRep = 0
    <3>1. CASE adm.mem[i].lastRep = 0
      BY <3>1
    <3>2. CASE \E k \in 1..Len(file) : file[k].id = adm.mem[i].id
               /\ file[k].lastRep = adm.mem[i].lastRep
      BY <2>1, <3>2 DEF StrikeInv
    <3> QED BY <1>4, <3>1, <3>2 DEF EditInv
  <2> QED BY <1>4, <2>1 DEF StrikeInv
<1> QED BY <1>1, <1>2, <1>3, <1>4

(* and every other step. *)
LEMMA StrikeNext == ASSUME TypeInv, StrikeInv, SoleInv, EditInv, [Next]_vars PROVE StrikeInv'
<1>1. CASE UNCHANGED vars
  BY <1>1 DEF vars, StrikeInv
<1>2. CASE \E j \in Jobs : JobStep(j)
  <2>1. PICK j \in Jobs : JobStep(j)
    BY <1>2
  <2>2. ~SavePolicies(j) => file' = file /\ strikes' = strikes
    BY <2>1, JobOthers
  <2>3. CASE ~SavePolicies(j)
    BY <2>2, <2>3 DEF StrikeInv
  <2> QED BY <2>1, <2>3, StrikeSave
<1>3. CASE TickPolicies \/ HandleRunScheduleNow
  <2>1. PICK j \in Jobs, todo \in SUBSET DOMAIN file : BeginStep(j, todo)
    BY <1>3, BeginSteps
  <2>2. file' = file /\ strikes' = strikes
    BY <2>1, BeginIs DEF BeginStep
  <2> QED BY <2>2 DEF StrikeInv
<1>4. CASE EditStep
  <2>1. file' = file /\ strikes' = strikes
    BY <1>4, EditIs
  <2> QED BY <2>1 DEF StrikeInv
<1>5. CASE SaveEdit
  BY <1>5, StrikeEdit
<1>6. CASE Wipe
  <2>1. file' = file /\ strikes' = strikes
    BY <1>6, WipeIs
  <2> QED BY <2>1 DEF StrikeInv
<1>7. CASE Crash
  <2>1. file' = file /\ strikes' = strikes
    BY <1>7, CrashIs
  <2> QED BY <2>1 DEF StrikeInv
<1> QED BY <1>1, <1>2, <1>3, <1>4, <1>5, <1>6, <1>7 DEF Next, EditStep

(* The inductive invariant of NeverTwice. *)
TwiceInv == TypeInv /\ IdsInv /\ SoleInv /\ EditInv /\ StrikeInv

(* It holds initially. *)
LEMMA TwiceInit == Init => TwiceInv
<1> SUFFICES ASSUME Init PROVE TwiceInv
  OBVIOUS
<1>1. job = [j \in Jobs |-> Idle] /\ adm = NoEdit /\ strikes = [p \in Policy |-> 0]
  BY DEF Init
<1>2. ~Idle.solo /\ ~NoEdit.solo
  BY DEF Idle, NoEdit
<1>3. SoleInv /\ EditInv /\ StrikeInv
  BY <1>1, <1>2 DEF SoleInv, EditInv, StrikeInv
<1> QED BY <1>3, TypeInit, IdsInit DEF TwiceInv

(* Every step keeps it. *)
LEMMA TwiceNext == TwiceInv /\ [Next]_vars => TwiceInv'
<1> SUFFICES ASSUME TwiceInv, [Next]_vars PROVE TwiceInv'
  OBVIOUS
<1>1. TypeInv /\ IdsInv /\ SoleInv /\ EditInv /\ StrikeInv
  BY DEF TwiceInv
<1>2. TypeInv'
  BY <1>1, TypeNext
<1>3. IdsInv'
  BY <1>1, IdsNext
<1>4. SoleInv'
  BY <1>1, SoleNext
<1>5. EditInv'
  BY <1>1, EditNext
<1>6. StrikeInv'
  BY <1>1, StrikeNext
<1> QED BY <1>2, <1>3, <1>4, <1>5, <1>6 DEF TwiceInv

(* Whatever overlaps, fails or crashes, and wherever policies replicate to, no policy   *)
(* fails twice in a row without a fault and with a remote that was cleaned if it had to *)
(* be: a failure resets the base, so that the second send is a full one                 *)
(* (RunReplication, execScheduledSnapshot).  A remote with several snapshots is not     *)
(* cleaned and refuses every full send: of that the theorem says nothing.               *)
THEOREM NeverTwice == Spec => [](\A p \in Policy : strikes[p] < 2)
<1>1. TwiceInv => \A p \in Policy : strikes[p] < 2
  BY DEF TwiceInv, StrikeInv
<1> QED BY <1>1, TwiceInit, TwiceNext, PTL DEF Spec

(***************************************************************************)
(* What the policies remember while nothing overlaps.                      *)
(***************************************************************************)
Usable(e, S, D) ==
  /\ e.lastRep # 0 /\ e.form.remote # NoDest
       => e.lastRep \in D[e.form.remote] \/ e.lastRep \notin S
  /\ e.lastLocal # 0 /\ e.form.local # NoDest => e.lastLocal \in D[e.form.local]

(* So for all entries of a list. *)
AllUsable(m, S, D) == \A i \in 1..Len(m) : Usable(m[i], S, D)

(* While nothing overlapped: whoever is at work has the file to itself, no replication *)
(* failed without a fault, and what any copy of the file remembers can be built on.    *)
CalmInv ==
  calm =>
    /\ \A j \in Jobs : job[j].pc # "idle" =>
         job[j].solo /\ job[j].bad = {} /\ AllUsable(job[j].mem, src, dst)
    /\ adm.pc # "idle" => adm.solo /\ AllUsable(adm.mem, src, dst)
    /\ \A p \in Policy : strikes[p] = 0
    /\ AllUsable(file, src, dst)

(* What the type invariant says of an entry. *)
LEMMA EntryIs == ASSUME NEW n, NEW m \in Seq(Entries(n)), NEW i \in 1..Len(m)
    PROVE  /\ m[i] \in Entries(n) /\ m[i].id \in Policy /\ m[i].form \in Form
           /\ m[i].form \in Forms[m[i].id]
           /\ m[i].form.local \in Dest \cup {NoDest} /\ m[i].form.remote \in Dest \cup {NoDest}
           /\ m[i].lastRep \in 0..n /\ m[i].lastLocal \in 0..n
<1>1. m[i] \in Entries(n)
  BY ElementOfSeq
<1>2. m[i].form \in Form
  BY <1>1 DEF Entries
<1>3. m[i].form.local \in Dest \cup {NoDest} /\ m[i].form.remote \in Dest \cup {NoDest}
  BY <1>2 DEF Form
<1> QED BY <1>1, <1>2, <1>3 DEF Entries

(* No other policy replicates to where a job does. *)
LEMMA WhereIs ==
  ASSUME TypeInv, IdsInv, DestApart, NEW j \in Jobs, Sole(j),
         job[j].pc \notin {"idle", "save"},
                        NEW i \in 1..Len(file), NEW d \in Dest
    PROVE  /\ file[i].form = job[j].mem[i].form
           /\ d = Cur(j).form.local => file[i].form.remote # d
              /\ (file[i].form.local = d => i = At(j))
           /\ d = Cur(j).form.remote => file[i].form.local # d
              /\ (file[i].form.remote = d => i = At(j))
<1>1. Loaded(job[j], file)
  BY DEF Sole
<1>2. i \in 1..Len(job[j].mem) /\ file[i].form = job[j].mem[i].form
  BY <1>1 DEF Loaded
<1>3. At(j) \in 1..Len(job[j].mem) /\ Cur(j) = job[j].mem[At(j)]
  BY CurIs
<1>4. job[j].mem \in Seq(Entries(Len(taken)))
  BY RecOf
<1> DEFINE e == job[j].mem[i]
           c == job[j].mem[At(j)]
<1>5. e.id \in Policy /\ e.form \in Forms[e.id] /\ c.id \in Policy /\ c.form \in Forms[c.id]
  BY <1>2, <1>3, <1>4, EntryIs
<1>6. d # NoDest
  BY ScheduleAssumption DEF ScheduleAssumption
<1>7. CASE i = At(j)
  <2>1. e = c
    BY <1>7
  <2>2. e.form.local # NoDest => e.form.local # e.form.remote
    BY <1>5 DEF DestApart
  <2> HIDE DEF e, c
  <2>3. /\ d = c.form.local => e.form.remote # d
        /\ d = c.form.remote => e.form.local # d
    BY <1>6, <2>1, <2>2
  <2> QED BY <1>2, <1>3, <1>7, <2>3 DEF e, c
<1>8. CASE i # At(j)
  <2>1. Distinct(job[j].mem)
    BY DEF IdsInv, Clean
  <2>2. e.id # c.id
    BY <1>2, <1>3, <1>8, <2>1 DEF Distinct
  <2>3. {c.form.local, c.form.remote} \cap {e.form.local, e.form.remote} \subseteq {NoDest}
    BY <1>5, <2>2 DEF DestApart
  <2> HIDE DEF e, c
  <2>4. d \in {c.form.local, c.form.remote} => e.form.local # d /\ e.form.remote # d
    BY <1>6, <2>3
  <2> QED BY <1>2, <1>3, <2>4 DEF e, c
<1> QED BY <1>7, <1>8

(* A stream changes nothing an entry is built on, *)
LEMMA StreamUsable ==
    ASSUME TypeInv, IdsInv, DestApart, NEW j \in Jobs, Sole(j),
           job[j].pc \in {"local", "send"},
           Target(j) \in Dest, NEW i \in 1..Len(file), NEW D,
           \A d \in Dest : \/ D[d] = dst[d]
                           \/ d = Target(j) /\ (StreamBase(j) # 0 => StreamBase(j) \in D[d]),
           NEW e \in {file[i], job[j].mem[i]}, Usable(e, src, dst)
    PROVE  Usable(e, src, D)
<1>1. Loaded(job[j], file) /\ Sending(job[j], src, dst)
  BY DEF Sole
<1>2. Cur(j) = job[j].mem[At(j)] /\ At(j) = Least(job[j].todo) /\ At(j) \in job[j].todo
  BY CurIs
<1>3. i \in 1..Len(job[j].mem) /\ e.form = job[j].mem[i].form
  BY <1>1 DEF Loaded
<1>4. e.form.local \in Dest \cup {NoDest} /\ e.form.remote \in Dest \cup {NoDest}
  <2>1. job[j].mem \in Seq(Entries(Len(taken)))
    BY RecOf
  <2> QED BY <1>3, <2>1, EntryIs
<1>5. CASE job[j].pc = "local"
  <2>1. Target(j) = Cur(j).form.local /\ StreamBase(j) = Cur(j).lastLocal
    BY <1>5 DEF Target, StreamBase
  <2>2. e.form.remote # Target(j) /\ (e.form.local = Target(j) => i = At(j))
    BY <1>3, <1>5, <2>1, WhereIs
  <2>3. i = At(j) => e.lastLocal = Cur(j).lastLocal
    BY <1>1, <1>2, <1>5 DEF Loaded
  <2>4. e.form.remote # NoDest => D[e.form.remote] = dst[e.form.remote]
    BY <1>4, <2>2
  <2>5. e.form.local # NoDest /\ e.lastLocal # 0 /\ e.lastLocal \in dst[e.form.local]
        => e.lastLocal \in D[e.form.local]
    BY <1>4, <2>1, <2>2, <2>3
  <2> QED BY <2>4, <2>5 DEF Usable
<1>6. CASE job[j].pc = "send"
  <2>1. Target(j) = Cur(j).form.remote /\ StreamBase(j) = job[j].base
    BY <1>6 DEF Target, StreamBase
  <2>2. e.form.local # Target(j) /\ (e.form.remote = Target(j) => i = At(j))
    BY <1>3, <1>6, <2>1, WhereIs
  <2>3. i = At(j) => e.lastRep = Cur(j).lastRep
    BY <1>1, <1>2, <1>6 DEF Loaded
  <2>4. job[j].base = IF Cur(j).lastRep \in src THEN Cur(j).lastRep ELSE 0
    BY <1>2, <1>6, <1>1 DEF Sending
  <2>5. e.form.local # NoDest => D[e.form.local] = dst[e.form.local]
    BY <1>4, <2>2
  <2>6. e.form.remote # NoDest /\ e.lastRep # 0
        /\ (e.lastRep \in dst[e.form.remote] \/ e.lastRep \notin src)
          => e.lastRep \in D[e.form.remote] \/ e.lastRep \notin src
    BY <1>4, <2>1, <2>2, <2>3, <2>4
  <2> QED BY <2>5, <2>6 DEF Usable
<1> QED BY <1>5, <1>6

(* nor does the cleaning of the remote, *)
LEMMA CleanUsable ==
    ASSUME TypeInv, IdsInv, DestApart, NEW j \in Jobs, Sole(j), job[j].pc = "remote",
           Cur(j).form.remote \in Dest, Cur(j).lastRep \notin src, NEW i \in 1..Len(file),
              NEW D,
           \A d \in Dest : d # Cur(j).form.remote => D[d] = dst[d],
           NEW e \in {file[i], job[j].mem[i]}, Usable(e, src, dst)
    PROVE  Usable(e, src, D)
<1>1. Loaded(job[j], file)
  BY DEF Sole
<1>2. Cur(j) = job[j].mem[At(j)] /\ At(j) = Least(job[j].todo) /\ At(j) \in job[j].todo
  BY CurIs
<1>3. i \in 1..Len(job[j].mem) /\ e.form = job[j].mem[i].form
  BY <1>1 DEF Loaded
<1>4. e.form.local \in Dest \cup {NoDest} /\ e.form.remote \in Dest \cup {NoDest}
  <2>1. job[j].mem \in Seq(Entries(Len(taken)))
    BY RecOf
  <2> QED BY <1>3, <2>1, EntryIs
<1>5. e.form.local # Cur(j).form.remote /\ (e.form.remote = Cur(j).form.remote => i = At(j))
  BY <1>3, WhereIs
<1>6. i = At(j) => e.lastRep = Cur(j).lastRep
  BY <1>1, <1>2 DEF Loaded
<1>7. e.form.local # NoDest => D[e.form.local] = dst[e.form.local]
  BY <1>4, <1>5
<1>8. e.form.remote # NoDest /\ e.form.remote # Cur(j).form.remote
      => D[e.form.remote] = dst[e.form.remote]
  BY <1>4
<1> QED BY <1>5, <1>6, <1>7, <1>8 DEF Usable

(* nor retention. *)
LEMMA FewerUsable ==
    ASSUME NEW n \in Nat, NEW m \in Seq(Entries(n)), NEW S, NEW T, NEW D,
           T \cap (1..n) \subseteq S, T \subseteq Nat \ {0},
           AllUsable(m, S, D)
    PROVE  AllUsable(m, T, D)
<1>1. ASSUME NEW i \in 1..Len(m) PROVE Usable(m[i], T, D)
  <2>1. m[i].lastRep \in 0..n
    BY EntryIs
  <2>2. m[i].lastRep \in T => m[i].lastRep \in S
    BY <2>1
  <2>3. Usable(m[i], S, D)
    BY DEF AllUsable
  <2> QED BY <2>2, <2>3 DEF Usable
<1> QED BY <1>1 DEF AllUsable

(* The parts of CalmInv a job may disturb. *)
CalmJob(j) ==
  /\ job[j].bad = {} /\ AllUsable(job[j].mem, src, dst)
  /\ AllUsable(file, src, dst)

(* A step that sends nothing keeps them. *)
LEMMA CalmStays == ASSUME TypeInv, NEW j \in Jobs, CalmJob(j),
                          \/ CreateSnapshot(j) \/ SnapshotFails(j) \/ PruneList(j)
                          \/ PruneDestroy(j) \/ PruneDone(j)
                          \/ NoLocalReplication(j) \/ NoReplication(j)
    PROVE  CalmJob(j)'
<1>1. /\ job'[j].mem = job[j].mem /\ job'[j].bad = job[j].bad
      /\ file' = file /\ dst' = dst
  BY CreateIs, FailsIs, ListIs, DestroyIs
<1>2. src' \subseteq src \cup {Len(taken) + 1}
  <2>1. CASE CreateSnapshot(j)
    BY <2>1, CreateIs
  <2>2. CASE ~CreateSnapshot(j)
    BY <2>2, FailsIs, ListIs, DestroyIs
  <2> QED BY <2>1, <2>2
<1>3. Len(taken) \in Nat /\ src \subseteq 1..Len(taken)
  BY RecOf DEF TypeInv, Store
<1>4. src' \cap (1..Len(taken)) \subseteq src /\ src' \subseteq Nat \ {0}
  BY <1>2, <1>3
<1>5. job[j].mem \in Seq(Entries(Len(taken))) /\ file \in Seq(Entries(Len(taken)))
  BY RecOf DEF TypeInv, FileInv
<1>6. AllUsable(job[j].mem, src', dst) /\ AllUsable(file, src', dst)
  BY <1>3, <1>4, <1>5, FewerUsable DEF CalmJob
<1> QED BY <1>1, <1>6 DEF CalmJob

(* A stream of j, for both copies of the file. *)
LEMMA CalmStream == ASSUME TypeInv, IdsInv, DestApart, NEW j \in Jobs, Sole(j), CalmJob(j),
                           job[j].pc \in {"local", "send"}, Target(j) # NoDest, NEW D,
                           \A d \in Dest : \/ D[d] = dst[d]
                                           \/ d = Target(j)
                                              /\ (StreamBase(j) # 0 => StreamBase(j) \in D[d])
    PROVE  AllUsable(job[j].mem, src, D) /\ AllUsable(file, src, D)
<1>1. Target(j) \in Dest
  BY CurIs DEF Target
<1>2. Len(job[j].mem) = Len(file)
  BY DEF Sole, Loaded
<1>3. ASSUME NEW i \in 1..Len(file)
      PROVE  Usable(file[i], src, D) /\ Usable(job[j].mem[i], src, D)
  <2>1. Usable(file[i], src, dst) /\ Usable(job[j].mem[i], src, dst)
    BY <1>2 DEF CalmJob, AllUsable
  <2> QED BY <1>1, <2>1, StreamUsable
<1> QED BY <1>2, <1>3 DEF AllUsable

(* What a stream leaves on the destinations, whole or cut. *)
LEMMA StreamLeaves == ASSUME TypeInv, NEW j \in Jobs,
                             dst' = dst \/ (Flows(j, dst)
                             /\ dst' = Arrived(j)) \/ dst' \in Cut(j, dst)
    PROVE  \A d \in Dest : \/ dst'[d] = dst[d]
                           \/ d = Target(j) /\ (StreamBase(j) # 0 => StreamBase(j) \in dst'[d])
<1>1. CASE Flows(j, dst) /\ dst' = Arrived(j)
  BY <1>1, ArrivedIs
<1>2. CASE dst' \in Cut(j, dst)
  <2>1. dst \in [Dest -> SUBSET (1..Len(taken))]
    BY DEF TypeInv, Store
  <2> QED BY <1>2, <2>1, CutIs
<1> QED BY <1>1, <1>2

(* The local replication keeps CalmJob, *)
LEMMA CalmLocal ==
  ASSUME TypeInv, IdsInv, DestApart, NEW j \in Jobs, Sole(j), CalmJob(j),
         RunLocalReplication(j)
    PROVE  CalmJob(j)'
<1> DEFINE a == At(j)
           r == job[j]
           s == job'[j]
<1>1. /\ r.pc = "local" /\ Cur(j).form.local # NoDest /\ Len(s.mem) = Len(r.mem)
      /\ \A i \in 1..Len(r.mem) : i # a => s.mem[i] = r.mem[i]
      /\ s.bad = r.bad /\ file' = file /\ src' = src
  BY LocalIs
<1>2. /\ s.mem[a].form = Cur(j).form /\ s.mem[a].lastRep = Cur(j).lastRep
      /\ \/ s.mem[a].lastLocal = r.snap /\ Flows(j, dst) /\ dst' = Arrived(j)
         \/ s.mem[a].lastLocal = Cur(j).lastLocal /\ dst' \in Cut(j, dst)
  BY LocalIs
<1>3. Target(j) = Cur(j).form.local
  BY <1>1 DEF Target
<1>4. \A d \in Dest : dst'[d] = dst[d] \/ (d = Target(j)
      /\ (StreamBase(j) # 0 => StreamBase(j) \in dst'[d]))
  <2>1. dst' = dst \/ (Flows(j, dst) /\ dst' = Arrived(j)) \/ dst' \in Cut(j, dst)
    BY <1>2
  <2> HIDE DEF a, r, s
  <2>2. \A d \in Dest : \/ dst'[d] = dst[d]
                        \/ d = Target(j) /\ (StreamBase(j) # 0 => StreamBase(j) \in dst'[d])
    BY <2>1, StreamLeaves
  <2> QED BY <2>2
<1>5. AllUsable(r.mem, src, dst') /\ AllUsable(file, src, dst')
  BY <1>1, <1>3, <1>4, CalmStream
<1>6. a \in 1..Len(r.mem) /\ Cur(j) = r.mem[a]
  BY <1>1, CurIs
<1>7. Usable(Cur(j), src, dst')
  BY <1>5, <1>6 DEF AllUsable
<1>8. Flows(j, dst) /\ dst' = Arrived(j) => r.snap \in dst'[Cur(j).form.local]
  BY <1>3, ArrivedIs
<1>9. Usable(s.mem[a], src, dst')
  BY <1>2, <1>7, <1>8 DEF Usable
<1> HIDE DEF a, r, s
<1>10. AllUsable(s.mem, src, dst')
  BY <1>1, <1>5, <1>9 DEF AllUsable
<1> QED BY <1>1, <1>5, <1>10 DEF CalmJob, r, s

(* so does the cleaning of the remote, *)
LEMMA CalmPrepare ==
  ASSUME TypeInv, IdsInv, DestApart, NEW j \in Jobs, Sole(j), CalmJob(j), PrepareReplication(j)
    PROVE  CalmJob(j)'
<1>1. /\ job[j].pc = "remote" /\ job'[j].mem = job[j].mem /\ job'[j].bad = job[j].bad
      /\ file' = file /\ src' = src
      /\ job'[j].base = IncrementalBase(Cur(j).lastRep)
      /\ dst' = dst \/ (dst' = [dst EXCEPT ![Cur(j).form.remote] = {}] /\ job'[j].base = 0)
  BY PrepareIs
<1>2. CASE dst' = dst
  BY <1>1, <1>2 DEF CalmJob
<1>3. CASE dst' = [dst EXCEPT ![Cur(j).form.remote] = {}] /\ job'[j].base = 0
  <2>1. Cur(j).form.remote \in Dest
    <3>1. Cur(j).form.remote # NoDest
      BY PrepareIs
    <3>2. job[j].pc \notin {"idle", "save"}
      BY <1>1
    <3>3. Cur(j).form.remote \in Dest \cup {NoDest}
      BY <3>2, CurIs
    <3> QED BY <3>1, <3>3
  <2>2. Cur(j).lastRep \notin src
    <3>1. 0 \notin src
      BY DEF TypeInv, Store
    <3> QED BY <1>1, <1>3, <3>1 DEF IncrementalBase
  <2>3. \A d \in Dest : d # Cur(j).form.remote => dst'[d] = dst[d]
    <3>1. dst \in [Dest -> SUBSET (1..Len(taken))]
      BY DEF TypeInv, Store
    <3> QED BY <1>3, <3>1
  <2>4. Len(job[j].mem) = Len(file)
    BY DEF Sole, Loaded
  <2>5. ASSUME NEW i \in 1..Len(file)
        PROVE  Usable(file[i], src, dst') /\ Usable(job[j].mem[i], src, dst')
    <3>1. Usable(file[i], src, dst) /\ Usable(job[j].mem[i], src, dst)
      BY <2>4 DEF CalmJob, AllUsable
    <3> QED BY <1>1, <2>1, <2>2, <2>3, <3>1, CleanUsable
  <2>6. AllUsable(file, src, dst') /\ AllUsable(job[j].mem, src, dst')
    BY <2>4, <2>5 DEF AllUsable
  <2> QED BY <1>1, <2>6 DEF CalmJob
<1> QED BY <1>1, <1>2, <1>3

(* the send, which cannot fail without a fault, *)
LEMMA CalmSend ==
  ASSUME TypeInv, IdsInv, DestApart, NEW j \in Jobs, Sole(j), CalmJob(j), RunReplication(j)
    PROVE  CalmJob(j)'
<1> DEFINE a == At(j)
           r == job[j]
           s == job'[j]
<1>1. /\ r.pc = "send" /\ Len(s.mem) = Len(r.mem)
      /\ \A i \in 1..Len(r.mem) : i # a => s.mem[i] = r.mem[i]
      /\ file' = file /\ src' = src
      /\ s.mem[a].form = Cur(j).form /\ s.mem[a].lastLocal = Cur(j).lastLocal
  BY SendIs
<1>2. \/ s.mem[a].lastRep = r.snap /\ s.bad = r.bad /\ Flows(j, dst) /\ dst' = Arrived(j)
      \/ /\ s.mem[a].lastRep = 0 /\ ~Flows(j, dst) /\ dst' = dst
         /\ s.bad = IF r.hit THEN r.bad ELSE r.bad \cup {Cur(j).id}
      \/ s.mem[a].lastRep = 0 /\ s.bad = r.bad /\ dst' \in Cut(j, dst)
  BY SendIs
<1>3. Target(j) = Cur(j).form.remote
  BY <1>1 DEF Target
<1>4. \A d \in Dest : dst'[d] = dst[d] \/ (d = Target(j)
      /\ (StreamBase(j) # 0 => StreamBase(j) \in dst'[d]))
  <2>1. dst' = dst \/ (Flows(j, dst) /\ dst' = Arrived(j)) \/ dst' \in Cut(j, dst)
    BY <1>2
  <2> HIDE DEF a, r, s
  <2>2. \A d \in Dest : \/ dst'[d] = dst[d]
                        \/ d = Target(j) /\ (StreamBase(j) # 0 => StreamBase(j) \in dst'[d])
    BY <2>1, StreamLeaves
  <2> QED BY <2>2
<1>6. a \in 1..Len(r.mem) /\ Cur(j) = r.mem[a] /\ a = Least(r.todo)
  BY <1>1, CurIs
<1>5. Cur(j).form.remote # NoDest
  <2>1. Sending(r, src, dst)
    BY DEF Sole
  <2> QED BY <1>1, <1>6, <2>1 DEF Sending
<1>7. AllUsable(r.mem, src, dst') /\ AllUsable(file, src, dst')
  BY <1>1, <1>3, <1>4, <1>5, CalmStream
<1>8. Usable(Cur(j), src, dst') /\ Usable(Cur(j), src, dst)
  BY <1>6, <1>7 DEF AllUsable, CalmJob
<1>9. s.bad = {}
  <2>1. r.bad = {}
    BY DEF CalmJob
  <2>2. ASSUME ~Flows(j, dst), ~r.hit PROVE FALSE
    <3>1. Cur(j).lastRep # 0 /\ Cur(j).lastRep \in src
          /\ Cur(j).lastRep \notin dst[Cur(j).form.remote]
      BY <1>1, <2>2, SoleFlows
    <3> QED BY <1>5, <1>8, <3>1 DEF Usable
  <2> QED BY <1>2, <2>1, <2>2
<1>10. Flows(j, dst) /\ dst' = Arrived(j) => r.snap \in dst'[Cur(j).form.remote]
  BY <1>3, ArrivedIs
<1>11. s.mem[a].lastRep # 0 => s.mem[a].lastRep \in dst'[Cur(j).form.remote]
  BY <1>2, <1>10
<1>12. Usable(s.mem[a], src, dst')
  BY <1>1, <1>8, <1>11 DEF Usable
<1> HIDE DEF a, r, s
<1>13. AllUsable(s.mem, src, dst')
  BY <1>1, <1>7, <1>12 DEF AllUsable
<1> QED BY <1>1, <1>7, <1>9, <1>13 DEF CalmJob, r, s

(* and the save. *)
LEMMA CalmSave == ASSUME TypeInv, CalmInv, calm, NEW j \in Jobs, CalmJob(j), SavePolicies(j)
    PROVE  AllUsable(file', src', dst') /\ \A p \in Policy : strikes'[p] = 0
<1>1. /\ \/ file' = job[j].mem /\ strikes' = Struck(job[j], TRUE)
         \/ file' = file /\ strikes' = Struck(job[j], FALSE)
      /\ src' = src /\ dst' = dst
  BY SaveIs
<1>2. AllUsable(file', src', dst')
  BY <1>1 DEF CalmJob
<1>3. ASSUME NEW p \in Policy PROVE strikes'[p] = 0
  <2>1. strikes[p] = 0
    BY DEF CalmInv
  <2>2. p \notin job[j].bad
    BY DEF CalmJob
  <2> QED BY <1>1, <2>1, <2>2 DEF Struck
<1> QED BY <1>2, <1>3

(* Every step of a job keeps CalmInv. *)
LEMMA CalmJobs ==
  ASSUME TypeInv, IdsInv, SoleInv, EditInv, CalmInv, DestApart, NEW j \in Jobs, JobStep(j)
    PROVE  CalmInv'
<1>0. /\ adm' = adm /\ calm' = calm /\ \A k \in Jobs \ {j} : job'[k] = job[k]
      /\ ~SavePolicies(j) => file' = file /\ strikes' = strikes
  BY JobOthers
<1>1. CASE ~calm
  BY <1>0, <1>1 DEF CalmInv
<1>2. CASE calm
  <2>1. job[j].pc # "idle"
    BY IdleStep
  <2>2. job[j].solo /\ Sole(j)
    BY <1>2, <2>1 DEF CalmInv, SoleInv
  <2>3. adm.pc = "idle" /\ \A k \in Jobs \ {j} : job[k].pc = "idle"
    BY <2>2 DEF Sole
  <2>4. CalmJob(j)
    BY <1>2, <2>1 DEF CalmInv, CalmJob
  <2>5. CASE SavePolicies(j)
    <3>1. job'[j] = Idle
      BY <2>5, SaveIs
    <3>2. \A k \in Jobs : job'[k].pc = "idle"
      BY <1>0, <2>3, <3>1 DEF Idle
    <3> QED BY <1>0, <1>2, <2>3, <2>4, <2>5, <3>2, CalmSave DEF CalmInv
  <2>6. CASE ~SavePolicies(j)
    <3>1. CalmJob(j)'
      BY <2>2, <2>4, <2>6, CalmStays, CalmLocal, CalmPrepare, CalmSend DEF JobStep
    <3>2. job'[j].solo = job[j].solo
      BY <2>6, CreateIs, FailsIs, ListIs, DestroyIs, LocalIs, PrepareIs, SendIs DEF JobStep
    <3>3. \A p \in Policy : strikes'[p] = 0
      BY <1>0, <1>2, <2>6 DEF CalmInv
    <3> QED BY <1>0, <2>2, <2>3, <3>1, <3>2, <3>3 DEF CalmInv, CalmJob
  <2> QED BY <2>5, <2>6
<1> QED BY <1>1, <1>2

(* So does the beginning of a job, *)
LEMMA CalmBegin ==
  ASSUME TypeInv, CalmInv, NEW j \in Jobs, NEW todo \in SUBSET DOMAIN file, todo # {},
         Begin(j, todo)
    PROVE  CalmInv'
<1>1. /\ job'[j].mem = file /\ job'[j].solo = Quiet /\ job'[j].bad = {}
      /\ \A k \in Jobs \ {j} : job'[k] = Joined[k]
      /\ adm'.pc = adm.pc
  BY BeginIs
<1>2. calm' = (calm /\ Quiet) /\ file' = file /\ src' = src /\ dst' = dst /\ strikes' = strikes
  BY BeginIs
<1>3. ASSUME calm, Quiet PROVE CalmInv'
  <2>0. \A k \in Jobs : Joined[k].pc = "idle"
    BY <1>3, JoinedIs DEF Quiet
  <2>1. adm'.pc = "idle" /\ \A k \in Jobs \ {j} : job'[k].pc = "idle"
    BY <1>1, <1>3, <2>0 DEF Quiet
  <2>2. AllUsable(file, src, dst) /\ \A p \in Policy : strikes[p] = 0
    BY <1>3 DEF CalmInv
  <2> QED BY <1>1, <1>2, <1>3, <2>1, <2>2 DEF CalmInv
<1>4. CASE ~(calm /\ Quiet)
  <2>1. calm' = FALSE
    BY <1>2, <1>4
  <2> QED BY <2>1 DEF CalmInv
<1> QED BY <1>3, <1>4

(* an edit that moves no policy, *)
LEMMA CalmDerived ==
  ASSUME TypeInv, NEW list \in Seq(Entries(Len(taken))), Derived(list), ~Moves(list),
                            NEW S, NEW D, AllUsable(file, S, D)
    PROVE  AllUsable(list, S, D)
<1>1. ASSUME NEW i \in 1..Len(list) PROVE Usable(list[i], S, D)
  <2>1. CASE list[i].lastRep = 0 /\ list[i].lastLocal = 0
    BY <2>1 DEF Usable
  <2>2. CASE \E k \in 1..Len(file) : list[i].id = file[k].id
             /\ list[i].lastRep = file[k].lastRep
                                     /\ list[i].lastLocal = file[k].lastLocal
    <3>1. PICK k \in 1..Len(file) : list[i].id = file[k].id
          /\ list[i].lastRep = file[k].lastRep
                                     /\ list[i].lastLocal = file[k].lastLocal
      BY <2>2
    <3>2. i \in DOMAIN list /\ k \in DOMAIN file
      BY LenProperties DEF TypeInv, FileInv
    <3>3. list[i].form.local = file[k].form.local /\ list[i].form.remote = file[k].form.remote
      BY <3>1, <3>2 DEF Moves
    <3>4. Usable(file[k], S, D)
      BY DEF AllUsable
    <3> QED BY <3>1, <3>3, <3>4 DEF Usable
  <2> QED BY <2>1, <2>2 DEF Derived
<1> QED BY <1>1 DEF AllUsable

(* any other edit, *)
LEMMA CalmEdit == ASSUME TypeInv, CalmInv, EditStep PROVE CalmInv'
<1>1. /\ job' = Joined /\ adm'.solo = Quiet /\ Derived(adm'.mem)
      /\ adm'.mem \in Seq(Entries(Len(taken)))
      /\ calm' = (calm /\ Quiet /\ ~Moves(adm'.mem))
  BY EditIs
<1>2. file' = file /\ src' = src /\ dst' = dst /\ strikes' = strikes
  BY EditIs
<1>3. ASSUME calm, Quiet, ~Moves(adm'.mem) PROVE CalmInv'
  <2>1. \A k \in Jobs : job'[k].pc = "idle"
    BY <1>1, <1>3, JoinedIs DEF Quiet
  <2>2. AllUsable(file, src, dst) /\ \A p \in Policy : strikes[p] = 0
    BY <1>3 DEF CalmInv
  <2>3. PICK list \in Seq(Entries(Len(taken))) : list = adm'.mem
    BY <1>1
  <2>4. AllUsable(list, src, dst)
    BY <1>1, <1>3, <2>2, <2>3, CalmDerived
  <2> QED BY <1>1, <1>2, <1>3, <2>1, <2>2, <2>3, <2>4 DEF CalmInv
<1>4. CASE ~(calm /\ Quiet /\ ~Moves(adm'.mem))
  <2>1. calm' = FALSE
    BY <1>1, <1>4
  <2> QED BY <2>1 DEF CalmInv
<1> QED BY <1>3, <1>4

(* its save, *)
LEMMA CalmSaveEdit == ASSUME TypeInv, CalmInv, EditInv, SaveEdit PROVE CalmInv'
<1>1. /\ adm.pc = "save" /\ adm' = NoEdit
      /\ \/ file' = adm.mem /\ strikes' = IF adm.solo THEN strikes ELSE [p \in Policy |-> 0]
         \/ file' = file /\ strikes' = strikes
  BY SaveEditIs
<1>2. src' = src /\ dst' = dst /\ job' = job /\ calm' = calm
  BY SaveEditIs
<1>3. CASE ~calm
  BY <1>2, <1>3 DEF CalmInv
<1>4. CASE calm
  <2>1. adm.solo /\ AllUsable(adm.mem, src, dst) /\ AllUsable(file, src, dst)
    BY <1>1, <1>4 DEF CalmInv
  <2>2. \A j \in Jobs : job[j].pc = "idle"
    BY <2>1 DEF EditInv
  <2>3. \A p \in Policy : strikes'[p] = 0
    BY <1>1, <1>4, <2>1 DEF CalmInv
  <2>4. AllUsable(file', src, dst)
    BY <1>1, <2>1
  <2>5. adm'.pc = "idle"
    BY <1>1 DEF NoEdit
  <2> QED BY <1>2, <2>2, <2>3, <2>4, <2>5 DEF CalmInv
<1> QED BY <1>3, <1>4

(* a crash, *)
LEMMA CalmCrash == ASSUME TypeInv, IdsInv, SoleInv, CalmInv, DestApart, Crash PROVE CalmInv'
<1>1. /\ \A k \in Jobs : job'[k] = Idle
      /\ adm' = NoEdit /\ file' = file /\ src' = src /\ calm' = calm /\ strikes' = strikes
  BY CrashIs
<1>2. \A d \in Dest :
        \/ dst'[d] = dst[d]
        \/ \E j \in Jobs, to \in [Dest -> SUBSET (1..Len(taken))] :
             /\ Flows(j, to) /\ d = Target(j)
             /\ StreamBase(j) # 0 => StreamBase(j) \in dst'[d]
  BY CrashIs
<1>3. adm'.pc = "idle" /\ \A k \in Jobs : job'[k].pc = "idle"
  BY <1>1 DEF NoEdit, Idle
<1>4. CASE ~calm
  BY <1>1, <1>4 DEF CalmInv
<1>5. CASE calm
  <2>1. AllUsable(file, src, dst) /\ \A p \in Policy : strikes[p] = 0
    BY <1>5 DEF CalmInv
  <2>2. AllUsable(file, src, dst')
    <3>1. CASE \A d \in Dest : dst'[d] = dst[d]
      <4>1. ASSUME NEW i \in 1..Len(file) PROVE Usable(file[i], src, dst')
        <5>1. file \in Seq(Entries(Len(taken)))
          BY DEF TypeInv, FileInv
        <5>2. file[i].form.local \in Dest \cup {NoDest}
              /\ file[i].form.remote \in Dest \cup {NoDest}
          BY <5>1, EntryIs
        <5>3. Usable(file[i], src, dst)
          BY <2>1 DEF AllUsable
        <5> QED BY <3>1, <5>2, <5>3 DEF Usable
      <4> QED BY <4>1 DEF AllUsable
    <3>2. CASE \E d \in Dest : dst'[d] # dst[d]
      <4>1. PICK j \in Jobs : \E to \in [Dest -> SUBSET (1..Len(taken))] : Flows(j, to)
        BY <1>2, <3>2
      <4>2. job[j].pc \in {"local", "send"} /\ Target(j) # NoDest
        BY <4>1 DEF Flows
      <4>3. job[j].solo /\ Sole(j)
        BY <1>5, <4>2 DEF CalmInv, SoleInv
      <4>4. \A k \in Jobs : job[k].pc \in {"local", "send"} => k = j
        BY <4>3 DEF Sole
      <4>5. \A d \in Dest : \/ dst'[d] = dst[d]
                            \/ d = Target(j)
                               /\ (StreamBase(j) # 0 => StreamBase(j) \in dst'[d])
        <5> TAKE d \in Dest
        <5>1. CASE dst'[d] = dst[d]
          BY <5>1
        <5>2. CASE \E k \in Jobs, to \in [Dest -> SUBSET (1..Len(taken))] :
                     /\ Flows(k, to) /\ d = Target(k)
                     /\ StreamBase(k) # 0 => StreamBase(k) \in dst'[d]
          <6>1. PICK k \in Jobs : \E to \in [Dest -> SUBSET (1..Len(taken))] :
                     /\ Flows(k, to) /\ d = Target(k)
                     /\ StreamBase(k) # 0 => StreamBase(k) \in dst'[d]
            BY <5>2
          <6>2. job[k].pc \in {"local", "send"}
            BY <6>1 DEF Flows
          <6>3. k = j
            BY <4>4, <6>2
          <6> QED BY <6>1, <6>3
        <5> QED BY <1>2, <5>1, <5>2
      <4>6. CalmJob(j)
        BY <1>5, <4>2 DEF CalmInv, CalmJob
      <4> QED BY <4>2, <4>3, <4>5, <4>6, CalmStream
    <3> QED BY <3>1, <3>2
  <2> QED BY <1>1, <1>3, <2>1, <2>2 DEF CalmInv
<1> QED BY <1>4, <1>5

(* and every other step. *)
LEMMA CalmNext ==
  ASSUME TypeInv, IdsInv, SoleInv, EditInv, CalmInv, DestApart, [Next]_vars
  PROVE  CalmInv'
<1>1. CASE UNCHANGED vars
  BY <1>1 DEF vars, CalmInv
<1>2. CASE \E j \in Jobs : JobStep(j)
  BY <1>2, CalmJobs
<1>3. CASE TickPolicies \/ HandleRunScheduleNow
  <2>1. PICK j \in Jobs, todo \in SUBSET DOMAIN file : BeginStep(j, todo)
    BY <1>3, BeginSteps
  <2> QED BY <2>1, CalmBegin DEF BeginStep
<1>4. CASE EditStep
  BY <1>4, CalmEdit
<1>5. CASE SaveEdit
  BY <1>5, CalmSaveEdit
<1>6. CASE Wipe
  <2>1. calm' = FALSE
    BY <1>6, WipeIs
  <2> QED BY <2>1 DEF CalmInv
<1>7. CASE Crash
  BY <1>7, CalmCrash
<1> QED BY <1>1, <1>2, <1>3, <1>4, <1>5, <1>6, <1>7 DEF Next, EditStep

(***************************************************************************)
(* The theorems about replication.                                         *)
(***************************************************************************)
(* The inductive invariant of BaseUsable and RemoteRecovers. *)
BaseInv == TwiceInv /\ CalmInv

(* It holds initially. *)
LEMMA BaseInit == Init => BaseInv
<1> SUFFICES ASSUME Init PROVE BaseInv
  OBVIOUS
<1>1. job = [j \in Jobs |-> Idle] /\ adm = NoEdit /\ strikes = [p \in Policy |-> 0]
  BY DEF Init
<1>2. \A j \in Jobs : job[j].pc = "idle"
  BY <1>1 DEF Idle
<1>3. AllUsable(file, src, dst)
  <2>1. PICK f \in [DOMAIN First -> UNION {Forms[p] : p \in Policy}] :
          file = [i \in DOMAIN First |-> Entry(First[i], f[i])]
    BY DEF Init
  <2>2. file \in Seq(Entries(Len(taken)))
    BY TypeInit DEF TypeInv, FileInv
  <2>3. DOMAIN file = 1..Len(file)
    BY <2>2, LenProperties
  <2>4. DOMAIN file = DOMAIN First
    BY <2>1
  <2>5. \A i \in 1..Len(file) : file[i].lastRep = 0 /\ file[i].lastLocal = 0
    BY <2>1, <2>3, <2>4 DEF Entry
  <2> QED BY <2>5 DEF AllUsable, Usable
<1>4. CalmInv
  BY <1>1, <1>2, <1>3 DEF CalmInv, NoEdit
<1> QED BY <1>4, TwiceInit DEF BaseInv

(* Every step keeps it. *)
LEMMA BaseNext == DestApart /\ BaseInv /\ [Next]_vars => BaseInv'
<1> SUFFICES ASSUME DestApart, BaseInv, [Next]_vars PROVE BaseInv'
  OBVIOUS
<1>1. TwiceInv /\ TypeInv /\ IdsInv /\ SoleInv /\ EditInv /\ CalmInv
  BY DEF BaseInv, TwiceInv
<1> QED BY <1>1, TwiceNext, CalmNext DEF BaseInv

(* It implies both. *)
LEMMA BaseGives == BaseInv => BaseUsable /\ RemoteRecovers
<1> SUFFICES ASSUME BaseInv PROVE BaseUsable /\ RemoteRecovers
  OBVIOUS
<1>1. StrikeInv /\ CalmInv /\ TypeInv
  BY DEF BaseInv, TwiceInv
<1>2. BaseUsable
  <2>1. DOMAIN file = 1..Len(file)
    BY <1>1, LenProperties DEF TypeInv, FileInv
  <2>2. calm => \A i \in DOMAIN file : Usable(file[i], src, dst)
    BY <1>1, <2>1 DEF CalmInv, AllUsable
  <2> QED BY <2>2 DEF BaseUsable, Usable
<1>3. RemoteRecovers
  <2>1. \A p \in Policy : strikes[p] \in {0, 1} /\ (calm => strikes[p] = 0)
    BY <1>1 DEF StrikeInv, CalmInv
  <2> QED BY <2>1 DEF RemoteRecovers
<1> QED BY <1>2, <1>3

(* While nothing overlapped and nobody touched a destination, the base a policy remembers *)
(* is on the destination or gone from the dataset, whatever fails and wherever the portal *)
(* dies between cleaning the remote, sending and saving, if no two replications share a   *)
(* dataset (RunReplication, RunLocalReplication).                                         *)
THEOREM BasesUsable ==
  ASSUME DestApart
  PROVE  Spec => []BaseUsable
<1>1. BaseInv /\ [Next]_vars => BaseInv'
  BY BaseNext
<1>2. BaseInv => BaseUsable
  BY BaseGives
<1> QED BY BaseInit, <1>1, <1>2, PTL DEF Spec

(* While nothing overlapped and nobody touched a destination, a remote replication that  *)
(* meets no fault succeeds if it is incremental, or full with a remote that was cleaned; *)
(* after overlaps it does not fail twice in a row; again if no two replications share a  *)
(* dataset (RunReplication, execScheduledSnapshot).                                      *)
THEOREM Recovers ==
  ASSUME DestApart
  PROVE  Spec => []RemoteRecovers
<1>1. BaseInv /\ [Next]_vars => BaseInv'
  BY BaseNext
<1>2. BaseInv => RemoteRecovers
  BY BaseGives
<1> QED BY BaseInit, <1>1, <1>2, PTL DEF Spec
=============================================================================
