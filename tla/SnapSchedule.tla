---------------------------- MODULE SnapSchedule ----------------------------
(***************************************************************************)
(* Snapshot policies of one dataset: the minute ticker and Run now, which  *)
(* take a snapshot, apply retention and replicate it to a local and to a   *)
(* remote dataset, and the handlers that edit the policies meanwhile.      *)
(*                                                                         *)
(* snapshot-schedules.json is read and written as a whole, each under a    *)
(* lock of its own: whoever writes it writes what it read earlier, with    *)
(* its own changes.  A tick holds its copy for as long as its replications *)
(* take.                                                                   *)
(*                                                                         *)
(* A snapshot is its number, in the order of creation; 0 is the empty      *)
(* name.  Which policies are due is left free (disabled ones never are).   *)
(* Replication is without -R.  ZFS and ssh are external.                   *)
(***************************************************************************)
EXTENDS Integers, Sequences, FiniteSets

CONSTANTS
  Policy,     \* policy ids
  First,      \* the policies that exist at the start, in file order
  Forms,      \* Forms[p]: the settings the admin may give p
  Covers,     \* Covers[l]: labels whose snapshot names begin with l and a dash
  Dest,       \* destination datasets
  NoDest,     \* replication is not enabled
  Faults,     \* faults that may happen, see below
  AdminOps,   \* what the admin may do, see below
  MaxSnaps,   \* bound: snapshots ever taken
  MaxFaults,  \* bound: faults
  MaxAdmin    \* bound: edits and wiped destinations

Label == DOMAIN Covers

Form == [label : Label, keep : Nat \ {0}, local : Dest \cup {NoDest},
         remote : Dest \cup {NoDest}]

\* Covers is what a prefix of names can be: two labels that both begin a name
\* begin with one another.
ASSUME ScheduleAssumption ==
  /\ Covers \in [Label -> SUBSET Label] /\ \A l \in Label : l \in Covers[l]
  /\ \A l, m \in Label : m \in Covers[l] => Covers[m] \subseteq Covers[l]
  /\ \A l, m \in Label : l \in Covers[m] \/ m \in Covers[l] \/ Covers[l] \cap Covers[m] = {}
  /\ Forms \in [Policy -> SUBSET Form] /\ \A p \in Policy : Forms[p] # {}
  /\ First \in Seq(Policy)
  /\ \A i, k \in DOMAIN First : First[i] = First[k] => i = k
  /\ NoDest \notin Dest
  /\ Faults \subseteq {"snapshot", "list", "destroy", "send", "clean", "save", "crash"}
  /\ AdminOps \subseteq {"now", "create", "update", "delete", "wipe"}
  /\ MaxSnaps \in Nat /\ MaxFaults \in Nat /\ MaxAdmin \in Nat

\* What some properties rest on and the program does not enforce.  Of two labels
\* one of which begins the other's names, the longer one keeps at least as many
\* snapshots ...
Ordered ==
  \A p, q \in Policy : \A f \in Forms[p], g \in Forms[q] :
    g.label \in Covers[f.label] => g.label = f.label \/ g.keep >= f.keep

\* ... or nobody uses Run now.
Prudent == "now" \notin AdminOps \/ Ordered

\* No dataset receives from two policies, nor twice from one.
DestApart ==
  /\ \A p, q \in Policy : p # q =>
       \A f \in Forms[p], g \in Forms[q] :
         {f.local, f.remote} \cap {g.local, g.remote} \subseteq {NoDest}
  /\ \A p \in Policy : \A f \in Forms[p] : f.local # NoDest => f.local # f.remote

VARIABLES
  file,     \* snapshot-schedules.json: the policies, in order
  taken,    \* the label of every snapshot ever taken
  src,      \* the snapshots on the dataset
  dst,      \* dst[d]: the snapshots on a destination
  job,      \* the ticker's goroutine and a Run now request
  adm,      \* a create, update or delete request between its load and its save
  unused,   \* ids no policy has had yet
  calm,     \* history: nothing overlapped, no destination was changed by hand
  strikes,  \* history: remote replications in a row that failed without a fault
            \* and with a remote that was cleaned if it had to be
  faults, admin

vars == <<file, taken, src, dst, job, adm, unused, calm, strikes, faults, admin>>

Snaps == 1..MaxSnaps
Jobs  == {"tick", "now"}

\* What a policy of the file consists of: its settings and its run state.
Entry(p, f) == [id |-> p, form |-> f, lastLocal |-> 0, lastRep |-> 0]

Idle == [pc |-> "idle", mem |-> <<>>, todo |-> {}, snap |-> 0, base |-> 0,
         victims |-> {}, solo |-> FALSE, hit |-> FALSE, bad |-> {}, ran |-> {}]

NoEdit == [pc |-> "idle", mem |-> <<>>, solo |-> FALSE]

Init ==
  /\ \E f \in [DOMAIN First -> UNION {Forms[p] : p \in Policy}] :
       /\ \A i \in DOMAIN First : f[i] \in Forms[First[i]]
       /\ file = [i \in DOMAIN First |-> Entry(First[i], f[i])]
  /\ taken = <<>> /\ src = {}
  /\ dst = [d \in Dest |-> {}]
  /\ job = [j \in Jobs |-> Idle] /\ adm = NoEdit
  /\ unused = Policy \ {First[i] : i \in DOMAIN First}
  /\ calm = TRUE
  /\ strikes = [p \in Policy |-> 0]
  /\ faults = 0 /\ admin = 0

(***************************************************************************)
(* Who is at work                                                          *)
(***************************************************************************)
Quiet == adm.pc = "idle" /\ \A j \in Jobs : job[j].pc = "idle"

Fault(f) == f \in Faults /\ faults < MaxFaults /\ faults' = faults + 1

Admin(op) == op \in AdminOps /\ admin < MaxAdmin /\ admin' = admin + 1

\* The jobs once somebody else begins: none has the file to itself.
Joined == [j \in Jobs |-> [job[j] EXCEPT !.solo = FALSE]]

Least(S) == CHOOSE x \in S : \A y \in S : x <= y

\* The policy a job is working on, in the job's copy of the file.
At(j)  == Least(job[j].todo)
Cur(j) == job[j].mem[At(j)]

(***************************************************************************)
(* ZFS: what send and receive do (external)                                *)
(***************************************************************************)
\* Whether the stream from base (0: full) to snap can be sent from the
\* snapshots S and received on a dataset that has the snapshots D.
Sendable(S, base, snap) == snap \in S /\ base \in S \cup {0}

Receivable(D, base) == IF base = 0 THEN D = {} ELSE base \in D

\* receive -F rolls back to the base; -I sends what lies in between as well.
Received(S, D, base, snap) ==
  IF base = 0 THEN {snap}
  ELSE {s \in D : s <= base} \cup {s \in S : base < s /\ s <= snap}

\* What a stream that breaks may leave: nothing of it, or the rollback and
\* the snapshots that were complete.
Broken(S, D, base, snap) ==
  {D} \cup {Received(S, D, base, s) :
              s \in {t \in S : t <= snap /\ IF base = 0 THEN t = snap ELSE t >= base}}

(***************************************************************************)
(* The beginning of a tick, and Run now                                    *)
(***************************************************************************)
Begin(j, todo) ==
  /\ job[j].pc = "idle"
  /\ job' = [Joined EXCEPT ![j] = [Idle EXCEPT !.pc = "snapshot", !.mem = file,
                                               !.todo = todo, !.solo = Quiet]]
  /\ adm' = [adm EXCEPT !.solo = FALSE]
  /\ calm' = (calm /\ Quiet)
  /\ UNCHANGED <<file, taken, src, dst, unused, strikes, faults>>

\* A tick at which some policies are due; the others leave nothing to do.
TickPolicies ==
  /\ \E due \in SUBSET DOMAIN file :
       /\ due # {}
       /\ Begin("tick", due)
  /\ UNCHANGED admin

HandleRunScheduleNow ==
  /\ Admin("now")
  /\ \E i \in DOMAIN file : Begin("now", {i})

(***************************************************************************)
(* execScheduledSnapshot                                                   *)
(***************************************************************************)
\* The job goes on with its next policy, or saves.
Advance(r) == [r EXCEPT !.todo = @ \ {Least(@)}, !.hit = FALSE,
                        !.pc = IF Cardinality(r.todo) = 1 THEN "save" ELSE "snapshot"]

\* From here on j works on the snapshot it has just taken.
CreateSnapshot(j) ==
  /\ job[j].pc = "snapshot" /\ Len(taken) < MaxSnaps
  /\ taken' = Append(taken, Cur(j).form.label)
  /\ src' = src \cup {Len(taken) + 1}
  /\ job' = [job EXCEPT ![j].pc = "list", ![j].snap = Len(taken) + 1,
                        ![j].ran = @ \cup {Cur(j).id}]
  /\ UNCHANGED <<file, dst, adm, unused, calm, strikes, faults, admin>>

\* No snapshot: an error, or the pool is full (the bound on snapshots).
SnapshotFails(j) ==
  /\ job[j].pc = "snapshot"
  /\ job' = [job EXCEPT ![j] = Advance(@)]
  /\ \/ Fault("snapshot")
     \/ Len(taken) = MaxSnaps /\ UNCHANGED faults
  /\ UNCHANGED <<file, taken, src, dst, adm, unused, calm, strikes, admin>>

\* pruneSnapshots: the snapshots it counts, and those too many of them.
Ours(l) == {s \in src : taken[s] \in Covers[l]}

\* Mutant: sorted the other way round, the newest are destroyed.
MutExcess(S, keep) == {s \in S : Cardinality({t \in S : t < s}) >= keep}

Excess(S, keep) == {s \in S : Cardinality({t \in S : t > s}) >= keep}

PruneList(j) ==
  /\ job[j].pc = "list"
  /\ \/ /\ job' = [job EXCEPT ![j].pc = "destroy",
                     ![j].victims = Excess(Ours(Cur(j).form.label), Cur(j).form.keep)]
        /\ UNCHANGED faults
     \/ Fault("list") /\ job' = [job EXCEPT ![j].pc = "local"]
  /\ UNCHANGED <<file, taken, src, dst, adm, unused, calm, strikes, admin>>

\* DestroySnapshot, oldest first; an error is logged and the next one tried.
PruneDestroy(j) ==
  /\ job[j].pc = "destroy" /\ job[j].victims # {}
  /\ LET v == Least(job[j].victims)
     IN /\ job' = [job EXCEPT ![j].victims = @ \ {v}]
        /\ \/ src' = src \ {v} /\ UNCHANGED faults
           \/ Fault("destroy") /\ UNCHANGED src
  /\ UNCHANGED <<file, taken, dst, adm, unused, calm, strikes, admin>>

PruneDone(j) ==
  /\ job[j].pc = "destroy" /\ job[j].victims = {}
  /\ job' = [job EXCEPT ![j].pc = "local"]
  /\ UNCHANGED <<file, taken, src, dst, adm, unused, calm, strikes, faults, admin>>

\* The stream of a job: where it goes, what it starts from, and whether ZFS
\* takes it when the destinations hold the snapshots in to.
Target(j) == IF job[j].pc = "local" THEN Cur(j).form.local ELSE Cur(j).form.remote

StreamBase(j) == IF job[j].pc = "local" THEN Cur(j).lastLocal ELSE job[j].base

Flows(j, to) ==
  /\ job[j].pc \in {"local", "send"} /\ Target(j) # NoDest
  /\ Sendable(src, StreamBase(j), job[j].snap)
  /\ Receivable(to[Target(j)], StreamBase(j))

Arrived(j) == [dst EXCEPT ![Target(j)] = Received(src, @, StreamBase(j), job[j].snap)]

\* What is on the destinations when the stream of j, if it has one, breaks.
Cut(j, to) ==
  IF Flows(j, to)
  THEN {[to EXCEPT ![Target(j)] = D] :
          D \in Broken(src, to[Target(j)], StreamBase(j), job[j].snap)}
  ELSE {to}

\* zfs send | zfs receive on this server.  A failure keeps the base.
RunLocalReplication(j) ==
  LET Sent(last) == job' = [job EXCEPT ![j].pc = "remote", ![j].mem[At(j)].lastLocal = last]
  IN /\ job[j].pc = "local" /\ Cur(j).form.local # NoDest
     /\ \/ Flows(j, dst) /\ Sent(job[j].snap) /\ dst' = Arrived(j) /\ UNCHANGED faults
        \/ ~Flows(j, dst) /\ Sent(Cur(j).lastLocal) /\ UNCHANGED <<dst, faults>>
        \/ Fault("send") /\ Sent(Cur(j).lastLocal) /\ dst' \in Cut(j, dst)
     /\ UNCHANGED <<file, taken, src, adm, unused, calm, strikes, admin>>

NoLocalReplication(j) ==
  /\ job[j].pc = "local" /\ Cur(j).form.local = NoDest
  /\ job' = [job EXCEPT ![j].pc = "remote"]
  /\ UNCHANGED <<file, taken, src, dst, adm, unused, calm, strikes, faults, admin>>

\* The base of the next send: none if it is not on the dataset any more.
IncrementalBase(last) == IF last \in src THEN last ELSE 0

\* Before a full send all snapshots on the remote go to one "zfs destroy", which
\* takes a single one: two or more it refuses.
Cleanable(d) == Cardinality(dst[d]) <= 1

\* RunReplication up to the send.  That the remote could not be cleaned (hit) is
\* only warned about.
PrepareReplication(j) ==
  LET d    == Cur(j).form.remote
      base == IncrementalBase(Cur(j).lastRep)
  IN /\ job[j].pc = "remote" /\ d # NoDest
     /\ \/ /\ base = 0 => Cleanable(d)
           /\ job' = [job EXCEPT ![j].pc = "send", ![j].base = base]
           /\ dst' = IF base = 0 THEN [dst EXCEPT ![d] = {}] ELSE dst
           /\ UNCHANGED faults
        \/ /\ base = 0 /\ (Fault("clean") \/ (~Cleanable(d) /\ UNCHANGED faults))
           /\ job' = [job EXCEPT ![j].pc = "send", ![j].base = base, ![j].hit = TRUE]
           /\ UNCHANGED dst
     /\ UNCHANGED <<file, taken, src, adm, unused, calm, strikes, admin>>

NoReplication(j) ==
  /\ job[j].pc = "remote" /\ Cur(j).form.remote = NoDest
  /\ job' = [job EXCEPT ![j] = Advance(@)]
  /\ UNCHANGED <<file, taken, src, dst, adm, unused, calm, strikes, faults, admin>>

\* Mutants: the name is kept whatever came of the send; a failure keeps the
\* base, as it does in a local replication.
MutKeepsName(p, ok, snap) == [p EXCEPT !.lastRep = snap]

MutKeepsBase(p, ok, snap) == [p EXCEPT !.lastRep = IF ok THEN snap ELSE @]

\* What the policy remembers of a send, for the next one.
AfterSend(p, ok, snap) == [p EXCEPT !.lastRep = IF ok THEN snap ELSE 0]

\* zfs send | ssh zfs receive.  When ssh breaks the stream may have arrived
\* all the same.
RunReplication(j) ==
  LET Sent(ok, bad) == job' = [job EXCEPT ![j] =
        Advance([@ EXCEPT !.mem[At(j)] = AfterSend(Cur(j), ok, job[j].snap), !.bad = bad])]
      bad == job[j].bad
  IN /\ job[j].pc = "send"
     /\ \/ Flows(j, dst) /\ Sent(TRUE, bad) /\ dst' = Arrived(j) /\ UNCHANGED faults
        \/ /\ ~Flows(j, dst)
           /\ Sent(FALSE, IF job[j].hit THEN bad ELSE bad \cup {Cur(j).id})
           /\ UNCHANGED <<dst, faults>>
        \/ Fault("send") /\ Sent(FALSE, bad) /\ dst' \in Cut(j, dst)
     /\ UNCHANGED <<file, taken, src, adm, unused, calm, strikes, admin>>

(***************************************************************************)
(* Writing the file                                                        *)
(***************************************************************************)
\* The history after the save of a job: only one that had the file to itself
\* counts, and only if its result reached the file.
Struck(r, saved) ==
  [p \in Policy |->
     IF r.solo /\ saved /\ p \in r.bad THEN IF strikes[p] = 2 THEN 2 ELSE strikes[p] + 1
     ELSE IF r.solo /\ saved /\ p \notin r.ran THEN strikes[p]
     ELSE 0]

\* An error of the save is ignored.
SavePolicies(j) ==
  /\ job[j].pc = "save"
  /\ job' = [job EXCEPT ![j] = Idle]
  /\ \/ file' = job[j].mem /\ strikes' = Struck(job[j], TRUE) /\ UNCHANGED faults
     \/ Fault("save") /\ strikes' = Struck(job[j], FALSE) /\ UNCHANGED file
  /\ UNCHANGED <<taken, src, dst, adm, unused, calm, admin>>

(***************************************************************************)
(* Edits: each loads the file, changes its copy and saves it               *)
(***************************************************************************)
\* An edit that gives a policy another destination.
Moves(list) ==
  \E i \in DOMAIN list, k \in DOMAIN file :
    /\ list[i].id = file[k].id
    /\ \/ list[i].form.local # file[k].form.local
       \/ list[i].form.remote # file[k].form.remote

Edit(list) ==
  /\ adm.pc = "idle"
  /\ adm' = [pc |-> "save", mem |-> list, solo |-> Quiet]
  /\ job' = Joined
  /\ calm' = (calm /\ Quiet /\ ~Moves(list))
  /\ UNCHANGED <<file, taken, src, dst, strikes, faults>>

HandleCreateSchedule ==
  /\ Admin("create")
  /\ \E p \in unused : \E f \in Forms[p] :
       Edit(Append(file, Entry(p, f))) /\ unused' = unused \ {p}

\* Mutant: the first policy is replaced, not the one with the id.
MutHandleUpdateSchedule ==
  /\ Admin("update")
  /\ \E i \in DOMAIN file : \E f \in Forms[file[i].id] :
       Edit([file EXCEPT ![1].form = f])
  /\ UNCHANGED unused

\* The settings come from the request, the run state from the file.
HandleUpdateSchedule ==
  /\ Admin("update")
  /\ \E i \in DOMAIN file : \E f \in Forms[file[i].id] \ {file[i].form} :
       Edit([file EXCEPT ![i].form = f])
  /\ UNCHANGED unused

HandleDeleteSchedule ==
  /\ Admin("delete")
  /\ \E i \in DOMAIN file :
       Edit(SubSeq(file, 1, i - 1) \o SubSeq(file, i + 1, Len(file)))
  /\ UNCHANGED unused

SaveEdit ==
  /\ adm.pc = "save"
  /\ adm' = NoEdit
  /\ \/ /\ file' = adm.mem /\ UNCHANGED faults
        /\ strikes' = IF adm.solo THEN strikes ELSE [p \in Policy |-> 0]
     \/ Fault("save") /\ UNCHANGED <<file, strikes>>
  /\ UNCHANGED <<taken, src, dst, job, unused, calm, admin>>

(***************************************************************************)
(* The rest of the world                                                   *)
(***************************************************************************)
\* The snapshots of a destination are destroyed by hand, or its pool is new.
Wipe ==
  /\ Admin("wipe")
  /\ \E d \in Dest : dst[d] # {} /\ dst' = [dst EXCEPT ![d] = {}]
  /\ calm' = FALSE
  /\ job' = Joined
  /\ UNCHANGED <<file, taken, src, adm, unused, strikes, faults>>

\* The portal stops and starts again; streams that were on their way break.
Crash ==
  /\ ~Quiet /\ Fault("crash")
  /\ job' = [j \in Jobs |-> Idle] /\ adm' = NoEdit
  /\ \E to \in Cut("tick", dst) : dst' \in Cut("now", to)
  /\ UNCHANGED <<file, taken, src, unused, calm, strikes, admin>>

JobStep(j) ==
  \/ CreateSnapshot(j)     \/ SnapshotFails(j)
  \/ PruneList(j)          \/ PruneDestroy(j)       \/ PruneDone(j)
  \/ RunLocalReplication(j) \/ NoLocalReplication(j)
  \/ PrepareReplication(j) \/ NoReplication(j)      \/ RunReplication(j)
  \/ SavePolicies(j)

Next ==
  \/ TickPolicies \/ HandleRunScheduleNow
  \/ \E j \in Jobs : JobStep(j)
  \/ HandleCreateSchedule \/ HandleUpdateSchedule \/ HandleDeleteSchedule
  \/ SaveEdit
  \/ Wipe \/ Crash

Spec == Init /\ [][Next]_vars

(***************************************************************************)
(* Properties                                                              *)
(***************************************************************************)
EntryOK(e) ==
  /\ e.id \in Policy /\ e.form \in Forms[e.id]
  /\ e.lastLocal \in 0..Len(taken) /\ e.lastRep \in 0..Len(taken)

JobOK(r) ==
  /\ r.pc \in {"idle", "snapshot", "list", "destroy", "local", "remote", "send", "save"}
  /\ \A i \in DOMAIN r.mem : EntryOK(r.mem[i])
  /\ r.todo \subseteq DOMAIN r.mem
  /\ (r.pc \in {"idle", "save"}) <=> (r.todo = {})
  /\ r.snap \in 0..Len(taken) /\ r.base \in 0..Len(taken)
  /\ r.pc = "send" => r.base < r.snap

\* Types.  A job works on a policy of its copy of the file, and a stream
\* never starts from a snapshot that is not older than the one it brings
\* (RunReplication, RunLocalReplication).
TypeOK ==
  /\ \A i \in DOMAIN file : EntryOK(file[i])
  /\ \A i \in DOMAIN adm.mem : EntryOK(adm.mem[i])
  /\ \A j \in Jobs : JobOK(job[j])
  /\ taken \in Seq(Label) /\ Len(taken) <= MaxSnaps
  /\ src \subseteq DOMAIN taken
  /\ dst \in [Dest -> SUBSET (DOMAIN taken)]
  /\ adm.pc \in {"idle", "save"} /\ adm.solo \in BOOLEAN
  /\ unused \subseteq Policy /\ calm \in BOOLEAN
  /\ strikes \in [Policy -> 0..2]
  /\ faults \in 0..MaxFaults /\ admin \in 0..MaxAdmin

\* While nothing overlapped and nobody touched a destination, the base a
\* policy remembers can be built on: it is on the destination, or gone from
\* the dataset (retention), which RunReplication notices.  Holds whatever
\* fails and wherever the portal dies between cleaning the remote, sending
\* and saving.
BaseUsable ==
  calm => \A i \in DOMAIN file :
    LET p == file[i] IN
    /\ p.lastRep # 0 /\ p.form.remote # NoDest
         => p.lastRep \in dst[p.form.remote] \/ p.lastRep \notin src
    /\ p.lastLocal # 0 /\ p.form.local # NoDest
         => p.lastLocal \in dst[p.form.local]

\* A remote replication that meets no fault, and whose remote could be cleaned
\* if it had to be, succeeds while nothing overlapped and nobody touched a
\* destination, even after faults, crashes and retention took its base: an
\* incremental send is then never refused, and one whose base is gone falls
\* back to a full send.  Whatever did overlap (a stale copy of the file written
\* back, a destination emptied or changed), it does not fail so twice in a row,
\* because a failure resets the base (RunReplication, execScheduledSnapshot).
\* Excepted is a full send to a remote with several snapshots, which is never
\* cleaned and refused each time.
RemoteRecovers == \A p \in Policy : strikes[p] < IF calm THEN 1 ELSE 2

\* Retention destroys a snapshot only while as many newer ones exist as some
\* policy that counts it keeps, even when two jobs prune from lists that the
\* other one has made stale.
RetentionFloor ==
  [][\A s \in src \ src' : \E p \in Policy : \E f \in Forms[p] :
       /\ taken[s] \in Covers[f.label]
       /\ Cardinality({t \in src' : t > s /\ taken[t] \in Covers[f.label]}) >= f.keep]_vars
=============================================================================
