------------------------- MODULE SDNGateway_proofs --------------------------
(***************************************************************************)
(* The gateway monitor for every number of gateways, every configuration,  *)
(* window, threshold and clock step: a gateway returns only after the hold *)
(* time, only a dead PPPoE link is hung up, and after a round without a    *)
(* failed command the default route and the policy tables are what the     *)
(* verdicts of that round ask for.                                         *)
(*                                                                         *)
(* The invariants, each kept by every step: CycleInv relates what a        *)
(* round has read to the configuration; TrackInv and RecordInv are the     *)
(* types of the trackers and of the reconnect records, with what relates   *)
(* their clocks; HealthInv and PublishedInv tie the health clock to the    *)
(* time since the last interruption and the published state to the         *)
(* trackers; DeadInv says that a link recorded as failing has not answered *)
(* since; SyncInv and TableInv say that the kernel holds what the daemon   *)
(* remembers to have written, except for what the environment took away.   *)
(* The lemmas of the first part say what the operators of the model        *)
(* compute, since the properties speak of priorities and hops and the      *)
(* steps of positions and tables.                                          *)
(***************************************************************************)
EXTENDS SDNGateway, WellFoundedInduction, TLAPS

(***************************************************************************)
(* What the operators compute.                                             *)
(***************************************************************************)
(* A set of numbers has a least one. *)
LEMMA LeastNat == ASSUME NEW T \in SUBSET Nat, T # {} PROVE \E m \in T : \A n \in T : m <= n
<1>1. PICK x \in T : \A y \in T : ~(<<y, x>> \in OpToRel(<, Nat))
  BY WFMin, NatLessThanWellFounded
<1>2. \A y \in T : ~(y < x)
  BY <1>1 DEF OpToRel
<1> QED BY <1>2

(* The smaller of two numbers ... *)
LEMMA MinTwo ==
  ASSUME NEW a \in Int, NEW b \in Int
  PROVE  Min({a, b}) = IF a <= b THEN a ELSE b
  BY DEF Min

(* ... and the larger one. *)
LEMMA MaxTwo ==
  ASSUME NEW a \in Int, NEW b \in Int
  PROVE  Max({a, b}) = IF a <= b THEN b ELSE a
  BY DEF Max

(* What a configuration consists of. *)
LEMMA ConfigType == ASSUME NEW c \in Configs
    PROVE  /\ c \in Seq(Gateway) /\ Len(c) \in Nat /\ Len(c) <= Width
              /\ DOMAIN c = 1..Len(c)
           /\ \A i \in DOMAIN c : c[i].id \in GW /\ c[i].monitor \in BOOLEAN
              /\ c[i].prio \in Nat
           /\ Ids(c) \subseteq GW
<1>1. c \in Seq(Gateway) /\ Len(c) <= Width
  BY ConfigAssumption
<1>2. \A i \in DOMAIN c : c[i] \in Gateway
  BY <1>1
<1>3. \A i \in DOMAIN c : c[i].id \in GW /\ c[i].monitor \in BOOLEAN /\ c[i].prio \in Nat
  BY <1>2 DEF Gateway
<1> QED BY <1>1, <1>3 DEF Ids

(* The ids of a configuration are distinct: Of finds the gateway at a position ... *)
LEMMA OfPosition == ASSUME NEW c \in Configs, NEW i \in DOMAIN c PROVE Of(c, c[i].id) = c[i]
<1>1. \A j \in DOMAIN c : c[j].id = c[i].id => j = i
  BY ConfigAssumption
<1> QED BY <1>1 DEF Of

(* ... and a position for every id. *)
LEMMA OfId == ASSUME NEW c \in Configs, NEW g \in Ids(c)
    PROVE  \E i \in DOMAIN c : g = c[i].id /\ Of(c, g) = c[i]
  BY OfPosition DEF Ids

(* The gateway found has the id asked for. *)
LEMMA OfFields == ASSUME NEW c \in Configs, NEW g \in Ids(c)
    PROVE  Of(c, g).id = g /\ Of(c, g).monitor \in BOOLEAN /\ g \in GW
  BY OfId, ConfigType

(* Best picks a member of S that none beats *)
LEMMA BestIs == ASSUME NEW c \in Configs, NEW S, S \cap Ids(c) # {}
    PROVE  \E j \in DOMAIN c : /\ Best(c, S) = c[j].id /\ c[j].id \in S
                               /\ \A i \in DOMAIN c : c[i].id \in S
                                  => c[j].prio <= c[i].prio
<1> DEFINE D == {i \in DOMAIN c : c[i].id \in S}
           T == {c[i].prio : i \in D}
           P(i) == c[i].id \in S /\ \A j \in DOMAIN c : c[j].id \in S
           => c[i].prio <= c[j].prio
<1>1. T \in SUBSET Nat /\ T # {}
  BY ConfigType DEF Ids
<1>2. PICK m \in T : \A n \in T : m <= n
  BY <1>1, LeastNat
<1>3. \E i \in DOMAIN c : P(i)
  BY <1>2
<1> DEFINE k == CHOOSE i \in DOMAIN c : P(i)
<1>4. k \in DOMAIN c /\ P(k)
  BY <1>3
<1>5. Best(c, S) = c[k].id
  BY DEF Best
<1> HIDE DEF k
<1> QED BY <1>4, <1>5

(* FirstOf is Best, or none at all when there is nothing to choose from. *)
LEMMA FirstIs == ASSUME NEW c \in Configs, NEW S, S \subseteq Ids(c)
    PROVE  /\ S = {} => FirstOf(c, S) = None
           /\ S # {} => /\ FirstOf(c, S) \in S /\ FirstOf(c, S) # None
                        /\ \E j \in DOMAIN c : /\ FirstOf(c, S) = c[j].id
                                               /\ \A i \in DOMAIN c : c[i].id \in S
                                                  => c[j].prio <= c[i].prio
<1>1. None \notin S
  BY ConfigType, NoneAssumption
<1>2. CASE S # {}
  <2>1. FirstOf(c, S) = Best(c, S) /\ S \cap Ids(c) # {}
    BY <1>2 DEF FirstOf
  <2>2. PICK j \in DOMAIN c : /\ Best(c, S) = c[j].id /\ c[j].id \in S
                              /\ \A i \in DOMAIN c : c[i].id \in S => c[j].prio <= c[i].prio
    BY <2>1, BestIs
  <2> QED BY <1>1, <2>1, <2>2
<1> QED BY <1>2 DEF FirstOf

(* the plan *)
Planned(c, hops) == {s \in Slot : s[2] \in DOMAIN c
/\ (s[1] = "probe" => c[s[2]].id \in hops)}

(* They are tables of the model ... *)
LEMMA SlotIs ==
  ASSUME NEW c \in Configs, NEW i \in DOMAIN c, NEW k \in {"follow", "only", "probe"}
    PROVE  <<k, i>> \in Slot /\ <<k, i>>[1] = k /\ <<k, i>>[2] = i
  BY ConfigAssumption DEF Slot

(* ... and the main table is none of them. *)
LEMMA MainIs == Main \in Slot /\ \A c \in Configs : \A h : Main \notin Planned(c, h)
<1>1. Main \in Slot /\ Main[2] = 0
  BY DEF Main, Slot
<1> QED BY <1>1, ConfigType DEF Planned

(* Gateways that have a next hop and count as up. *)
UpHops(up, hops) == {g \in hops : up[g]}

(* Where a table that follows the default sends traffic whose gateway is out. *)
FollowHop(c, hops, U) ==
    IF FirstOf(c, U) # None THEN FirstOf(c, U)
    ELSE IF FirstOf(c, hops) = None THEN "unreachable" ELSE FirstOf(c, hops)

(* What a plan writes to a table. *)
TableHop(c, hops, U, s) ==
    IF s[1] = "probe" \/ c[s[2]].id \in U THEN c[s[2]].id
    ELSE IF s[1] = "follow" THEN FollowHop(c, hops, U)
    ELSE OnlyTable(c[s[2]].id, hops, FirstOf(c, U))

(* PlanRoutes, in these terms ... *)
LEMMA PlanIs ==
    ASSUME NEW c, NEW up, NEW hops
    PROVE  PlanRoutes(c, up, hops) =
             [default    |-> FirstOf(c, UpHops(up, hops)),
              lastResort |-> IF FirstOf(c, UpHops(up, hops)) = None THEN FirstOf(c,
                 hops) ELSE None,
              tables     |-> [s \in Planned(c, hops) |-> TableHop(c, hops, UpHops(up, hops),
                 s)]]
<1> DEFINE usable  == {g \in hops : up[g]}
           default == FirstOf(c, usable)
           follow  == IF default # None THEN default ELSE FirstOf(c, hops)
           reject(h) == IF h = None THEN "unreachable" ELSE h
           table(s) == LET g == c[s[2]].id
                       IN  IF s[1] = "probe" \/ g \in usable THEN g
                           ELSE IF s[1] = "follow" THEN reject(follow)
                           ELSE OnlyTable(g, hops, default)
<1>1. PlanRoutes(c, up, hops) = [default |-> default,
         lastResort |-> IF default = None THEN follow ELSE None,
                                 tables |-> [s \in Planned(c, hops) |-> table(s)]]
  BY DEF PlanRoutes, Planned
<1>2. reject(follow) = FollowHop(c, hops, usable)
  BY DEF FollowHop
<1> HIDE DEF follow
<1>3. ASSUME NEW s PROVE table(s) = TableHop(c, hops, usable, s)
  BY <1>2 DEF TableHop
<1>4. default = None => follow = FirstOf(c, hops)
  BY DEF follow
<1> HIDE DEF table
<1>5. [s \in Planned(c, hops) |-> table(s)] = [s \in Planned(c, hops) |-> TableHop(c, hops,
         usable, s)]
  BY <1>3
<1> HIDE DEF default
<1> QED BY <1>1, <1>4, <1>5 DEF UpHops, default

(* ... field by field ... *)
LEMMA PlanHead ==
    ASSUME NEW c, NEW up, NEW hops
    PROVE  /\ PlanRoutes(c, up, hops).default = FirstOf(c, UpHops(up, hops))
           /\ PlanRoutes(c, up, hops).lastResort =
                IF PlanRoutes(c, up, hops).default = None THEN FirstOf(c, hops) ELSE None
           /\ DOMAIN PlanRoutes(c, up, hops).tables = Planned(c, hops)
           /\ \A s \in Planned(c, hops) : PlanRoutes(c, up, hops).tables[s] = TableHop(c,
                 hops, UpHops(up, hops), s)
  BY PlanIs

(* ... and table by table. *)
LEMMA PlanTables ==
    ASSUME NEW c \in Configs, NEW hops, NEW U, NEW i \in DOMAIN c
    PROVE  /\ c[i].id \in hops => <<"probe", i>> \in Planned(c, hops)
           /\ <<"only", i>> \in Planned(c, hops) /\ <<"follow", i>> \in Planned(c, hops)
           /\ TableHop(c, hops, U, <<"probe", i>>) = c[i].id
           /\ c[i].id \in U => TableHop(c, hops, U, <<"only", i>>) = c[i].id
              /\ TableHop(c, hops, U, <<"follow", i>>) = c[i].id
           /\ c[i].id \notin U =>
                /\ TableHop(c, hops, U, <<"only", i>>) = OnlyTable(c[i].id, hops,
                      FirstOf(c, U))
                /\ TableHop(c, hops, U, <<"follow", i>>) = FollowHop(c, hops, U)
<1>1. c[i].id \in hops => <<"probe", i>> \in Planned(c, hops)
  BY SlotIs DEF Planned
<1>2. <<"only", i>> \in Planned(c, hops) /\ <<"follow", i>> \in Planned(c, hops)
  BY SlotIs DEF Planned
<1> QED BY <1>1, <1>2 DEF TableHop

(***************************************************************************)
(* A round.                                                                *)
(***************************************************************************)
(* What the daemon alone changes. *)
daemon == <<tr, rc, due, lastPlan, active, rulesFor, pc, seen>>

(* Steps that start the daemon anew, and steps of the environment. *)
Fresh   == NewGWMonitor /\ pc' \in {"idle", "stopped"}
/\ UNCHANGED <<cfg, kernel, state, hung, history>>
Outside == /\ cfg' \in Configs \cup {cfg} /\ UNCHANGED <<daemon, state, history, failed>>
           /\ (disable = "begun" /\ rules' = 0) \/ UNCHANGED rules

(* Every step is one of a round, a restart or one of the environment. *)
LEMMA NextCases == ASSUME [Next]_vars
    PROVE  Probe \/ NoGateways \/ Decide \/ Publish \/ Fresh \/ Outside
<1>1. CASE Loop
  BY <1>1 DEF Loop
<1>2. CASE Restart \/ StopMonitor \/ SDNRemoveUnit \/ SDNInstallUnit
  BY <1>2 DEF Restart, StopMonitor, SDNRemoveUnit, SDNInstallUnit, Fresh
<1>3. CASE SdnUndoRouting \/ RestoreFails
  BY <1>3 DEF SdnUndoRouting, RestoreFails, Outside, daemon, memory, kernel
<1>4. CASE \E g \in GW : LinkDown(g) \/ LinkUp(g)
  BY <1>4 DEF LinkDown, LinkUp, Outside, daemon, memory
<1>5. CASE StealDefault \/ ConfigChange
  BY <1>5 DEF StealDefault, ConfigChange, Outside, daemon, memory, kernel
<1>6. CASE UNCHANGED vars
  BY <1>6 DEF vars, Outside, daemon, memory, kernel
<1> QED BY <1>1, <1>2, <1>3, <1>4, <1>5, <1>6 DEF Next

(* A round works on one configuration, with hops and answers of its gateways; a gateway *)
(* that was probed answered if and only if it did in this round.                        *)
CycleInv ==
    /\ cfg \in Configs
    /\ pc \in {"idle", "probed", "routed", "stopped"}
    /\ pc \in {"probed", "routed"} => seen.c \in Configs
    /\ pc = "probed" =>
         /\ seen.hops \subseteq Ids(seen.c) /\ seen.probed \subseteq seen.hops
            /\ seen.ok \subseteq seen.probed
         /\ \A g \in seen.probed : Of(seen.c, g).monitor /\ (g \in seen.ok <=> g \in lastOK)

(* Every step keeps CycleInv. *)
LEMMA CycleNext == ASSUME CycleInv, [Next]_vars PROVE CycleInv'
<1>1. CASE Probe
  <2>1. cfg' = cfg /\ pc' = "probed"
    BY <1>1 DEF Probe
  <2>2. PICK d \in Steps : \E ok \in SUBSET {g \in {h \in SDNResolveHops(cfg) : Of(cfg,
           h).monitor /\ due[h] <= d} : link[g] = "up"} :
           /\ seen' = [c |-> cfg, hops |-> SDNResolveHops(cfg),
                       probed |-> {h \in SDNResolveHops(cfg) : Of(cfg, h).monitor
                       /\ due[h] <= d}, ok |-> ok,
                       peer |-> {g \in SDNResolveHops(cfg) : link[g] = "up"}]
           /\ lastOK' = (lastOK \ {h \in SDNResolveHops(cfg) : Of(cfg, h).monitor
              /\ due[h] <= d}) \cup ok
    BY <1>1 DEF Probe
  <2>3. SDNResolveHops(cfg) \subseteq Ids(cfg)
    BY DEF SDNResolveHops
  <2> QED BY <2>1, <2>2, <2>3 DEF CycleInv
<1>2. CASE NoGateways
  BY <1>2 DEF NoGateways, CycleInv
<1>3. CASE Decide
  <2>1. cfg' = cfg /\ pc' = "routed" /\ seen'.c = seen.c /\ pc = "probed"
    BY <1>3 DEF Decide
  <2> QED BY <2>1 DEF CycleInv
<1>4. CASE Publish
  BY <1>4 DEF Publish, CycleInv
<1>5. CASE Fresh
  BY <1>5 DEF Fresh, CycleInv
<1>6. CASE Outside
  BY <1>6 DEF Outside, daemon, history, CycleInv
<1> QED BY NextCases, <1>1, <1>2, <1>3, <1>4, <1>5, <1>6

(* CycleInv holds initially. *)
LEMMA CycleInit == ASSUME Init PROVE CycleInv
  BY DEF Init, CycleInv

(***************************************************************************)
(* Trackers.                                                               *)
(***************************************************************************)
(* The type of a tracker; one of its two clocks is stopped. *)
Tracker == [up : BOOLEAN, win : Seq(BOOLEAN), fail : Age(DownSecs), health : Age(HoldSecs)]
Whole(t) == t \in Tracker /\ Len(t.win) <= Window /\ (t.fail = NoAge \/ t.health = NoAge)

(* A clock that runs grows up to its cap. *)
LEMMA OlderIs == ASSUME NEW cap \in Nat, NEW age \in Age(cap), NEW d \in Nat
    PROVE  /\ Older(age, d, cap) \in Age(cap)
           /\ age = NoAge => Older(age, d, cap) = NoAge
           /\ age # NoAge => Older(age, d, cap) = IF age + d <= cap THEN age + d ELSE cap
<1>1. CASE age = NoAge
  BY <1>1 DEF Older
<1>2. CASE age # NoAge
  <2>1. age \in 0..cap /\ age + d \in Nat
    BY <1>2 DEF Age
  <2>2. Older(age, d, cap) = IF age + d <= cap THEN age + d ELSE cap
    BY <1>2, <2>1, MinTwo DEF Older
  <2> QED BY <1>2, <2>2 DEF Age
<1> QED BY <1>1, <1>2

(* Time passing keeps a tracker whole and its verdict. *)
LEMMA AgeWhole == ASSUME NEW t, Whole(t), NEW d \in Nat
    PROVE  /\ Whole(AgeTracker(t, d)) /\ AgeTracker(t, d).up = t.up
           /\ AgeTracker(t, d).health = Older(t.health, d, HoldSecs)
<1> DEFINE a == Older(t.fail, d, DownSecs)
           b == Older(t.health, d, HoldSecs)
           u == AgeTracker(t, d)
<1>1. t \in Tracker /\ t.fail \in Age(DownSecs) /\ t.health \in Age(HoldSecs)
      /\ DownSecs \in Nat /\ HoldSecs \in Nat
  BY ParamAssumption DEF Whole, Tracker
<1>2. /\ a \in Age(DownSecs) /\ b \in Age(HoldSecs)
      /\ t.fail = NoAge => a = NoAge
      /\ t.health = NoAge => b = NoAge
  BY <1>1, OlderIs
<1>3. u = [t EXCEPT !.fail = a, !.health = b]
  BY DEF AgeTracker
<1> HIDE DEF a, b, u
<1>4. u \in Tracker /\ u.up = t.up /\ u.win = t.win /\ u.fail = a /\ u.health = b
  BY <1>1, <1>2, <1>3 DEF Tracker
<1> QED BY <1>2, <1>4 DEF Whole, u, b

(* A window of samples stays within its size. *)
LEMMA SamplesIs ==
  ASSUME NEW s \in Seq(BOOLEAN)
  PROVE  LastSamples(s) \in Seq(BOOLEAN) /\ Len(LastSamples(s)) <= Window
<1>1. Window \in Nat /\ Window >= 1 /\ Len(s) \in Nat
  BY ParamAssumption
<1>2. LastSamples(s) = SubSeq(s,
         IF 1 <= Len(s) - Window + 1 THEN Len(s) - Window + 1 ELSE 1, Len(s))
  <2>1. Len(s) - Window + 1 \in Int
    BY <1>1
  <2> QED BY <2>1, MaxTwo DEF LastSamples
<1>3. CASE 1 <= Len(s) - Window + 1
  BY <1>1, <1>2
<1>4. CASE ~(1 <= Len(s) - Window + 1)
  BY <1>1, <1>2
<1> QED BY <1>3, <1>4

(* gwTracker.add keeps a tracker whole; a gateway that was out comes back only when the *)
(* health clock has reached the hold time.                                              *)
LEMMA AddIs == ASSUME NEW t, Whole(t), NEW ok \in BOOLEAN
    PROVE  /\ Whole(Add(t, ok))
           /\ Add(t, ok).health = HealthClock(t.health, ok)
           /\ ~t.up /\ Add(t, ok).up => Add(t, ok).health >= HoldSecs
<1> DEFINE win    == LastSamples(Append(t.win, ok))
           fail   == FailClock(t.fail, ok)
           health == HealthClock(t.health, ok)
           down   == \/ fail >= DownSecs
                     \/ Len(win) >= Window /\ Loss(win) >= LossPct
           up     == IF t.up THEN ~down ELSE health >= HoldSecs
<1>1. Add(t, ok) = [up |-> up, win |-> win, fail |-> fail, health |-> health]
  BY DEF Add
<1>2. win \in Seq(BOOLEAN) /\ Len(win) <= Window
  <2>1. Append(t.win, ok) \in Seq(BOOLEAN)
    BY DEF Whole, Tracker
  <2> QED BY <2>1, SamplesIs
<1>3. fail \in Age(DownSecs) /\ health \in Age(HoldSecs) /\ (fail = NoAge \/ health = NoAge)
  <2>1. t.fail \in Age(DownSecs) /\ t.health \in Age(HoldSecs)
    BY DEF Whole, Tracker
  <2>2. CASE ok
    BY <2>1, ParamAssumption DEF FailClock, HealthClock, Start, Age
  <2>3. CASE ~ok
    BY <2>1, ParamAssumption DEF FailClock, HealthClock, Start, Age
  <2> QED BY <2>2, <2>3
<1>4. up \in BOOLEAN
  <2>1. CASE t.up
    BY <2>1
  <2>2. CASE ~t.up
    BY <2>2
  <2> QED BY <2>2
<1>5. ~t.up /\ up => health >= HoldSecs
  OBVIOUS
<1> HIDE DEF win, fail, health, up
<1> QED BY <1>1, <1>2, <1>3, <1>4, <1>5 DEF Whole, Tracker, health

(* All trackers are whole. *)
TrackInv == \A g \in GW : Whole(tr[g]) /\ quiet[g] \in 0..HoldSecs

(* A new tracker is whole. *)
LEMMA FreshWhole == ASSUME NEW up \in BOOLEAN PROVE Whole(NewGWTracker(up))
  BY ParamAssumption DEF Whole, Tracker, NewGWTracker, Age

(* The verdict of a round: up without monitoring, a sample added when probed, unchanged *)
(* otherwise.                                                                           *)
LEMMA VerdictIs ==
    ASSUME CycleInv, TrackInv, pc = "probed", NEW h \in Ids(seen.c)
    PROVE  LET g == Of(seen.c, h) IN
           /\ Whole(Verdict(g))
           /\ ~g.monitor => Verdict(g).up = TRUE /\ Verdict(g).health = tr[h].health
           /\ h \in seen.probed => g.monitor /\ Verdict(g) = Add(tr[h], h \in seen.ok)
           /\ g.monitor /\ h \notin seen.probed => Verdict(g) = tr[h]
<1> DEFINE g == Of(seen.c, h)
<1>1. seen.c \in Configs /\ g.id = h /\ g.monitor \in BOOLEAN /\ h \in GW
  BY OfFields DEF CycleInv
<1>2. h \in seen.probed => g.monitor
  BY DEF CycleInv
<1>3. Whole(tr[h])
  BY <1>1 DEF TrackInv
<1> HIDE DEF g
<1>4. CASE ~g.monitor
  <2>1. Verdict(g) = [tr[h] EXCEPT !.up = TRUE]
    BY <1>1, <1>2, <1>4 DEF Verdict
  <2>2. tr[h] \in Tracker
    BY <1>3 DEF Whole
  <2>3. \A u : u = [tr[h] EXCEPT !.up = TRUE] => /\ u \in Tracker /\ u.up = TRUE
        /\ u.win = tr[h].win
                                                /\ u.fail = tr[h].fail
                                                   /\ u.health = tr[h].health
    BY <2>2 DEF Tracker
  <2> QED BY <1>2, <1>3, <1>4, <2>1, <2>3 DEF Whole, g
<1>5. CASE g.monitor /\ h \in seen.probed
  <2>1. Verdict(g) = Add(tr[h], h \in seen.ok)
    BY <1>1, <1>5 DEF Verdict
  <2>2. (h \in seen.ok) \in BOOLEAN
    OBVIOUS
  <2> QED BY <1>3, <1>5, <2>1, <2>2, AddIs DEF g
<1>6. CASE g.monitor /\ h \notin seen.probed
  <2>1. Verdict(g) = tr[h]
    BY <1>1, <1>6 DEF Verdict
  <2> QED BY <1>3, <1>6, <2>1 DEF g
<1> QED BY <1>4, <1>5, <1>6

(* Decide stores the verdicts. *)
LEMMA DecideTracks == ASSUME CycleInv, Decide
    PROVE  \A g \in GW : tr'[g] = IF g \in Ids(seen.c) THEN Verdict(Of(seen.c,
              g)) ELSE tr[g]
  BY DEF Decide

(* Time passing, tracker by tracker. *)
LEMMA LaterTracks == ASSUME TrackInv, NEW d \in Steps, Later(d), NEW g \in GW
    PROVE  /\ d \in Nat /\ Whole(tr'[g]) /\ tr'[g].up = tr[g].up
           /\ tr'[g].health = Older(tr[g].health, d, HoldSecs)
<1>1. d \in Nat /\ tr'[g] = AgeTracker(tr[g], d)
  BY ParamAssumption DEF Later
<1> QED BY <1>1, AgeWhole DEF TrackInv

(* Every step keeps TrackInv. *)
LEMMA TrackNext == ASSUME CycleInv, TrackInv, [Next]_vars PROVE TrackInv'
<1>1. CASE Probe \/ NoGateways
  <2>1. PICK d \in Steps : /\ Later(d)
                           /\ \E S : quiet' = [g \in GW |->
                                  IF g \in S THEN 0 ELSE Min({quiet[g] + d, HoldSecs})]
    BY <1>1 DEF Probe, NoGateways
  <2>2. ASSUME NEW g \in GW PROVE Whole(tr'[g]) /\ quiet'[g] \in 0..HoldSecs
    <3>1. d \in Nat /\ HoldSecs \in Nat /\ quiet[g] \in 0..HoldSecs /\ Whole(tr'[g])
      BY <2>1, LaterTracks, ParamAssumption DEF TrackInv
    <3>2. quiet[g] + d \in Nat /\ Min({quiet[g] + d, HoldSecs}) \in 0..HoldSecs
      BY <3>1, MinTwo
    <3> QED BY <2>1, <3>1, <3>2
  <2> QED BY <2>2 DEF TrackInv
<1>2. CASE Decide
  <2>1. quiet' = quiet /\ pc = "probed"
    BY <1>2 DEF Decide, history
  <2>2. ASSUME NEW g \in GW PROVE Whole(tr'[g])
    BY <1>2, <2>1, DecideTracks, VerdictIs DEF TrackInv
  <2> QED BY <2>1, <2>2 DEF TrackInv
<1>3. CASE Publish
  BY <1>3 DEF Publish, history, TrackInv
<1>4. CASE Fresh
  <2>1. quiet' = quiet
    BY <1>4 DEF Fresh, history
  <2>2. ASSUME NEW g \in GW PROVE Whole(tr'[g])
    <3> DEFINE b == state = None \/ (g \in DOMAIN state.up => state.up[g])
    <3>1. tr'[g] = NewGWTracker(b)
      BY <1>4 DEF Fresh, NewGWMonitor
    <3>2. b \in BOOLEAN
      OBVIOUS
    <3> HIDE DEF b
    <3> QED BY <3>1, <3>2, FreshWhole
  <2> QED BY <2>1, <2>2 DEF TrackInv
<1>5. CASE Outside
  BY <1>5 DEF Outside, daemon, history, TrackInv
<1> QED BY NextCases, <1>1, <1>2, <1>3, <1>4, <1>5

(* TrackInv holds initially. *)
LEMMA TrackInit == ASSUME Init PROVE TrackInv
<1>1. \A g \in GW : tr[g] = NewGWTracker(TRUE) /\ quiet[g] = HoldSecs
  BY DEF Init
<1>2. Whole(NewGWTracker(TRUE))
  BY FreshWhole
<1>3. HoldSecs \in 0..HoldSecs
  BY ParamAssumption
<1> QED BY <1>1, <1>2, <1>3 DEF TrackInv

(***************************************************************************)
(* The hold time.                                                          *)
(***************************************************************************)
(* The health clock never runs ahead of the time since the last interruption, but for a *)
(* probe that failed in this very round and is not yet recorded.                        *)
HealthInv == \A g \in GW : \/ tr[g].health = NoAge \/ quiet[g] >= tr[g].health
                           \/ pc = "probed" /\ g \in seen.probed \ seen.ok

(* The published state names gateway g. *)
Known(g) == state # None /\ g \in DOMAIN state.up

(* Outside the last step of a round the published state is that of the trackers, also   *)
(* after a restart; in it, a monitored gateway that returns has been quiet for the hold *)
(* time.                                                                                *)
PublishedInv ==
    \A g \in GW :
      /\ Known(g) => state.up[g] \in BOOLEAN
      /\ Known(g) /\ pc # "routed" => tr[g].up = state.up[g]
      /\ Known(g) /\ pc = "routed" /\ ~state.up[g] /\ g \in Ids(seen.c)
         /\ Of(seen.c, g).monitor /\ tr[g].up =>
           quiet[g] >= HoldSecs

(* The hypothesis of HoldAlwaysServed: a missing next hop does not count as an         *)
(* interruption. The code does not sample a gateway without a next hop, so with it the *)
(* property fails.                                                                     *)
NoHop == "hop" \notin Interruptions

(* Every step keeps HealthInv. *)
LEMMA HealthNext ==
  ASSUME NoHop, CycleInv, TrackInv, HealthInv, [Next]_vars
  PROVE  HealthInv'
<1>1. CASE Probe \/ NoGateways
  <2>1. \E d \in Steps : Later(d) /\ \E P, O, h :
            /\ quiet' = [g \in GW |-> IF g \in Interrupted(P \ O,
                  h) THEN 0 ELSE Min({quiet[g] + d, HoldSecs})]
            /\ (pc' = "probed" /\ seen'.probed = P /\ seen'.ok = O) \/ P = {}
    <3>1. CASE Probe
      <4> DEFINE hops      == SDNResolveHops(cfg)
                 probed(d) == {g \in hops : Of(cfg, g).monitor /\ due[g] <= d}
      <4>1. PICK d \in Steps : \E ok \in SUBSET {g \in probed(d) : link[g] = "up"} :
               /\ Later(d)
               /\ seen' = [c |-> cfg, hops |-> hops, probed |-> probed(d), ok |-> ok,
                           peer |-> {g \in hops : link[g] = "up"}]
               /\ quiet' = [g \in GW |-> IF g \in Interrupted(probed(d) \ ok, hops) THEN 0
                                         ELSE Min({quiet[g] + d, HoldSecs})]
        BY <3>1 DEF Probe
      <4> HIDE DEF hops, probed
      <4>2. PICK ok :
               /\ Later(d)
               /\ seen' = [c |-> cfg, hops |-> hops, probed |-> probed(d), ok |-> ok,
                           peer |-> {g \in hops : link[g] = "up"}]
               /\ quiet' = [g \in GW |-> IF g \in Interrupted(probed(d) \ ok, hops) THEN 0
                                         ELSE Min({quiet[g] + d, HoldSecs})]
        BY <4>1
      <4>3. pc' = "probed" /\ seen'.probed = probed(d) /\ seen'.ok = ok
        BY <3>1, <4>2 DEF Probe
      <4> QED BY <4>2, <4>3
    <3>2. CASE NoGateways
      <4>1. PICK d \in Steps : /\ Later(d)
                  /\ quiet' = [g \in GW |-> IF g \in Interrupted({},
                        {}) THEN 0 ELSE Min({quiet[g] + d, HoldSecs})]
        BY <3>2 DEF NoGateways
      <4>2. {} \ {} = {}
        OBVIOUS
      <4> QED BY <4>1
    <3> QED BY <1>1, <3>1, <3>2
  <2>2. PICK d \in Steps : Later(d) /\ \E P, O, h :
            /\ quiet' = [g \in GW |-> IF g \in Interrupted(P \ O,
                  h) THEN 0 ELSE Min({quiet[g] + d, HoldSecs})]
            /\ (pc' = "probed" /\ seen'.probed = P /\ seen'.ok = O) \/ P = {}
    BY <2>1
  <2>3. PICK P, O, h :
            /\ quiet' = [g \in GW |-> IF g \in Interrupted(P \ O,
                  h) THEN 0 ELSE Min({quiet[g] + d, HoldSecs})]
            /\ (pc' = "probed" /\ seen'.probed = P /\ seen'.ok = O) \/ P = {}
    BY <2>2
  <2>4. ASSUME NEW g \in GW PROVE \/ tr'[g].health = NoAge \/ quiet'[g] >= tr'[g].health
                                  \/ pc' = "probed" /\ g \in seen'.probed \ seen'.ok
    <3>1. CASE g \in P \ O
      BY <2>3, <3>1
    <3>2. CASE g \notin P \ O
      <4>1. quiet'[g] = Min({quiet[g] + d, HoldSecs})
        <5>1. g \notin Interrupted(P \ O, h)
          BY <3>2 DEF Interrupted, NoHop
        <5> QED BY <2>3, <5>1
      <4>2. /\ d \in Nat /\ HoldSecs \in Nat /\ quiet[g] \in 0..HoldSecs
            /\ tr[g].health \in Age(HoldSecs)
               /\ tr'[g].health = Older(tr[g].health, d, HoldSecs)
        <5>1. Whole(tr[g]) /\ quiet[g] \in 0..HoldSecs
          BY DEF TrackInv
        <5>2. d \in Nat /\ tr'[g].health = Older(tr[g].health, d, HoldSecs)
          BY <2>2, LaterTracks
        <5> QED BY <5>1, <5>2, ParamAssumption DEF Whole, Tracker
      <4>3. quiet'[g] = IF quiet[g] + d <= HoldSecs THEN quiet[g] + d ELSE HoldSecs
        BY <4>1, <4>2, MinTwo
      <4>4. tr[g].health = NoAge \/ quiet[g] >= tr[g].health
        BY <1>1 DEF HealthInv, Probe, NoGateways
      <4>5. CASE tr[g].health = NoAge
        BY <4>2, <4>5, OlderIs
      <4>6. CASE tr[g].health # NoAge
        <5>1. /\ tr'[g].health = IF tr[g].health + d <= HoldSecs
                                THEN tr[g].health + d ELSE HoldSecs
              /\ tr[g].health \in 0..HoldSecs
          BY <4>2, <4>6, OlderIs DEF Age
        <5> QED BY <4>2, <4>3, <4>4, <4>6, <5>1
      <4> QED BY <4>5, <4>6
    <3> QED BY <3>1, <3>2
  <2> QED BY <2>4 DEF HealthInv
<1>2. CASE Decide
  <2>1. quiet' = quiet /\ pc = "probed" /\ pc' = "routed"
    BY <1>2 DEF Decide, history
  <2>2. ASSUME NEW g \in GW PROVE tr'[g].health = NoAge \/ quiet[g] >= tr'[g].health
    <3>1. CASE g \notin Ids(seen.c)
      BY <1>2, <3>1, DecideTracks DEF HealthInv, CycleInv
    <3>2. CASE g \in Ids(seen.c) /\ g \notin seen.probed
      <4>1. tr'[g].health = tr[g].health
        BY <1>2, <2>1, <3>2, DecideTracks, VerdictIs
      <4> QED BY <3>2, <4>1 DEF HealthInv
    <3>3. CASE g \in Ids(seen.c) /\ g \in seen.probed
      <4>1. tr'[g].health = HealthClock(tr[g].health, g \in seen.ok)
        <5>0. tr'[g] = Verdict(Of(seen.c, g)) /\ Whole(tr[g]) /\ (g \in seen.ok) \in BOOLEAN
          BY <1>2, <3>3, DecideTracks DEF TrackInv
        <5>1. tr'[g] = Add(tr[g], g \in seen.ok)
          BY <5>0, <2>1, <3>3, VerdictIs
        <5> DEFINE b == g \in seen.ok
        <5> HIDE DEF b
        <5>2. Add(tr[g], b).health = HealthClock(tr[g].health, b)
          BY <5>0, AddIs DEF b
        <5> QED BY <5>1, <5>2 DEF b
      <4>2. quiet[g] \in Nat
        BY DEF TrackInv
      <4> QED BY <4>1, <4>2 DEF HealthInv, HealthClock, Start
    <3> QED BY <3>1, <3>2, <3>3
  <2> QED BY <2>1, <2>2 DEF HealthInv
<1>3. CASE Publish
  BY <1>3 DEF Publish, history, HealthInv
<1>4. CASE Fresh
  BY <1>4 DEF Fresh, NewGWMonitor, NewGWTracker, HealthInv
<1>5. CASE Outside
  BY <1>5 DEF Outside, daemon, history, HealthInv
<1> QED BY NextCases, <1>1, <1>2, <1>3, <1>4, <1>5

(* Every step keeps PublishedInv. *)
LEMMA PublishedNext ==
  ASSUME NoHop, CycleInv, TrackInv, HealthInv, HealthInv', PublishedInv, [Next]_vars
  PROVE  PublishedInv'
<1>1. CASE Probe \/ NoGateways
  <2>1. PICK d \in Steps : Later(d)
    BY <1>1 DEF Probe, NoGateways
  <2>2. pc' # "routed" /\ pc # "routed" /\ (state' = state \/ state' = None)
    BY <1>1 DEF Probe, NoGateways
  <2>3. \A g \in GW : tr'[g].up = tr[g].up
    BY <2>1, LaterTracks
  <2> QED BY <2>2, <2>3 DEF PublishedInv, Known
<1>2. CASE Decide
  <2>1. quiet' = quiet /\ pc = "probed" /\ pc' = "routed" /\ state' = state
        /\ seen'.c = seen.c
    BY <1>2 DEF Decide, history
  <2>2. ASSUME NEW g \in GW, Known(g), ~state.up[g], g \in Ids(seen.c),
               Of(seen.c, g).monitor, tr'[g].up
        PROVE  quiet[g] >= HoldSecs
    <3>1. ~tr[g].up /\ Whole(tr[g]) /\ (g \in seen.ok) \in BOOLEAN
      BY <2>1, <2>2 DEF PublishedInv, TrackInv
    <3>2. tr'[g] = Add(tr[g], g \in seen.ok)
      BY <1>2, <2>1, <2>2, <3>1, DecideTracks, VerdictIs
    <3>3. tr'[g].health >= HoldSecs
      BY <2>2, <3>1, <3>2, AddIs
    <3>4. quiet[g] >= tr'[g].health \/ tr'[g].health = NoAge
      BY <2>1 DEF HealthInv
    <3>5. quiet[g] \in Nat /\ HoldSecs \in Nat /\ HoldSecs > 0
      BY ParamAssumption DEF TrackInv
    <3>6. tr'[g].health \in Int
      <4>1. Whole(tr'[g])
        BY <3>1, <3>2, AddIs
      <4> QED BY <4>1 DEF Whole, Tracker, Age, NoAge
    <3> QED BY <3>3, <3>4, <3>5, <3>6 DEF NoAge
  <2> QED BY <2>1, <2>2 DEF PublishedInv, Known
<1>3. CASE Publish
  <2>1. pc = "routed" /\ pc' = "idle" /\ tr' = tr
        /\ state'.up = [g \in Ids(seen.c) |-> tr[g].up]
    BY <1>3 DEF Publish
  <2>2. \A g \in GW : tr[g].up \in BOOLEAN
    BY DEF TrackInv, Whole, Tracker
  <2> QED BY <2>1, <2>2 DEF PublishedInv, Known
<1>4. CASE Fresh
  <2>1. state' = state /\ pc' # "routed"
    BY <1>4 DEF Fresh
  <2>2. ASSUME NEW g \in GW, Known(g) PROVE tr'[g].up = state.up[g]
    <3> DEFINE b == state = None \/ (g \in DOMAIN state.up => state.up[g])
    <3>1. tr'[g] = NewGWTracker(b)
      BY <1>4 DEF Fresh, NewGWMonitor
    <3>2. state.up[g] \in BOOLEAN /\ state # None /\ g \in DOMAIN state.up
      BY <2>2 DEF PublishedInv, Known
    <3>3. b = state.up[g]
      BY <3>2
    <3> HIDE DEF b
    <3> QED BY <3>1, <3>3 DEF NewGWTracker
  <2> QED BY <2>1, <2>2 DEF PublishedInv, Known
<1>5. CASE Outside
  BY <1>5 DEF Outside, daemon, history, PublishedInv, Known
<1> QED BY NextCases, <1>1, <1>2, <1>3, <1>4, <1>5

(* HoldServed, of one step. *)
HoldStep == \A g \in GW : Returns(g) => quiet[g] >= HoldSecs

(* Only the end of a round publishes a return. *)
LEMMA HoldIsServed == ASSUME CycleInv, PublishedInv, [Next]_vars PROVE HoldStep
<1>1. SUFFICES ASSUME NEW g \in GW, Returns(g) PROVE quiet[g] >= HoldSecs
  BY DEF HoldStep
<1>2. state' # state /\ state' # None
  BY <1>1 DEF Returns
<1>3. Publish
  BY <1>2, NextCases DEF Probe, NoGateways, Decide, Fresh, Outside
<1>4. pc = "routed" /\ state'.up = [h \in Ids(seen.c) |-> tr[h].up]
  BY <1>3 DEF Publish
<1> QED BY <1>1, <1>4 DEF Returns, PublishedInv, Known

(* A monitored gateway that was published as out is published as up again only when no  *)
(* probe of it has failed for the hold time, across failovers, changes of the           *)
(* configuration and restarts of the daemon (gwTracker.add, newGWMonitor, the published *)
(* state).                                                                              *)
THEOREM HoldAlwaysServed == ASSUME NoHop PROVE Spec => HoldServed
<1> DEFINE I == CycleInv /\ TrackInv /\ HealthInv /\ PublishedInv
<1>1. Init => I
  <2> SUFFICES ASSUME Init PROVE HealthInv /\ PublishedInv
    BY CycleInit, TrackInit
  <2>1. state = None /\ \A g \in GW : tr[g] = NewGWTracker(TRUE)
    BY DEF Init
  <2>2. NewGWTracker(TRUE).health = NoAge
    BY DEF NewGWTracker
  <2> QED BY <2>1, <2>2 DEF HealthInv, PublishedInv, Known
<1>2. I /\ [Next]_vars => I'
  BY CycleNext, TrackNext, HealthNext, PublishedNext
<1>3. I /\ [Next]_vars => [HoldStep]_vars
  BY HoldIsServed
<1> QED BY <1>1, <1>2, <1>3, PTL DEF Spec, HoldServed, HoldStep

(***************************************************************************)
(* Hanging up PPPoE links.                                                 *)
(***************************************************************************)
(* The type of a reconnect record; the wait never exceeds the pause it came from. *)
Reconnect == [target : {"", "ip", "peer", "1.1.1.1"}, answered : BOOLEAN,
   lastFailed : BOOLEAN,
              pause : 0..MaxPause, wait : 0..MaxPause]
Pausing(r) == r \in Reconnect /\ r.wait <= r.pause

(* Its numbers. *)
LEMMA PauseType == ASSUME NEW r, Pausing(r)
    PROVE  /\ r \in Reconnect /\ r.lastFailed \in BOOLEAN
           /\ MaxPause \in Nat /\ r.wait \in Nat /\ r.pause \in Nat /\ r.wait <= r.pause
              /\ r.pause <= MaxPause
<1>1. MaxPause \in Nat
  BY ParamAssumption
<1>2. r \in Reconnect /\ r.wait <= r.pause
  BY DEF Pausing
<1>3. r.wait \in 0..MaxPause
  BY <1>2 DEF Reconnect
<1>4. r.pause \in 0..MaxPause
  BY <1>2 DEF Reconnect
<1>5. r.lastFailed \in BOOLEAN
  BY <1>2 DEF Reconnect
<1> QED BY <1>1, <1>2, <1>3, <1>4, <1>5

(* All reconnect records are typed. *)
RecordInv == \A g \in GW : Pausing(rc[g])

(* What a round has heard of a link before it decides: the wait ends when the link is up, *)
(* and stays when it is out.                                                              *)
LEMMA HeardIs == ASSUME NEW g, NEW up \in BOOLEAN, Pausing(rc[g.id])
    PROVE  /\ Pausing(Heard(g, up))
           /\ up => Heard(g, up).wait = 0
           /\ ~up => /\ Heard(g, up).wait = rc[g.id].wait
                     /\ Heard(g, up).lastFailed = LastFailed(g)
<1> DEFINE r == rc[g.id]
           t == ProbeTarget(g)
           a == g.id \in seen.ok \/ (r.answered /\ r.target = t)
           f == LastFailed(g)
           h == Heard(g, up)
<1>1. t \in {"", "ip", "peer", "1.1.1.1"}
  BY DEF ProbeTarget
<1>2. a \in BOOLEAN
  OBVIOUS
<1>3. f \in BOOLEAN
  <2>1. r.lastFailed \in BOOLEAN
    BY DEF Pausing, Reconnect
  <2>2. CASE g.id \in seen.probed
    BY <2>2 DEF LastFailed
  <2>3. CASE g.id \notin seen.probed
    BY <2>1 DEF LastFailed
  <2> QED BY <2>2, <2>3
<1>4. r \in Reconnect /\ r.wait <= r.pause /\ 0 \in 0..MaxPause
  BY PauseType
<1>5. CASE up
  <2>1. h = [r EXCEPT !.target = t, !.answered = a, !.pause = 0, !.wait = 0]
    BY <1>5 DEF Heard
  <2> HIDE DEF r, t, a, f, h
  <2>2. h \in Reconnect /\ h.wait = 0 /\ h.pause = 0
    BY <1>1, <1>2, <1>4, <2>1 DEF Reconnect
  <2>3. Pausing(h)
    BY <2>2 DEF Pausing
  <2> QED BY <1>5, <2>2, <2>3 DEF h
<1>6. CASE ~up
  <2>1. h = [r EXCEPT !.target = t, !.answered = a, !.lastFailed = f]
    BY <1>6 DEF Heard
  <2> HIDE DEF r, t, a, f, h
  <2>2. h \in Reconnect /\ h.wait = r.wait /\ h.pause = r.pause /\ h.lastFailed = f
    BY <1>1, <1>2, <1>3, <1>4, <2>1 DEF Reconnect
  <2> QED BY <1>6, <2>2 DEF Pausing, h, r, f
<1> QED BY <1>5, <1>6

(* maybeReconnect: only a link that can be hung up, is out and failed last starts a new *)
(* wait.                                                                                *)
LEMMA ReconnectIs == ASSUME NEW g, NEW up \in BOOLEAN, Pausing(rc[g.id])
    PROVE  /\ Pausing(MaybeReconnect(g, up))
           /\ ~Reconnectable(g) => MaybeReconnect(g, up) = rc[g.id]
           /\ Reconnectable(g) /\ ~up => MaybeReconnect(g, up).lastFailed = LastFailed(g)
           /\ MaybeReconnect(g, up).wait > rc[g.id].wait => Reconnectable(g) /\ ~up
              /\ LastFailed(g)
<1> DEFINE h == Heard(g, up)
           m == MaybeReconnect(g, up)
           p == IF h.pause = 0 THEN FirstPause ELSE Min({2 * h.pause, MaxPause})
<1>1. /\ Pausing(h) /\ (up => h.wait = 0)
      /\ ~up => h.wait = rc[g.id].wait /\ h.lastFailed = LastFailed(g)
  BY HeardIs
<1>2. HangUp(g, up) <=> Reconnectable(g) /\ ~up /\ h.answered /\ h.lastFailed /\ h.wait = 0
  BY DEF HangUp
<1>3. rc[g.id].wait \in Nat
  BY PauseType
<1>4. CASE ~Reconnectable(g)
  <2>1. m = rc[g.id]
    BY <1>2, <1>4 DEF MaybeReconnect
  <2> QED BY <1>3, <1>4, <2>1
<1>5. CASE HangUp(g, up)
  <2>1. m = [h EXCEPT !.pause = p, !.wait = p]
    BY <1>5 DEF MaybeReconnect
  <2>2. p \in 0..MaxPause
    <3>1. h.pause \in Nat /\ FirstPause \in 0..MaxPause /\ MaxPause \in Nat
      BY <1>1, PauseType, ParamAssumption
    <3>2. 2 * h.pause \in Nat
      BY <3>1
    <3>3. Min({2 * h.pause, MaxPause}) \in 0..MaxPause
      BY <3>1, MinTwo
    <3> QED BY <3>1, <3>3
  <2> HIDE DEF h, m, p
  <2>3. m \in Reconnect /\ m.pause = p /\ m.wait = p /\ m.lastFailed = h.lastFailed
    BY <1>1, <2>1, <2>2 DEF Pausing, Reconnect
  <2> QED BY <1>1, <1>2, <1>5, <2>2, <2>3 DEF Pausing, m
<1>6. CASE Reconnectable(g) /\ ~HangUp(g, up)
  <2>1. m = h
    BY <1>6 DEF MaybeReconnect
  <2> HIDE DEF h, m, p
  <2>2. CASE up
    BY <1>1, <1>3, <1>6, <2>1 DEF m
  <2>3. CASE ~up
    BY <1>1, <1>3, <1>6, <2>1 DEF m
  <2> QED BY <2>2, <2>3
<1> QED BY <1>4, <1>5, <1>6

(* Decide does so for every gateway of the configuration. *)
LEMMA DecideReconnects == ASSUME CycleInv, TrackInv, Decide, NEW g \in GW
    PROVE  /\ g \notin Ids(seen.c) => rc'[g] = rc[g]
           /\ g \in Ids(seen.c) => /\ rc'[g] = MaybeReconnect(Of(seen.c, g), tr'[g].up)
                                   /\ Of(seen.c, g).id = g /\ tr'[g].up \in BOOLEAN
<1> DEFINE t == [h \in GW |-> IF h \in Ids(seen.c) THEN Verdict(Of(seen.c, h)) ELSE tr[h]]
           up == [h \in GW |-> t[h].up]
<1>1. tr' = t
      /\ rc' = [h \in GW |-> IF h \in Ids(seen.c) THEN MaybeReconnect(Of(seen.c, h),
         up[h]) ELSE rc[h]]
  BY DEF Decide
<1>2. up[g] = tr'[g].up
  BY <1>1
<1> HIDE DEF t, up
<1>3. pc = "probed"
  BY DEF Decide
<1>4. g \in Ids(seen.c) => Whole(tr'[g]) /\ Of(seen.c, g).id = g
  <2>1. SUFFICES ASSUME g \in Ids(seen.c) PROVE Whole(tr'[g]) /\ Of(seen.c, g).id = g
    OBVIOUS
  <2>2. tr'[g] = Verdict(Of(seen.c, g)) /\ seen.c \in Configs
    BY <1>3, <2>1, DecideTracks DEF CycleInv
  <2>3. Whole(Verdict(Of(seen.c, g)))
    BY <1>3, <2>1, VerdictIs
  <2> QED BY <2>1, <2>2, <2>3, OfFields
<1> QED BY <1>1, <1>2, <1>4 DEF Whole, Tracker

(* Time passing shortens the wait and nothing else. *)
LEMMA LaterReconnects == ASSUME RecordInv, NEW d \in Steps, Later(d), NEW g \in GW
    PROVE  Pausing(rc'[g]) /\ rc'[g].lastFailed = rc[g].lastFailed
<1> DEFINE w == Max({0, rc[g].wait - d})
<1>1. rc'[g] = [rc[g] EXCEPT !.wait = w]
  BY DEF Later
<1>2. rc[g] \in Reconnect /\ rc[g].wait <= rc[g].pause /\ d \in Nat /\ MaxPause \in Nat
  BY PauseType, ParamAssumption DEF RecordInv
<1>3. rc[g].wait \in Nat /\ rc[g].wait <= MaxPause /\ rc[g].pause \in Nat
  BY PauseType DEF RecordInv
<1>4. rc[g].wait - d \in Int
  BY <1>2, <1>3
<1>5. w = IF 0 <= rc[g].wait - d THEN rc[g].wait - d ELSE 0
  BY <1>4, MaxTwo
<1>6. w \in 0..MaxPause /\ w <= rc[g].pause
  BY <1>2, <1>3, <1>5
<1> HIDE DEF w
<1>7. \A u : u = [rc[g] EXCEPT !.wait = w] => u \in Reconnect /\ u.wait = w
      /\ u.pause = rc[g].pause /\ u.lastFailed = rc[g].lastFailed
  BY <1>2, <1>6 DEF Reconnect
<1> QED BY <1>1, <1>6, <1>7 DEF Pausing

(* A new record has not failed. *)
LEMMA NewPauses == Pausing(NoReconnect) /\ ~NoReconnect.lastFailed
  BY ParamAssumption DEF Pausing, NoReconnect, Reconnect

(* Every step keeps RecordInv. *)
LEMMA RecordNext == ASSUME CycleInv, TrackInv, RecordInv, [Next]_vars PROVE RecordInv'
<1>1. CASE Probe \/ NoGateways
  <2>1. PICK d \in Steps : Later(d)
    BY <1>1 DEF Probe, NoGateways
  <2> QED BY <2>1, LaterReconnects DEF RecordInv
<1>2. CASE Decide
  <2>1. SUFFICES ASSUME NEW g \in GW PROVE Pausing(rc'[g])
    BY DEF RecordInv
  <2>2. Pausing(rc[g])
    BY DEF RecordInv
  <2>3. CASE g \in Ids(seen.c)
    <3>1. rc'[g] = MaybeReconnect(Of(seen.c, g), tr'[g].up) /\ Of(seen.c, g).id = g
          /\ tr'[g].up \in BOOLEAN
      BY <1>2, <2>3, DecideReconnects
    <3> QED BY <2>2, <3>1, ReconnectIs
  <2> QED BY <1>2, <2>2, <2>3, DecideReconnects
<1>3. CASE Publish
  BY <1>3 DEF Publish, RecordInv
<1>4. CASE Fresh
  BY <1>4, NewPauses DEF Fresh, NewGWMonitor, RecordInv
<1>5. CASE Outside
  BY <1>5 DEF Outside, daemon, RecordInv
<1> QED BY NextCases, <1>1, <1>2, <1>3, <1>4, <1>5

(* A PPPoE link that is out and failed last has not answered since, but for an answer of *)
(* this very round.                                                                      *)
DeadInv == \A g \in Pppoe : ~tr[g].up /\ rc[g].lastFailed
=> g \notin lastOK \/ (pc = "probed" /\ g \in seen.probed)

(* A round that hangs up, or records a failure of, a link that is out has had no answer *)
(* from it.                                                                             *)
LEMMA DeadDecide ==
  ASSUME CycleInv, TrackInv, RecordInv, DeadInv, Decide, NEW g \in Pppoe, ~tr'[g].up,
                           \/ rc'[g].lastFailed
                           \/ rc'[g].wait > rc[g].wait
    PROVE  g \notin lastOK
<1>1. pc = "probed" /\ g \in GW /\ Pausing(rc[g])
  BY DEF Decide, Pppoe, RecordInv
<1>2. CASE g \notin Ids(seen.c)
  <2>1. rc'[g] = rc[g] /\ tr'[g] = tr[g] /\ g \notin seen.probed
    BY <1>1, <1>2, DecideReconnects, DecideTracks DEF CycleInv
  <2>2. ~(rc[g].wait > rc[g].wait)
    BY <1>1, PauseType
  <2> QED BY <2>1, <2>2 DEF DeadInv
<1>3. CASE g \in Ids(seen.c)
  <2> DEFINE G == Of(seen.c, g)
  <2>1. rc'[g] = MaybeReconnect(G, tr'[g].up) /\ G.id = g /\ tr'[g].up \in BOOLEAN
    BY <1>1, <1>3, DecideReconnects
  <2> HIDE DEF G
  <2>2. /\ ~Reconnectable(G) => rc'[g] = rc[g]
        /\ Reconnectable(G) => rc'[g].lastFailed = LastFailed(G)
        /\ rc'[g].wait > rc[g].wait => Reconnectable(G) /\ LastFailed(G)
    BY <1>1, <2>1, ReconnectIs
  <2>3. tr'[g] = Verdict(G)
    BY <1>1, <1>3, DecideTracks DEF G
  <2>4. G.monitor
    <3>1. G.monitor \in BOOLEAN
      BY <1>1, <1>3, OfFields DEF CycleInv, G
    <3> QED BY <1>1, <1>3, <2>3, VerdictIs DEF G
  <2>5. CASE g \in seen.probed
    <3>1. Reconnectable(G)
      BY <1>1, <2>1, <2>4, <2>5 DEF Reconnectable, CycleInv
    <3>2. g \notin seen.ok
      BY <2>1, <2>2, <2>5, <3>1 DEF LastFailed
    <3> QED BY <1>1, <2>5, <3>2 DEF CycleInv
  <2>6. CASE g \notin seen.probed
    <3>1. tr'[g] = tr[g]
      BY <1>1, <1>3, <2>3, <2>6, VerdictIs DEF G
    <3>2. rc[g].lastFailed
      BY <2>1, <2>2, <2>6 DEF LastFailed
    <3> QED BY <2>6, <3>1, <3>2 DEF DeadInv
  <2> QED BY <2>5, <2>6
<1> QED BY <1>2, <1>3

(* Every step keeps DeadInv. *)
LEMMA DeadNext == ASSUME CycleInv, TrackInv, RecordInv, DeadInv, [Next]_vars PROVE DeadInv'
<1>1. CASE Probe
  <2> DEFINE hops      == SDNResolveHops(cfg)
             probed(d) == {g \in hops : Of(cfg, g).monitor /\ due[g] <= d}
  <2>0. PICK d \in Steps : \E ok \in SUBSET {g \in probed(d) : link[g] = "up"} :
           /\ Later(d)
           /\ seen' = [c |-> cfg, hops |-> hops, probed |-> probed(d), ok |-> ok,
                       peer |-> {g \in hops : link[g] = "up"}]
           /\ lastOK' = (lastOK \ probed(d)) \cup ok
    BY <1>1 DEF Probe
  <2> HIDE DEF hops, probed
  <2>1. Later(d) /\ pc' = "probed"
        /\ \A g \in GW : g \in seen'.probed \/ (g \in lastOK' => g \in lastOK)
    BY <1>1, <2>0 DEF Probe
  <2>2. \A g \in GW : tr'[g].up = tr[g].up /\ rc'[g].lastFailed = rc[g].lastFailed
    BY <2>1, LaterTracks, LaterReconnects
  <2>3. pc = "idle"
    BY <1>1 DEF Probe
  <2> QED BY <2>1, <2>2, <2>3 DEF DeadInv, Pppoe
<1>2. CASE NoGateways
  <2>1. PICK d \in Steps : Later(d)
    BY <1>2 DEF NoGateways
  <2>2. \A g \in GW : tr'[g].up = tr[g].up /\ rc'[g].lastFailed = rc[g].lastFailed
    BY <2>1, LaterTracks, LaterReconnects
  <2> QED BY <1>2, <2>2 DEF NoGateways, DeadInv, Pppoe
<1>3. CASE Decide
  <2>1. lastOK' = lastOK
    BY <1>3 DEF Decide, history
  <2> QED BY <1>3, <2>1, DeadDecide DEF DeadInv
<1>4. CASE Publish
  BY <1>4 DEF Publish, history, DeadInv
<1>5. CASE Fresh
  BY <1>5, NewPauses DEF Fresh, NewGWMonitor, DeadInv, Pppoe
<1>6. CASE Outside
  BY <1>6 DEF Outside, daemon, history, DeadInv
<1> QED BY NextCases, <1>1, <1>2, <1>3, <1>4, <1>5, <1>6

(* HangsUpOnlyDead, of one step. *)
HangUpStep == \A g \in GW : (pc = "probed" /\ pc' = "routed" /\ rc'[g].wait > rc[g].wait)
=> g \notin lastOK /\ ~tr'[g].up

(* Only Decide hangs up. *)
LEMMA HangsUp == ASSUME CycleInv, TrackInv, RecordInv, DeadInv, [Next]_vars PROVE HangUpStep
<1>1. SUFFICES ASSUME NEW g \in GW, pc = "probed", pc' = "routed", rc'[g].wait > rc[g].wait
               PROVE  g \notin lastOK /\ ~tr'[g].up
  BY DEF HangUpStep
<1>2. Decide
  BY <1>1, NextCases DEF Probe, NoGateways, Publish, Fresh, Outside, daemon
<1>3. Pausing(rc[g]) /\ ~(rc[g].wait > rc[g].wait)
  BY PauseType DEF RecordInv
<1>4. g \in Ids(seen.c)
  BY <1>1, <1>2, <1>3, DecideReconnects
<1>5. /\ rc'[g] = MaybeReconnect(Of(seen.c, g), tr'[g].up) /\ Of(seen.c, g).id = g
         /\ tr'[g].up \in BOOLEAN
  BY <1>2, <1>4, DecideReconnects
<1>6. Reconnectable(Of(seen.c, g)) /\ ~tr'[g].up
  BY <1>1, <1>3, <1>5, ReconnectIs
<1>7. g \in Pppoe
  BY <1>5, <1>6 DEF Reconnectable
<1> QED BY <1>1, <1>2, <1>6, <1>7, DeadDecide

(* A PPPoE link is hung up only when it is out and its last probe went unanswered, never *)
(* one that has just answered, although the record of the last failure outlives the      *)
(* rounds in which it is not probed (maybeReconnect).                                    *)
THEOREM OnlyDeadHungUp == Spec => HangsUpOnlyDead
<1> DEFINE I == CycleInv /\ TrackInv /\ RecordInv /\ DeadInv
<1>1. Init => I
  BY CycleInit, TrackInit, NewPauses DEF Init, RecordInv, DeadInv
<1>2. I /\ [Next]_vars => I'
  BY CycleNext, TrackNext, RecordNext, DeadNext
<1>3. I /\ [Next]_vars => [HangUpStep]_vars
  BY HangsUp
<1> QED BY <1>1, <1>2, <1>3, PTL DEF Spec, HangsUpOnlyDead, HangUpStep

(***************************************************************************)
(* The default route.                                                      *)
(***************************************************************************)
(* A plan sends traffic to next hops, or rejects it. *)
LEMMA PlanValues ==
    ASSUME NEW c \in Configs, NEW hops, hops \subseteq Ids(c), NEW U, U \subseteq hops,
           NEW s \in Planned(c, hops)
    PROVE  TableHop(c, hops, U, s) \in hops \cup {"unreachable"}
<1>1. s[2] \in DOMAIN c /\ (s[1] = "probe" => c[s[2]].id \in hops)
  BY DEF Planned
<1>2. /\ FirstOf(c, U) # None => FirstOf(c, U) \in hops
      /\ FirstOf(c, hops) # None => FirstOf(c, hops) \in hops
  BY FirstIs
<1> QED BY <1>1, <1>2 DEF TableHop, FollowHop, OnlyTable

(* The verdicts of the round and the plan they lead to. *)
Verdicts == [g \in GW |-> tr'[g].up]
NewPlan  == PlanRoutes(seen.c, Verdicts, seen.hops)

(* Decide writes this plan, or finds that it need not. *)
LEMMA DecidePlan == ASSUME CycleInv, TrackInv, Decide
    PROVE  /\ seen.c \in Configs /\ seen.hops \subseteq Ids(seen.c)
              /\ Verdicts \in [GW -> BOOLEAN]
           /\ \/ MustWrite(NewPlan, seen.hops) /\ SDNApplyRoutes(NewPlan)
              \/ ~MustWrite(NewPlan, seen.hops) /\ failed' = FALSE
                 /\ UNCHANGED <<route, lastPlan, relinked, lost, events>>
           /\ active' = IF NewPlan.default # None THEN NewPlan.default ELSE active
<1>1. pc = "probed" /\ seen.c \in Configs /\ seen.hops \subseteq Ids(seen.c)
  BY DEF Decide, CycleInv
<1>2. Verdicts \in [GW -> BOOLEAN]
  <2>1. ASSUME NEW g \in GW PROVE tr'[g].up \in BOOLEAN
    <3>1. g \in Ids(seen.c) => Whole(Verdict(Of(seen.c, g)))
      BY <1>1, VerdictIs
    <3>2. Whole(tr'[g])
      BY <3>1, DecideTracks DEF TrackInv
    <3> QED BY <3>2 DEF Whole, Tracker
  <2> QED BY <2>1 DEF Verdicts
<1> DEFINE t == [g \in GW |-> IF g \in Ids(seen.c) THEN Verdict(Of(seen.c, g)) ELSE tr[g]]
           up == [g \in GW |-> t[g].up]
           plan == PlanRoutes(seen.c, up, seen.hops)
<1>3. /\ tr' = t
      /\ IF MustWrite(plan, seen.hops) THEN SDNApplyRoutes(plan)
         ELSE failed' = FALSE /\ UNCHANGED <<route, lastPlan, relinked, lost, events>>
      /\ active' = IF plan.default # None THEN plan.default ELSE active
  BY DEF Decide
<1>4. up = Verdicts
  BY <1>3 DEF Verdicts
<1> HIDE DEF t, up
<1>5. plan = NewPlan
  BY <1>4 DEF NewPlan
<1> HIDE DEF plan
<1> QED BY <1>1, <1>2, <1>3, <1>5

(* SDNApplyRoutes without an error writes all of the plan. *)
LEMMA ApplyClean == ASSUME NEW p, SDNApplyRoutes(p), ~failed'
    PROVE  /\ \A s \in Slot :
              route'[s] = IF s \in DOMAIN Written(p) THEN Written(p)[s] ELSE route[s]
           /\ lastPlan' = p /\ relinked' = {} /\ lost' = {}
<1>1. PICK errs :
          /\ route' = [s \in Slot |->
                         IF s \in DOMAIN Written(p) \ errs THEN Written(p)[s] ELSE route[s]]
          /\ failed' = (errs # {})
          /\ IF errs = {} THEN lastPlan' = p /\ relinked' = {} /\ lost' = {}
             ELSE UNCHANGED <<lastPlan, relinked>> /\ LostRoutes
  BY DEF SDNApplyRoutes
<1>2. errs = {}
  BY <1>1
<1> QED BY <1>1

(* Its tables are then in the kernel; so is the default route, which a plan without one *)
(* leaves alone unless there is none.                                                   *)
LEMMA CleanRoutes ==
  ASSUME NEW p, SDNApplyRoutes(p), ~failed', Main \notin DOMAIN p.tables,
         DOMAIN p.tables \subseteq Slot
    PROVE  /\ \A s \in DOMAIN p.tables : route'[s] = p.tables[s]
           /\ p.default # None => route'[Main] = p.default
           /\ p.default = None /\ route[Main] # None => route'[Main] = route[Main]
           /\ p.default = None /\ route[Main] = None /\ p.lastResort # None
              => route'[Main] = p.lastResort
<1> DEFINE main == IF p.default # None THEN p.default
                   ELSE IF route[Main] = None THEN p.lastResort ELSE None
           w == Written(p)
<1>1. w = IF main = None THEN p.tables
          ELSE [s \in DOMAIN p.tables \cup {Main} |-> IF s = Main THEN main ELSE p.tables[s]]
  BY DEF Written
<1>2. Main \in Slot
  BY MainIs
<1>3. \A s \in Slot : route'[s] = IF s \in DOMAIN w THEN w[s] ELSE route[s]
  BY ApplyClean
<1>4. /\ \A s \in DOMAIN p.tables : s \in DOMAIN w /\ w[s] = p.tables[s]
      /\ main # None => Main \in DOMAIN w /\ w[Main] = main
      /\ main = None => Main \notin DOMAIN w
  <2> HIDE DEF main, w
  <2>1. CASE main = None
    BY <1>1
  <2>2. CASE main # None
    BY <1>1
  <2> QED BY <2>1, <2>2
<1> HIDE DEF w
<1>5. main # None => route'[Main] = main
  BY <1>2, <1>3, <1>4
<1>6. main = None => route'[Main] = route[Main]
  BY <1>2, <1>3, <1>4
<1> QED BY <1>3, <1>4, <1>5, <1>6

(* After a clean round the default route is the one planned. *)
LEMMA CleanMain == ASSUME CycleInv, TrackInv, Decide, ~failed'
    PROVE  /\ NewPlan.default # None => route'[Main] = NewPlan.default
           /\ NewPlan.default # None \/ NewPlan.lastResort # None => route'[Main] # None
<1>1. Main \notin DOMAIN NewPlan.tables /\ DOMAIN NewPlan.tables \subseteq Slot
  <2>1. DOMAIN NewPlan.tables = Planned(seen.c, seen.hops)
    BY PlanHead DEF NewPlan
  <2> QED BY <2>1, DecidePlan, MainIs DEF Planned
<1>2. CASE SDNApplyRoutes(NewPlan)
  BY <1>1, <1>2, CleanRoutes
<1>3. CASE ~MustWrite(NewPlan, seen.hops) /\ UNCHANGED route
  BY <1>3 DEF MustWrite
<1> QED BY <1>2, <1>3, DecidePlan

(* DefaultFollows, of one step. *)
DefaultStep ==
    CleanCycle =>
        /\ \A i \in DOMAIN seen.c : Usable(seen.c[i].id) =>
              \E j \in DOMAIN seen.c : /\ Usable(seen.c[j].id)
                                       /\ seen.c[j].prio <= seen.c[i].prio
                                       /\ route'[Main] = seen.c[j].id
        /\ seen.hops # {} => route'[Main] # None

(* A clean round is a Decide without an error. *)
LEMMA CleanIsDecide == ASSUME [Next]_vars, CleanCycle PROVE Decide /\ ~failed'
  BY NextCases DEF CleanCycle, Probe, NoGateways, Publish, Fresh, Outside, daemon

(* Gateways that are usable after the round. *)
UsableHops == UpHops(Verdicts, seen.hops)

(* They are the usable ones of the property. *)
LEMMA UsableIs == ASSUME CycleInv, TrackInv, Decide
    PROVE  \A g : Usable(g) <=> g \in UsableHops
<1>1. seen.hops \subseteq GW
  BY DecidePlan, ConfigType
<1> QED BY <1>1 DEF Usable, UsableHops, UpHops, Verdicts

(* The default route of the plan is the first of them, the last resort the first with a *)
(* next hop.                                                                            *)
LEMMA PlanDefault == ASSUME CycleInv, TrackInv, Decide
    PROVE  /\ NewPlan.default = FirstOf(seen.c, UsableHops)
           /\ NewPlan.lastResort = IF NewPlan.default = None THEN FirstOf(seen.c,
                 seen.hops) ELSE None
           /\ UsableHops \subseteq Ids(seen.c)
<1>1. seen.c \in Configs /\ seen.hops \subseteq Ids(seen.c) /\ Verdicts \in [GW -> BOOLEAN]
  BY DecidePlan
<1> QED BY <1>1, PlanHead DEF NewPlan, UsableHops, UpHops

(* After a clean round the default route is the best usable gateway. *)
LEMMA DefaultIsBest == ASSUME CycleInv, TrackInv, [Next]_vars PROVE DefaultStep
<1> SUFFICES ASSUME CleanCycle
             PROVE  /\ \A i \in DOMAIN seen.c : Usable(seen.c[i].id) =>
                          \E j \in DOMAIN seen.c : /\ Usable(seen.c[j].id)
                                                   /\ seen.c[j].prio <= seen.c[i].prio
                                                   /\ route'[Main] = seen.c[j].id
                    /\ seen.hops # {} => route'[Main] # None
  BY DEF DefaultStep
<1>1. Decide /\ ~failed'
  BY CleanIsDecide
<1>2. seen.c \in Configs /\ seen.hops \subseteq Ids(seen.c)
  BY <1>1, DecidePlan
<1>3. ASSUME NEW i \in DOMAIN seen.c, Usable(seen.c[i].id)
      PROVE  \E j \in DOMAIN seen.c : /\ Usable(seen.c[j].id)
                                      /\ seen.c[j].prio <= seen.c[i].prio
                                      /\ route'[Main] = seen.c[j].id
  <2>1. UsableHops # {} /\ UsableHops \subseteq Ids(seen.c) /\ seen.c[i].id \in UsableHops
    BY <1>1, <1>3, UsableIs, PlanDefault
  <2>2. /\ FirstOf(seen.c, UsableHops) \in UsableHops /\ FirstOf(seen.c, UsableHops) # None
        /\ \E j \in DOMAIN seen.c : /\ FirstOf(seen.c, UsableHops) = seen.c[j].id
                                    /\ \A k \in DOMAIN seen.c : seen.c[k].id \in UsableHops
                                       => seen.c[j].prio <= seen.c[k].prio
    BY <1>2, <2>1, FirstIs
  <2>3. route'[Main] = FirstOf(seen.c, UsableHops)
    BY <1>1, <2>2, CleanMain, PlanDefault
  <2> QED BY <1>1, <2>1, <2>2, <2>3, UsableIs
<1>4. ASSUME seen.hops # {} PROVE route'[Main] # None
  <2>1. FirstOf(seen.c, seen.hops) # None
    BY <1>2, <1>4, FirstIs
  <2> QED BY <1>1, <2>1, CleanMain, PlanDefault
<1> QED BY <1>3, <1>4

(* After a round without a failed command the default route goes through the usable      *)
(* gateway of the best priority, and while any gateway has a next hop there is a default *)
(* route, whatever took it away meanwhile (PlanRoutes, SDNApplyRoutes, the checks that   *)
(* skip the write).                                                                      *)
THEOREM DefaultRouteFollows == Spec => DefaultFollows
<1> DEFINE I == CycleInv /\ TrackInv
<1>1. Init => I
  BY CycleInit, TrackInit
<1>2. I /\ [Next]_vars => I'
  BY CycleNext, TrackNext
<1>3. I /\ [Next]_vars => [DefaultStep]_vars
  BY DefaultIsBest
<1> QED BY <1>1, <1>2, <1>3, PTL DEF Spec, DefaultFollows, DefaultStep

(***************************************************************************)
(* Types.                                                                  *)
(***************************************************************************)
(* The values of a route. *)
Hop == GW \cup {"other", "unreachable", None}

(* Types of the variables that only TypeOK is about: links and routes ... *)
RoutedInv == link \in [GW -> {"up", "dial", "down"}] /\ route \in [Slot -> Hop]

(* ... counters ... *)
CountInv  == /\ rules \in 0..Width /\ rulesFor \in -1..Width
             /\ disable \in {"no", "begun", "undone", "done"} /\ events \in 0..MaxEvents

(* ... and what is published. *)
StateInv  == /\ active \in GW \cup {None}
             /\ \/ state = None
                \/ state.active \in GW \cup {None}
                   /\ \E c \in Configs : state.up \in [Ids(c) -> BOOLEAN]

(* The types of a plan. *)
LEMMA PlanHops == ASSUME CycleInv, TrackInv, Decide
    PROVE  /\ NewPlan.default \in GW \cup {None} /\ NewPlan.lastResort \in GW \cup {None}
           /\ DOMAIN NewPlan.tables \subseteq Slot /\ Main \notin DOMAIN NewPlan.tables
           /\ \A s \in DOMAIN NewPlan.tables :
                  NewPlan.tables[s] \in seen.hops \cup {"unreachable"}
           /\ seen.hops \subseteq GW
<1>1. seen.c \in Configs /\ seen.hops \subseteq Ids(seen.c)
  BY DecidePlan
<1>2. seen.hops \subseteq GW /\ UsableHops \subseteq seen.hops
      /\ UsableHops \subseteq Ids(seen.c)
  BY <1>1, ConfigType DEF UsableHops, UpHops
<1>3. FirstOf(seen.c, UsableHops) \in GW \cup {None}
      /\ FirstOf(seen.c, seen.hops) \in GW \cup {None}
  BY <1>1, <1>2, FirstIs
<1>4. NewPlan.default \in GW \cup {None} /\ NewPlan.lastResort \in GW \cup {None}
  BY <1>3, PlanDefault
<1>5. /\ DOMAIN NewPlan.tables = Planned(seen.c, seen.hops)
      /\ \A s \in Planned(seen.c, seen.hops) : NewPlan.tables[s] = TableHop(seen.c,
            seen.hops, UsableHops, s)
  BY PlanHead DEF NewPlan, UsableHops
<1>6. \A s \in DOMAIN NewPlan.tables : NewPlan.tables[s] \in seen.hops \cup {"unreachable"}
  BY <1>1, <1>2, <1>5, PlanValues
<1>7. DOMAIN NewPlan.tables \subseteq Slot /\ Main \notin DOMAIN NewPlan.tables
  BY <1>1, <1>5, MainIs DEF Planned
<1> QED BY <1>2, <1>4, <1>6, <1>7

(* RoutedInv holds initially. *)
LEMMA RoutedInit == ASSUME Init PROVE RoutedInv
  BY DEF Init, RoutedInv, Hop

(* What is written is a route. *)
LEMMA WrittenHops == ASSUME CycleInv, TrackInv, Decide, NEW s \in DOMAIN Written(NewPlan)
    PROVE  Written(NewPlan)[s] \in Hop
<1> DEFINE p == NewPlan
           main == IF p.default # None THEN p.default
                   ELSE IF route[Main] = None THEN p.lastResort ELSE None
           w == Written(p)
<1>1. w = IF main = None THEN p.tables
          ELSE [x \in DOMAIN p.tables \cup {Main} |-> IF x = Main THEN main ELSE p.tables[x]]
  BY DEF Written
<1>2. main \in GW \cup {None} /\ \A x \in DOMAIN p.tables : p.tables[x] \in Hop
  BY PlanHops DEF Hop
<1> HIDE DEF main, w, p
<1>3. s \in DOMAIN w
  BY DEF w, p
<1>4. w[s] \in Hop
  <2>1. CASE main = None
    BY <1>1, <1>2, <1>3, <2>1
  <2>2. CASE main # None
    BY <1>1, <1>2, <1>3 DEF Hop
  <2> QED BY <2>1, <2>2
<1> QED BY <1>4 DEF w, p

(* Every step keeps RoutedInv ... *)
LEMMA RoutedNext == ASSUME CycleInv, TrackInv, RoutedInv, [Next]_vars PROVE RoutedInv'
<1>1. CASE Probe \/ NoGateways \/ Publish
  BY <1>1 DEF Probe, NoGateways, Publish, kernel, RoutedInv
<1>2. CASE Decide
  <2>1. link' = link
    BY <1>2 DEF Decide
  <2>2. CASE SDNApplyRoutes(NewPlan)
    <3>1. PICK errs :
             route' = [s \in Slot |-> IF s \in DOMAIN Written(NewPlan) \ errs
                                        THEN Written(NewPlan)[s] ELSE route[s]]
      BY <2>2 DEF SDNApplyRoutes
    <3>2. \A s \in Slot : (IF s \in DOMAIN Written(NewPlan) \ errs
                             THEN Written(NewPlan)[s] ELSE route[s]) \in Hop
      BY <1>2, WrittenHops DEF RoutedInv
    <3>3. route' \in [Slot -> Hop]
      BY <3>1, <3>2
    <3> QED BY <2>1, <3>3 DEF RoutedInv
  <2>3. CASE UNCHANGED route
    BY <2>1, <2>3 DEF RoutedInv
  <2> QED BY <1>2, <2>2, <2>3, DecidePlan
<1>3. CASE Restart \/ StopMonitor \/ SDNRemoveUnit \/ SDNInstallUnit
  BY <1>3 DEF Restart, StopMonitor, SDNRemoveUnit, SDNInstallUnit, kernel, RoutedInv
<1>4. CASE SdnUndoRouting
  <2>1. link' = link
    BY <1>4 DEF SdnUndoRouting
  <2>2. PICK before \in {"other", route[Main]} :
           route' = [s \in Slot |-> CASE s = Main            -> before
                                     [] s[2] \in 1..Len(cfg) -> None
                                     [] OTHER                -> route[s]]
    BY <1>4 DEF SdnUndoRouting
  <2>4. before \in Hop
    BY <2>2 DEF Hop, RoutedInv, Slot, Main
  <2>3. route' \in [Slot -> Hop]
    BY <2>2, <2>4 DEF Hop, RoutedInv
  <2> QED BY <2>1, <2>3 DEF RoutedInv
<1>5. ASSUME NEW g \in GW, LinkDown(g) PROVE RoutedInv'
  <2>1. link' \in [GW -> {"up", "dial", "down"}]
    BY <1>5 DEF LinkDown, RoutedInv
  <2>2. route' \in [Slot -> Hop]
    BY <1>5 DEF LinkDown, RoutedInv, Hop
  <2> QED BY <2>1, <2>2 DEF RoutedInv
<1>6. ASSUME NEW g \in GW, LinkUp(g) PROVE RoutedInv'
  BY <1>6 DEF LinkUp, RoutedInv
<1>7. CASE StealDefault
  BY <1>7 DEF StealDefault, RoutedInv, Hop
<1>8. CASE ConfigChange \/ RestoreFails \/ UNCHANGED vars
  BY <1>8 DEF ConfigChange, RestoreFails, vars, kernel, RoutedInv
<1> QED BY <1>1, <1>2, <1>3, <1>4, <1>5, <1>6, <1>7, <1>8 DEF Next, Loop

(* ... CountInv ... *)
LEMMA CountNext == ASSUME CycleInv, TrackInv, CountInv, [Next]_vars PROVE CountInv'
<1>0. MaxEvents \in Nat /\ Width \in Nat /\ Len(cfg) \in Nat /\ Len(cfg) <= Width
  BY ParamAssumption, ConfigAssumption DEF CycleInv
<1>8. Event => events' \in 0..MaxEvents
  BY <1>0 DEF Event, CountInv
<1>1. CASE Probe
  <2>1. disable' = disable
    BY <1>1 DEF Probe
  <2>2. (rulesFor = Len(cfg)
        /\ UNCHANGED <<rules, rulesFor, events>>) \/ SDNSyncRules(Len(cfg))
    BY <1>1 DEF Probe
  <2>3. CASE SDNSyncRules(Len(cfg))
    <3>1. rules' \in 0..Width /\ rulesFor' \in -1..Width
      BY <1>0, <2>3 DEF SDNSyncRules, CountInv
    <3>2. events' \in 0..MaxEvents
      BY <1>8, <2>3 DEF SDNSyncRules, CountInv
    <3> QED BY <2>1, <3>1, <3>2 DEF CountInv
  <2> QED BY <2>1, <2>2, <2>3 DEF CountInv
<1>2. CASE NoGateways
  BY <1>0, <1>2 DEF NoGateways, CountInv
<1>3. CASE Decide
  <2>1. UNCHANGED <<rules, rulesFor, disable>>
    BY <1>3 DEF Decide
  <2>2. events' \in 0..MaxEvents
    <3>1. CASE SDNApplyRoutes(NewPlan)
      <4>1. UNCHANGED events \/ Event
        BY <3>1 DEF SDNApplyRoutes
      <4> QED BY <1>8, <4>1 DEF CountInv
    <3> QED BY <1>3, <3>1, DecidePlan DEF CountInv
  <2> QED BY <2>1, <2>2 DEF CountInv
<1>4. CASE Publish \/ UNCHANGED vars
  BY <1>4 DEF Publish, vars, kernel, memory, CountInv
<1>5. CASE Restart \/ StopMonitor \/ SDNRemoveUnit \/ SDNInstallUnit
  <2>1. UNCHANGED rules /\ rulesFor' = -1 /\ disable' \in {disable, "no", "begun", "done"}
    BY <1>5 DEF Restart, StopMonitor, SDNRemoveUnit, SDNInstallUnit, NewGWMonitor, kernel
  <2>2. events' \in 0..MaxEvents
    BY <1>8, <1>5 DEF Restart, StopMonitor, SDNRemoveUnit, SDNInstallUnit, CountInv
  <2>3. disable' \in {"no", "begun", "undone", "done"}
    BY <2>1 DEF CountInv
  <2>4. rules' \in 0..Width /\ rulesFor' \in -1..Width
    BY <1>0, <2>1 DEF CountInv
  <2> QED BY <2>2, <2>3, <2>4 DEF CountInv
<1>6. CASE SdnUndoRouting \/ RestoreFails \/ StealDefault \/ ConfigChange
  <2>1. UNCHANGED rulesFor /\ rules' \in {rules, 0} /\ disable' \in {disable, "no", "undone"}
    BY <1>6 DEF SdnUndoRouting, RestoreFails, StealDefault, ConfigChange, memory, kernel
  <2>2. events' \in 0..MaxEvents
    BY <1>8, <1>6 DEF SdnUndoRouting, RestoreFails, StealDefault, ConfigChange, CountInv
  <2>3. disable' \in {"no", "begun", "undone", "done"}
    BY <2>1 DEF CountInv
  <2>4. rules' \in 0..Width /\ rulesFor' \in -1..Width
    BY <1>0, <2>1 DEF CountInv
  <2> QED BY <2>2, <2>3, <2>4 DEF CountInv
<1>7. ASSUME NEW g \in GW, LinkDown(g) \/ LinkUp(g) PROVE CountInv'
  <2>1. UNCHANGED <<rules, rulesFor, disable>>
    BY <1>7 DEF LinkDown, LinkUp, memory
  <2>2. events' \in 0..MaxEvents
    BY <1>8, <1>7 DEF LinkDown, LinkUp, CountInv
  <2> QED BY <2>1, <2>2 DEF CountInv
<1> QED BY <1>1, <1>2, <1>3, <1>4, <1>5, <1>6, <1>7 DEF Next, Loop

(* ... and StateInv. *)
LEMMA StateNext == ASSUME CycleInv, TrackInv, StateInv, [Next]_vars PROVE StateInv'
<1>1. CASE Probe \/ NoGateways
  BY <1>1 DEF Probe, NoGateways, StateInv
<1>2. CASE Decide
  BY <1>2, DecidePlan, PlanHops DEF Decide, StateInv
<1>3. CASE Publish
  <2>1. seen.c \in Configs /\ Ids(seen.c) \subseteq GW
    BY <1>3, ConfigType DEF Publish, CycleInv
  <2>2. \A g \in GW : tr[g].up \in BOOLEAN
    BY DEF TrackInv, Whole, Tracker
  <2>3. [g \in Ids(seen.c) |-> tr[g].up] \in [Ids(seen.c) -> BOOLEAN]
    BY <2>1, <2>2
  <2>4. state'.active = active /\ state'.up = [g \in Ids(seen.c) |-> tr[g].up]
        /\ active' = active
    BY <1>3 DEF Publish
  <2> QED BY <2>1, <2>3, <2>4 DEF StateInv
<1>4. CASE Fresh
  BY <1>4 DEF Fresh, NewGWMonitor, StateInv
<1>5. CASE Outside
  BY <1>5 DEF Outside, daemon, StateInv
<1> QED BY NextCases, <1>1, <1>2, <1>3, <1>4, <1>5

(* Every variable keeps its type: in particular the published state names gateways of one *)
(* configuration, no tracker counts failure and health at once, and no pause exceeds the  *)
(* largest one.                                                                           *)
THEOREM TypeCorrect == Spec => []TypeOK
<1> DEFINE I == CycleInv /\ TrackInv /\ RecordInv /\ RoutedInv /\ CountInv /\ StateInv
<1>1. Init => I
  <2>0. Init => disable \in {"no", "begun", "undone", "done"}
    BY DEF Init
  <2>1. Init => CountInv /\ StateInv
    BY <2>0, ParamAssumption, ConfigAssumption DEF Init, CountInv, StateInv
  <2>2. Init => RecordInv
    BY NewPauses DEF Init, RecordInv
  <2> QED BY <2>1, <2>2, CycleInit, TrackInit, RoutedInit
<1>2. I /\ [Next]_vars => I'
  BY CycleNext, TrackNext, RecordNext, RoutedNext, CountNext, StateNext
<1>3. I => TypeOK
  <2> SUFFICES ASSUME I PROVE TypeOK
    OBVIOUS
  <2>1. ASSUME NEW g \in GW
        PROVE  /\ tr[g].up \in BOOLEAN /\ tr[g].win \in Seq(BOOLEAN)
                  /\ Len(tr[g].win) <= Window
               /\ tr[g].fail \in Age(DownSecs) /\ tr[g].health \in Age(HoldSecs)
               /\ tr[g].fail = NoAge \/ tr[g].health = NoAge
    BY DEF TrackInv, Whole, Tracker
  <2>2. ASSUME NEW g \in GW
        PROVE  rc[g].pause \in 0..MaxPause /\ rc[g].wait \in 0..rc[g].pause
    <3>1. Pausing(rc[g])
      BY DEF RecordInv
    <3> QED BY <3>1, PauseType
  <2> QED BY <2>1, <2>2 DEF TypeOK, CycleInv, RoutedInv, CountInv, StateInv, Hop
<1> QED BY <1>1, <1>2, <1>3, PTL DEF Spec

(***************************************************************************)
(* The policy tables.                                                      *)
(***************************************************************************)
(* The rules in the kernel are those of the number of gateways the daemon remembers, *)
(* unless a later sync stopped half-way: a daemon that just started remembers none.  *)
SyncInv == rulesFor # -1 /\ ~halfSynced => rules = rulesFor

(* A disable works with the daemon stopped, unless a portal starts meanwhile. *)
StopInv == /\ pc = "stopped" => rulesFor = -1
           /\ disable # "no" => pc = "stopped"

(* Every step keeps StopInv. *)
LEMMA StopNext ==
  ASSUME "start" \notin Faults, StopInv, [Next]_vars
  PROVE  StopInv'
<1>1. CASE Probe \/ NoGateways
  BY <1>1 DEF Probe, NoGateways, StopInv
<1>2. CASE Decide \/ Publish
  BY <1>2 DEF Decide, Publish, StopInv
<1>3. CASE Restart \/ StopMonitor \/ SDNRemoveUnit \/ SDNInstallUnit
  BY <1>3 DEF Restart, StopMonitor, SDNRemoveUnit, SDNInstallUnit, NewGWMonitor, StopInv
<1>4. CASE RestoreFails \/ SdnUndoRouting \/ StealDefault \/ ConfigChange
  BY <1>4 DEF RestoreFails, SdnUndoRouting, StealDefault, ConfigChange, memory, StopInv
<1>5. ASSUME NEW g \in GW, LinkDown(g) \/ LinkUp(g) PROVE StopInv'
  BY <1>5 DEF LinkDown, LinkUp, memory, StopInv
<1>6. CASE UNCHANGED vars
  BY <1>6 DEF vars, memory, StopInv
<1> QED BY <1>1, <1>2, <1>3, <1>4, <1>5, <1>6 DEF Next, Loop

(* Every step keeps SyncInv. *)
LEMMA SyncNext == ASSUME StopInv, SyncInv, [Next]_vars PROVE SyncInv'
<1>1. CASE Probe
  BY <1>1 DEF Probe, SDNSyncRules, SyncInv
<1>2. CASE NoGateways
  BY <1>2 DEF NoGateways, SyncInv
<1>3. CASE Decide \/ Publish
  BY <1>3 DEF Decide, Publish, kernel, history, SyncInv
<1>4. CASE Fresh
  BY <1>4 DEF Fresh, NewGWMonitor, SyncInv
<1>5. CASE Outside
  BY <1>5 DEF Outside, daemon, history, SyncInv, StopInv
<1> QED BY NextCases, <1>1, <1>2, <1>3, <1>4, <1>5

(* A table holds what the last plan wrote, or its PPPoE link went down and took the route *)
(* along.                                                                                 *)
Holds(s) == LET g == lastPlan.tables[s]
            IN  route[s] = g \/ (g \in Pppoe /\ (g \in relinked \/ link[g] = "down"))

(* So do all tables but the lost ones. *)
TableInv == /\ DOMAIN lastPlan.tables \subseteq Slot \ {Main}
            /\ \A s \in DOMAIN lastPlan.tables \ lost : Holds(s)

(* Without a plan there is nothing to hold. *)
LEMMA TableInit == ASSUME lastPlan = NoPlan PROVE TableInv
  BY DEF TableInv, NoPlan

(* A step that changes none of the variables involved keeps TableInv. *)
LEMMA TableSame ==
  ASSUME TableInv, UNCHANGED <<route, relinked, link, lastPlan, lost>>
  PROVE  TableInv'
  BY DEF TableInv, Holds

(* A step may change what it likes as long as it says so and a link that was down stays so. *)
LEMMA LostTables ==
  ASSUME TableInv, LostRoutes, UNCHANGED <<lastPlan, relinked>>,
         \A g \in GW : link[g] = "down" => link'[g] = "down"
  PROVE  TableInv'
<1>1. ASSUME NEW s \in DOMAIN lastPlan.tables \ lost' PROVE Holds(s)'
  <2>1. s \notin lost /\ route'[s] = route[s]
    BY DEF LostRoutes, TableInv
  <2>2. Holds(s)
    BY <2>1 DEF TableInv
  <2> QED BY <2>1, <2>2 DEF Holds, Pppoe
<1> QED BY <1>1 DEF TableInv

(* Every step keeps TableInv. *)
LEMMA TableNext ==
  ASSUME CycleInv, TrackInv, RoutedInv, TableInv, [Next]_vars
  PROVE  TableInv'
<1>1. CASE Probe \/ NoGateways \/ Publish \/ ConfigChange \/ RestoreFails \/ UNCHANGED vars
  <2>1. UNCHANGED <<route, relinked, link, lastPlan, lost>>
    BY <1>1 DEF Probe, NoGateways, Publish, ConfigChange, RestoreFails, vars, kernel, memory
  <2> QED BY <2>1, TableSame
<1>2. CASE Decide
  <2>1. link' = link
    BY <1>2 DEF Decide
  <2>2. CASE SDNApplyRoutes(NewPlan) /\ ~failed'
    <3>1. /\ DOMAIN NewPlan.tables \subseteq Slot /\ Main \notin DOMAIN NewPlan.tables
      BY <1>2, PlanHops
    <3>2. \A s \in DOMAIN NewPlan.tables : route'[s] = NewPlan.tables[s]
      BY <2>2, <3>1, CleanRoutes
    <3>3. lastPlan' = NewPlan
      BY <2>2, ApplyClean
    <3> QED BY <3>1, <3>2, <3>3 DEF TableInv, Holds
  <2>3. CASE SDNApplyRoutes(NewPlan) /\ failed'
    <3>1. UNCHANGED <<lastPlan, relinked>> /\ LostRoutes
      BY <2>3 DEF SDNApplyRoutes
    <3> QED BY <2>1, <3>1, LostTables
  <2>4. CASE UNCHANGED <<route, lastPlan, relinked, lost>>
    BY <2>1, <2>4, TableSame
  <2> QED BY <1>2, <2>2, <2>3, <2>4, DecidePlan
<1>3. CASE Restart \/ StopMonitor \/ SDNRemoveUnit \/ SDNInstallUnit
  <2>1. lastPlan' = NoPlan
    BY <1>3 DEF Restart, StopMonitor, SDNRemoveUnit, SDNInstallUnit, NewGWMonitor
  <2> QED BY <2>1 DEF TableInv, NoPlan
<1>4. CASE SdnUndoRouting
  <2>1. UNCHANGED <<link, lastPlan, relinked>> /\ LostRoutes
    BY <1>4 DEF SdnUndoRouting, memory
  <2> QED BY <2>1, LostTables
<1>5. ASSUME NEW h \in GW, LinkDown(h) PROVE TableInv'
  <2>1. /\ lastPlan' = lastPlan /\ relinked' = relinked
        /\ IF h \in Pppoe THEN UNCHANGED lost ELSE LostRoutes
        /\ \A s \in Slot : route'[s] = route[s] \/ (route[s] = h /\ link'[h] = "down")
        /\ \A g \in GW : link[g] = "down" => link'[g] = "down"
    BY <1>5 DEF LinkDown, memory, RoutedInv
  <2>2. CASE h \in Pppoe
    <3>1. ASSUME NEW s \in DOMAIN lastPlan.tables \ lost PROVE Holds(s)'
      <4>1. Holds(s) /\ s \in Slot
        BY DEF TableInv
      <4> QED BY <2>1, <2>2, <4>1 DEF Holds, Pppoe
    <3> QED BY <2>1, <2>2, <3>1 DEF TableInv
  <2>3. CASE LostRoutes
    BY <2>1, <2>3, LostTables
  <2> QED BY <2>1, <2>2, <2>3
<1>6. ASSUME NEW h \in GW, LinkUp(h) PROVE TableInv'
  <2>1. /\ lastPlan' = lastPlan /\ lost' = lost /\ route' = route
        /\ relinked \subseteq relinked'
        /\ \A g \in GW : link[g] = "down" => link'[g] = "down" \/ g \in relinked'
    BY <1>6 DEF LinkUp, RoutedInv
  <2> QED BY <2>1 DEF TableInv, Holds, Pppoe
<1>7. CASE StealDefault
  <2>1. UNCHANGED <<link, relinked, lastPlan, lost>>
        /\ \A s \in Slot \ {Main} : route'[s] = route[s]
    BY <1>7 DEF StealDefault, memory, RoutedInv
  <2> QED BY <2>1 DEF TableInv, Holds
<1> QED BY <1>1, <1>2, <1>3, <1>4, <1>5, <1>6, <1>7 DEF Next, Loop

(* TablesFollow, of one step. *)
TablesStep == CleanCycle => TablesOf(seen.c)

(* After a clean round the tables are those planned, also when the write was skipped. *)
LEMMA CleanTables == ASSUME CycleInv, TrackInv, TableInv, Decide, ~failed'
    PROVE  \A s \in DOMAIN NewPlan.tables \ lost' : route'[s] = NewPlan.tables[s]
<1>1. /\ DOMAIN NewPlan.tables \subseteq Slot /\ Main \notin DOMAIN NewPlan.tables
      /\ \A s \in DOMAIN NewPlan.tables :
                  NewPlan.tables[s] \in seen.hops \cup {"unreachable"}
  BY PlanHops
<1>2. CASE SDNApplyRoutes(NewPlan)
  BY <1>1, <1>2, CleanRoutes
<1>3. CASE ~MustWrite(NewPlan, seen.hops) /\ UNCHANGED <<route, lost>>
  <2>1. lastPlan = NewPlan /\ \A g \in seen.hops \cap Pppoe : g \notin relinked
        /\ link[g] # "down"
    BY <1>3 DEF MustWrite
  <2>2. "unreachable" \notin Pppoe
    BY NoneAssumption DEF Pppoe
  <2>3. \A s \in DOMAIN NewPlan.tables \ lost : Holds(s)
    BY <2>1 DEF TableInv
  <2> QED BY <1>1, <1>3, <2>1, <2>2, <2>3 DEF Holds
<1> QED BY <1>2, <1>3, DecidePlan

(* What that means gateway by gateway. *)
LEMMA TablesAgree ==
  ASSUME CycleInv, TrackInv, RoutedInv, SyncInv, TableInv, [Next]_vars
  PROVE  TablesStep
<1> SUFFICES ASSUME CleanCycle PROVE TablesOf(seen.c)
  BY DEF TablesStep
<1>1. Decide /\ ~failed'
  BY CleanIsDecide
<1>2. seen.c \in Configs /\ seen.hops \subseteq Ids(seen.c)
      /\ DOMAIN NewPlan.tables = Planned(seen.c, seen.hops)
  BY <1>1, DecidePlan, PlanHead DEF NewPlan
<1>3. \A s \in Planned(seen.c, seen.hops) \ lost' :
         route'[s] = TableHop(seen.c, seen.hops, UsableHops, s)
  <2>1. \A s \in Planned(seen.c, seen.hops) : NewPlan.tables[s] = TableHop(seen.c,
           seen.hops, UsableHops, s)
    BY PlanHead DEF NewPlan, UsableHops
  <2> QED BY <1>1, <1>2, <2>1, CleanTables
<1>4. rulesFor = Len(seen.c) /\ ~halfSynced => rules = Len(seen.c)
  <2>1. Len(seen.c) \in Nat
    OBVIOUS
  <2> QED BY DEF SyncInv
<1>5. ASSUME NEW i \in DOMAIN seen.c
      PROVE  LET g == seen.c[i].id
                 leads(kind, to) == <<kind, i>> \in lost' \/ route'[<<kind, i>>] \in to
             IN  /\ g \in seen.hops => leads("probe", {g})
                 /\ Usable(g) => leads("only", {g}) /\ leads("follow", {g})
                 /\ ~Usable(g) => leads("only", {g, "unreachable"})
                 /\ (~Usable(g) /\ \E j \in DOMAIN seen.c : Usable(seen.c[j].id)) =>
                       /\ leads("only", {"unreachable"})
                       /\ leads("follow", {route'[Main]})
  <2> DEFINE g == seen.c[i].id
             U == UsableHops
             leads(kind, to) == <<kind, i>> \in lost' \/ route'[<<kind, i>>] \in to
  <2>1. /\ g \in seen.hops => leads("probe", {g})
        /\ g \in U => leads("only", {g}) /\ leads("follow", {g})
        /\ g \notin U => /\ leads("only", {OnlyTable(g, seen.hops, FirstOf(seen.c, U))})
                        /\ leads("follow", {FollowHop(seen.c, seen.hops, U)})
    <3>1. \A k \in {"probe", "only", "follow"} :
             <<k, i>> \in Planned(seen.c, seen.hops) =>
                leads(k, {TableHop(seen.c, seen.hops, U, <<k, i>>)})
      BY <1>3
    <3>2. /\ g \in seen.hops => <<"probe", i>> \in Planned(seen.c, seen.hops)
          /\ <<"only", i>> \in Planned(seen.c, seen.hops)
          /\ <<"follow", i>> \in Planned(seen.c, seen.hops)
          /\ TableHop(seen.c, seen.hops, U, <<"probe", i>>) = g
          /\ g \in U => /\ TableHop(seen.c, seen.hops, U, <<"only", i>>) = g
                        /\ TableHop(seen.c, seen.hops, U, <<"follow", i>>) = g
          /\ g \notin U =>
                /\ TableHop(seen.c, seen.hops, U, <<"only", i>>)
                      = OnlyTable(g, seen.hops, FirstOf(seen.c, U))
                /\ TableHop(seen.c, seen.hops, U, <<"follow", i>>)
                      = FollowHop(seen.c, seen.hops, U)
      BY <1>2, PlanTables
    <3> HIDE DEF leads, g, U
    <3> QED BY <3>1, <3>2
  <2>2. Usable(g) <=> g \in U
    BY <1>1, UsableIs
  <2>3. (\E j \in DOMAIN seen.c : Usable(seen.c[j].id)) => FirstOf(seen.c, U) # None
        /\ route'[Main] = FirstOf(seen.c, U)
    <3>1. U \subseteq Ids(seen.c)
      BY <1>1, PlanDefault
    <3>2. U # {} => FirstOf(seen.c, U) # None
      BY <1>2, <3>1, FirstIs
    <3>3. FirstOf(seen.c, U) # None => route'[Main] = FirstOf(seen.c, U)
      BY <1>1, CleanMain, PlanDefault
    <3>4. (\E j \in DOMAIN seen.c : Usable(seen.c[j].id)) => U # {}
      BY <1>1, UsableIs
    <3> QED BY <3>2, <3>3, <3>4
  <2> HIDE DEF g, U, leads
  <2>4. OnlyTable(g, seen.hops, FirstOf(seen.c, U)) \in {g, "unreachable"}
    BY DEF OnlyTable
  <2>5. FirstOf(seen.c, U) # None =>
        /\ OnlyTable(g, seen.hops, FirstOf(seen.c, U)) = "unreachable"
                                     /\ FollowHop(seen.c, seen.hops, U) = FirstOf(seen.c, U)
    BY DEF OnlyTable, FollowHop
  <2>6. ~Usable(g) => leads("only", {g, "unreachable"})
    BY <2>1, <2>2, <2>4 DEF leads
  <2>7. (~Usable(g) /\ \E j \in DOMAIN seen.c : Usable(seen.c[j].id)) =>
           /\ leads("only", {"unreachable"}) /\ leads("follow", {route'[Main]})
    BY <2>1, <2>2, <2>3, <2>5 DEF leads
  <2> QED BY <2>1, <2>2, <2>6, <2>7 DEF g, leads
<1> QED BY <1>4, <1>5 DEF TablesOf

(* After a round without a failed command, every policy table is what the verdicts ask for: *)
(* traffic bound to a gateway goes through it when usable, is rejected or follows the       *)
(* default route when not, probes always take their own gateway (PlanRoutes,                *)
(* SDNApplyRoutes, SDNSyncRules).  Excepted are the very tables something changed behind    *)
(* the daemon since it last wrote a plan in full; a disable needs no exception, because it  *)
(* stops the daemon before it undoes anything (SDNRestorePreSDN), as long as no portal      *)
(* starts at that moment.                                                                   *)
THEOREM TablesAlwaysFollow == ASSUME "start" \notin Faults PROVE Spec => TablesFollow
<1> DEFINE I == CycleInv /\ TrackInv /\ RoutedInv /\ StopInv /\ SyncInv /\ TableInv
<1>1. Init => I
  BY CycleInit, TrackInit, RoutedInit, TableInit DEF Init, SyncInv, StopInv
<1>2. I /\ [Next]_vars => I'
  BY CycleNext, TrackNext, RoutedNext, StopNext, SyncNext, TableNext
<1>3. I /\ [Next]_vars => [TablesStep]_vars
  BY TablesAgree
<1> QED BY <1>1, <1>2, <1>3, PTL DEF Spec, TablesFollow, TablesStep
=============================================================================
