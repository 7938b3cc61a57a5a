----------------------------- MODULE SDNGateway -----------------------------
(***************************************************************************)
(* The gateway monitor (zfsnas -sdn-gwmon): system/sdn_gwmon.go,           *)
(* system/sdn_route.go and internal/sdn/gwstate.go.                        *)
(*                                                                         *)
(* A daemon probes every Internet gateway, decides which are up, and keeps *)
(* the main default route and three tables per gateway ("follow", "only",  *)
(* "probe") on the best usable one.  It reads the links before it pings    *)
(* and writes the routes after, so the kernel may change in between; it    *)
(* publishes its verdicts last, and a restarted daemon resumes from them.  *)
(*                                                                         *)
(* Times are kept as ages, the only way the code uses them: an age stops   *)
(* growing at the threshold it is compared with.  A next hop is named by   *)
(* its gateway.  Latency rings, the event history and connection flushing  *)
(* are left out: nothing here depends on them.                             *)
(***************************************************************************)
EXTENDS Integers, Sequences, FiniteSets, FiniteSetsExt

CONSTANTS
    GW,           \* gateway ids
    Kind,         \* Kind[g]: how the interface of g gets its next hop
    FixedTarget,  \* the gateways with a MonitorIP
    Configs,      \* the gateway lists config.json may hold
    Width,        \* routing tables of each kind, one per gateway: 100 in the code
    Window,       \* probes the loss is computed over: 5 in the code
    LossPct,      \* down at this loss over the window
    DownSecs,     \* or after this long without a reply
    HoldSecs,     \* healthy this long before returning
    ProbeEvery,   \* ticks between two probes of a gateway
    FirstPause,   \* pause after the first hang-up of a PPPoE link
    MaxPause,     \* the pause doubles up to this
    Steps,        \* ticks one round of the loop may take
    Faults,       \* what the environment does
    Interruptions,\* what breaks a gateway's health: "probe" failed, "hop" missing
    MaxEvents,    \* bound: environment events
    None          \* no route, no gateway, no published state

Kinds == {"static", "dhcp", "pppoe"}

(* "link": a link goes down unasked; "dial": a redialled PPPoE device is    *)
(* there before it can carry a route; "write": an ip command fails;         *)
(* "steal": something else replaces or removes the default route;           *)
(* "restart": the daemon dies; "config": an apply changes the gateways;     *)
(* "disable": the firewall is turned off, and maybe on again; "start": the  *)
(* portal starts while that is going on.                                    *)
FaultNames == {"link", "dial", "write", "steal", "restart", "config", "disable", "start"}

Gateway == [id : GW, monitor : BOOLEAN, prio : Nat \ {0}]

ASSUME ParamAssumption ==
    /\ Kind \in [GW -> Kinds] /\ FixedTarget \subseteq GW
    /\ Window \in Nat \ {0} /\ LossPct \in Nat \ {0}
    /\ DownSecs \in Nat \ {0} /\ HoldSecs \in Nat \ {0}
    /\ ProbeEvery \in Nat \ {0}
    /\ FirstPause \in Nat \ {0} /\ MaxPause \in Nat /\ FirstPause <= MaxPause
    /\ Steps \subseteq Nat \ {0} /\ MaxEvents \in Nat
    /\ Faults \subseteq FaultNames /\ Interruptions \subseteq {"probe", "hop"}

(* Config.Validate makes the priorities unique; NewID draws the ids.        *)
ASSUME ConfigAssumption ==
    /\ Width \in Nat
    /\ \A c \in Configs : /\ c \in Seq(Gateway) /\ Len(c) <= Width
                          /\ \A i, j \in DOMAIN c :
                               i # j => c[i].id # c[j].id /\ c[i].prio # c[j].prio
ASSUME NoneAssumption == /\ None \notin GW \cup {"other", "unreachable"}
                         /\ GW \cap {"other", "unreachable"} = {}

Ids(c)   == {c[i].id : i \in DOMAIN c}
Of(c, g) == c[CHOOSE i \in DOMAIN c : c[i].id = g]
Main     == <<"main", 0>>
Slot     == {Main} \cup ({"follow", "only", "probe"} \X (1..Width))
NoAge    == -1

VARIABLES
    cfg,        \* the gateways of config.json; <<>>: none, or feature disabled
    link,       \* the kernel's links: "up", "dial" or "down"
    route,      \* the kernel's routes: slot -> gateway, "other", "unreachable", None
    rules,      \* ip rules of how many gateways are installed
    state,      \* /run/znas-sdn/gateways.json
    tr,         \* GWTracker of each gateway
    rc,         \* gwReconnect of each gateway
    due,        \* nextProbe - now
    lastPlan,   \* the plan last written without an error
    relinked,   \* PPPoE devices with another ifindex than in lastPlan
    active,     \* gwMonitor.active
    rulesFor,   \* number of gateways the rules were synced for, -1 at start
    pc,         \* "idle", "probed" (pings are back), "routed" (not published),
                \* "stopped" (by a disable)
    disable,    \* how far a disable is: "no", "begun" (the daemon is stopped),
                \* "undone" (and so is the routing), "done"
    seen,       \* what the cycle read: configuration, next hops, probes
    hung,       \* links pppd has been told to drop
    lastOK,     \* history: gateways whose last probe was answered
    quiet,      \* history: ticks a gateway has gone without an interruption
    halfSynced, \* history: the last round of rule commands stopped on the way
    failed,     \* history: some command of the last cycle failed
    lost,       \* history: the tables that may not hold what lastPlan says
    events      \* environment events so far

kernel  == <<link, route, rules>>
memory  == <<tr, rc, due, lastPlan, relinked, active, rulesFor, pc, seen>>
history == <<lastOK, quiet, halfSynced>>
vars    == <<cfg, kernel, state, memory, disable, hung, history, failed, lost, events>>
-----------------------------------------------------------------------------
(* GWTracker (gwstate.go).                                                  *)
NewGWTracker(up) == [up |-> up, win |-> <<>>, fail |-> NoAge, health |-> NoAge]

Older(age, d, cap) == IF age = NoAge THEN NoAge ELSE Min({age + d, cap})

(* The ages of a tracker d ticks later.                                     *)
AgeTracker(t, d) ==
    [t EXCEPT !.fail = Older(@, d, DownSecs), !.health = Older(@, d, HoldSecs)]

(* Mutant of LastSamples: one sample too many is kept.                      *)
MutLastSamples(s) == SubSeq(s, Max({1, Len(s) - Window}), Len(s))

LastSamples(s) == SubSeq(s, Max({1, Len(s) - Window + 1}), Len(s))

Loss(win) == (100 * Cardinality({k \in DOMAIN win : ~win[k]})) \div Len(win)

(* A failed probe starts the failure clock and stops the health clock, an   *)
(* answered one the reverse; a clock that runs is left running.             *)
Start(age) == IF age = NoAge THEN 0 ELSE age

FailClock(age, ok) == IF ok THEN NoAge ELSE Start(age)

(* Mutants of HealthClock: a failed probe leaves it running; every answered *)
(* one starts it again.                                                     *)
MutHealthKept(age, ok)  == Start(age)
MutHealthAgain(age, ok) == IF ok THEN 0 ELSE NoAge

HealthClock(age, ok) == IF ok THEN Start(age) ELSE NoAge

Add(t, ok) ==
    LET win    == LastSamples(Append(t.win, ok))
        fail   == FailClock(t.fail, ok)
        health == HealthClock(t.health, ok)
        down   == \/ fail >= DownSecs
                  \/ Len(win) >= Window /\ Loss(win) >= LossPct
    IN  [up     |-> IF t.up THEN ~down ELSE health >= HoldSecs,
         win    |-> win,
         fail   |-> fail,
         health |-> health]

(* PlanRoutes (gwstate.go): the first gateway of S by priority.             *)
(* Mutant of Best: the order is reversed.                                   *)
MutBest(c, S) == c[CHOOSE i \in DOMAIN c :
                      /\ c[i].id \in S
                      /\ \A j \in DOMAIN c : c[j].id \in S => c[i].prio >= c[j].prio].id

Best(c, S) == c[CHOOSE i \in DOMAIN c :
                   /\ c[i].id \in S
                   /\ \A j \in DOMAIN c : c[j].id \in S => c[i].prio <= c[j].prio].id

FirstOf(c, S) == IF S = {} THEN None ELSE Best(c, S)

(* Mutant of OnlyTable: the link is kept though another gateway is usable.  *)
MutOnlyTable(g, hops, default) == IF g \in hops THEN g ELSE "unreachable"

(* The "only" table of a gateway that is not usable: its own link while     *)
(* there is nowhere else to go, so the monitor never cuts what may work.    *)
OnlyTable(g, hops, default) == IF g \in hops /\ default = None THEN g ELSE "unreachable"

PlanRoutes(c, up, hops) ==
    LET usable  == {g \in hops : up[g]}
        default == FirstOf(c, usable)
        follow  == IF default # None THEN default ELSE FirstOf(c, hops)
        reject(h) == IF h = None THEN "unreachable" ELSE h
        table(s) ==
            LET g == c[s[2]].id
            IN  IF s[1] = "probe" \/ g \in usable THEN g
                ELSE IF s[1] = "follow" THEN reject(follow)
                ELSE OnlyTable(g, hops, default)
        planned == {s \in Slot : /\ s[2] \in DOMAIN c
                                 /\ s[1] = "probe" => c[s[2]].id \in hops}
    IN  [default    |-> default,
         lastResort |-> IF default = None THEN follow ELSE None,
         tables     |-> [s \in planned |-> table(s)]]

(* SDNResolveHops (sdn_route.go): a configured address is always known, a   *)
(* PPPoE link once its device exists, a DHCP router while it has a lease.   *)
SDNResolveHops(c) ==
    {g \in Ids(c) : \/ Kind[g] = "static"
                    \/ Kind[g] = "pppoe" /\ link[g] # "down"
                    \/ Kind[g] = "dhcp" /\ link[g] = "up"}

Pppoe == {g \in GW : Kind[g] = "pppoe"}
-----------------------------------------------------------------------------
NoReconnect == [target |-> "", answered |-> FALSE, lastFailed |-> FALSE,
                pause |-> 0, wait |-> 0]
NoPlan      == [default |-> None, lastResort |-> None, tables |-> <<>>]
NoCycle     == [c |-> <<>>, hops |-> {}, probed |-> {}, ok |-> {}, peer |-> {}]

Init ==
    /\ cfg \in Configs
    /\ link = [g \in GW |-> "up"]
    /\ route = [s \in Slot |-> None] /\ rules = 0 /\ state = None
    /\ tr = [g \in GW |-> NewGWTracker(TRUE)] /\ rc = [g \in GW |-> NoReconnect]
    /\ due = [g \in GW |-> 0] /\ lastPlan = NoPlan /\ relinked = {}
    /\ active = None /\ rulesFor = -1 /\ pc = "idle" /\ seen = NoCycle
    /\ disable = "no" /\ hung = {}
    /\ lastOK = {} /\ quiet = [g \in GW |-> HoldSecs]
    /\ halfSynced = FALSE /\ failed = FALSE /\ lost = {} /\ events = 0

Event == events < MaxEvents /\ events' = events + 1

(* The clock: d ticks pass for everything the daemon remembers.             *)
Later(d) ==
    /\ tr' = [g \in GW |-> AgeTracker(tr[g], d)]
    /\ rc' = [g \in GW |-> [rc[g] EXCEPT !.wait = Max({0, @ - d})]]

Interrupted(unanswered, hops) ==
    {g \in GW : \/ "probe" \in Interruptions /\ g \in unanswered
                \/ "hop" \in Interruptions /\ g \notin hops}

(* SDNSyncRules: all our rules are removed, then added one by one; "write"  *)
(* stops it on the way.                                                     *)
SDNSyncRules(n) ==
    \/ rules' = n /\ rulesFor' = n /\ halfSynced' = FALSE /\ UNCHANGED events
    \/ /\ "write" \in Faults /\ Event
       /\ rules' \in 0..(n - 1) /\ halfSynced' = TRUE /\ UNCHANGED rulesFor

(* The loop with gateways to monitor: the rules when their number changed,  *)
(* then the first half of cycle: next hops, and a probe of every monitored  *)
(* gateway that has one and is due.                                         *)
Probe ==
    /\ pc = "idle" /\ cfg # <<>>
    /\ IF rulesFor = Len(cfg) THEN UNCHANGED <<rules, rulesFor, halfSynced, events>>
       ELSE SDNSyncRules(Len(cfg))
    /\ \E d \in Steps :
         LET hops   == SDNResolveHops(cfg)
             probed == {g \in hops : Of(cfg, g).monitor /\ due[g] <= d}
         IN  \E ok \in SUBSET {g \in probed : link[g] = "up"} :
             /\ Later(d)
             /\ due' = [g \in GW |-> IF g \in probed THEN ProbeEvery ELSE Max({0, due[g] - d})]
             /\ seen' = [c |-> cfg, hops |-> hops, probed |-> probed, ok |-> ok,
                         peer |-> {g \in hops : link[g] = "up"}]
             /\ lastOK' = (lastOK \ probed) \cup ok
             /\ quiet' = [g \in GW |-> IF g \in Interrupted(probed \ ok, hops) THEN 0
                                       ELSE Min({quiet[g] + d, HoldSecs})]
    /\ pc' = "probed"
    /\ UNCHANGED <<cfg, link, route, state, lastPlan, relinked, active, disable, hung,
                   failed, lost>>

(* The loop without gateways: our rules and the published state go, once.   *)
NoGateways ==
    /\ pc = "idle" /\ cfg = <<>>
    /\ IF rulesFor = 0 THEN UNCHANGED <<rules, rulesFor, halfSynced, state>>
       ELSE rules' = 0 /\ rulesFor' = 0 /\ halfSynced' = FALSE /\ state' = None
    /\ \E d \in Steps :
         /\ Later(d)
         /\ due' = [g \in GW |-> Max({0, due[g] - d})]
         /\ quiet' = [g \in GW |-> IF g \in Interrupted({}, {}) THEN 0
                                   ELSE Min({quiet[g] + d, HoldSecs})]
    /\ UNCHANGED <<cfg, link, route, lastPlan, relinked, active, pc, seen, disable, hung,
                   lastOK, failed, lost, events>>
-----------------------------------------------------------------------------
(* The tracker of gateway g after the cycle's probe; an unmonitored gateway *)
(* is up.                                                                   *)
Verdict(g) ==
    CASE ~g.monitor             -> [tr[g.id] EXCEPT !.up = TRUE]
      [] g.id \in seen.probed   -> Add(tr[g.id], g.id \in seen.ok)
      [] OTHER                  -> tr[g.id]

(* maybeReconnect.  The address tested is MonitorIP, else the provider's    *)
(* end of the link, else a public one.                                      *)
ProbeTarget(g) == CASE g.id \in FixedTarget            -> "ip"
                    [] g.id \in seen.peer \ FixedTarget -> "peer"
                    [] OTHER                           -> "1.1.1.1"

Reconnectable(g) == g.monitor /\ g.id \in Pppoe \cap seen.hops

(* Mutant of LastFailed: a cycle without a test counts as a failed one.     *)
MutLastFailed(g) == g.id \notin seen.ok

LastFailed(g) == IF g.id \in seen.probed THEN g.id \notin seen.ok ELSE rc[g.id].lastFailed

(* What the cycle learnt about the link: an answer counts only for the      *)
(* address it came from, and a link that is up starts afresh.               *)
Heard(g, up) ==
    LET r == rc[g.id]
        t == ProbeTarget(g)
        a == g.id \in seen.ok \/ (r.answered /\ r.target = t)
    IN  IF up THEN [r EXCEPT !.target = t, !.answered = a, !.pause = 0, !.wait = 0]
        ELSE [r EXCEPT !.target = t, !.answered = a, !.lastFailed = LastFailed(g)]

HangUp(g, up) ==
    LET h == Heard(g, up)
    IN  Reconnectable(g) /\ ~up /\ h.answered /\ h.lastFailed /\ h.wait = 0

MaybeReconnect(g, up) ==
    LET h     == Heard(g, up)
        pause == IF h.pause = 0 THEN FirstPause ELSE Min({2 * h.pause, MaxPause})
    IN  CASE ~Reconnectable(g) -> rc[g.id]
          [] HangUp(g, up)     -> [h EXCEPT !.pause = pause, !.wait = pause]
          [] OTHER             -> h

(* Mutants of MustWrite: the default route is not read back; a redialled    *)
(* device is not noticed.                                                   *)
MutMustWriteMain(plan, hops) ==
    lastPlan # plan \/ \E g \in hops \cap Pppoe : g \in relinked \/ link[g] = "down"
MutMustWriteLinks(plan, hops) ==
    \/ lastPlan # plan
    \/ (plan.default # None \/ plan.lastResort # None) /\ route[Main] = None
    \/ plan.default # None /\ route[Main] # plan.default

(* What makes cycle write the routes again: another plan, a PPPoE device    *)
(* that is not the one of lastPlan, or a default route that is missing or   *)
(* not ours.                                                                *)
MustWrite(plan, hops) ==
    \/ lastPlan # plan
    \/ \E g \in hops \cap Pppoe : g \in relinked \/ link[g] = "down"
    \/ (plan.default # None \/ plan.lastResort # None) /\ route[Main] = None
    \/ plan.default # None /\ route[Main] # plan.default

(* The routes SDNApplyRoutes writes.                                        *)
Written(plan) ==
    LET main == IF plan.default # None THEN plan.default
                ELSE IF route[Main] = None THEN plan.lastResort ELSE None
    IN  IF main = None THEN plan.tables
        ELSE [s \in DOMAIN plan.tables \cup {Main} |->
                 IF s = Main THEN main ELSE plan.tables[s]]

(* A route through a link that is not up is refused by the kernel.          *)
Refused(w) == {s \in DOMAIN w : w[s] \in GW /\ link[w[s]] # "up"}

(* The tables this step changes behind the back of lastPlan.                *)
LostRoutes == lost' = lost \cup {s \in Slot \ {Main} : route'[s] # route[s]}

(* Each command is run whatever became of the others; the plan is recorded  *)
(* as written only if all of them worked.  What a round that failed did     *)
(* write is not what the plan kept from before says.                        *)
SDNApplyRoutes(plan) ==
    LET w == Written(plan)
    IN  \E errs \in {Refused(w) \cup {s} : s \in DOMAIN w} \cup {Refused(w)} :
          /\ IF errs = Refused(w) THEN UNCHANGED events ELSE "write" \in Faults /\ Event
          /\ route' = [s \in Slot |-> IF s \in DOMAIN w \ errs THEN w[s] ELSE route[s]]
          /\ failed' = (errs # {})
          /\ IF errs = {} THEN lastPlan' = plan /\ relinked' = {} /\ lost' = {}
             ELSE UNCHANGED <<lastPlan, relinked>> /\ LostRoutes

(* The second half of cycle: verdicts, hang-ups, routes.                    *)
Decide ==
    /\ pc = "probed"
    /\ LET c    == seen.c
           t    == [g \in GW |-> IF g \in Ids(c) THEN Verdict(Of(c, g)) ELSE tr[g]]
           up   == [g \in GW |-> t[g].up]
           plan == PlanRoutes(c, up, seen.hops)
       IN  /\ tr' = t
           /\ rc' = [g \in GW |-> IF g \in Ids(c) THEN MaybeReconnect(Of(c, g), up[g])
                                  ELSE rc[g]]
           /\ hung' = hung \cup {g \in Ids(c) : HangUp(Of(c, g), up[g]) /\ link[g] # "down"}
           /\ IF MustWrite(plan, seen.hops) THEN SDNApplyRoutes(plan)
              ELSE failed' = FALSE /\ UNCHANGED <<route, lastPlan, relinked, lost, events>>
           /\ active' = IF plan.default # None THEN plan.default ELSE active
    /\ pc' = "routed" /\ seen' = [NoCycle EXCEPT !.c = seen.c]
    /\ UNCHANGED <<cfg, link, rules, state, due, rulesFor, disable, history>>

(* writeGWState.                                                            *)
Publish ==
    /\ pc = "routed"
    /\ state' = [active |-> active, up |-> [g \in Ids(seen.c) |-> tr[g].up]]
    /\ pc' = "idle" /\ seen' = NoCycle /\ failed' = FALSE
    /\ UNCHANGED <<cfg, kernel, tr, rc, due, lastPlan, relinked, active, rulesFor, disable,
                   hung, history, lost, events>>

(* newGWMonitor: a daemon that starts knows what was published, no more.     *)
NewGWMonitor ==
    /\ tr' = [g \in GW |-> 
                 NewGWTracker(state = None \/ (g \in DOMAIN state.up => state.up[g]))]
    /\ rc' = [g \in GW |-> NoReconnect] /\ due' = [g \in GW |-> 0]
    /\ lastPlan' = NoPlan /\ relinked' = {} /\ rulesFor' = -1
    /\ active' = IF state = None THEN None ELSE state.active
    /\ seen' = NoCycle /\ failed' = FALSE /\ lost' = {}

Restart ==
    /\ pc # "stopped"
    /\ "restart" \in Faults /\ Event
    /\ NewGWMonitor /\ pc' = "idle"
    /\ UNCHANGED <<cfg, kernel, state, disable, hung, history>>

(* SDNRestorePreSDN, when the firewall is disabled, first stops the daemon   *)
(* in whatever it is doing.                                                 *)
StopMonitor ==
    /\ disable \in {"no", "done"}
    /\ "disable" \in Faults /\ Event
    /\ disable' = "begun" /\ NewGWMonitor /\ pc' = "stopped"
    /\ UNCHANGED <<cfg, kernel, state, hung, history>>

(* It returns, or its process dies, before the routing is undone: the        *)
(* interfaces file could not be written.  The firewall stays enabled.       *)
RestoreFails ==
    /\ disable = "begun" /\ disable' = "no"
    /\ UNCHANGED <<cfg, kernel, state, memory, hung, history, failed, lost, events>>

(* Then sdnUndoRouting removes the rules, flushes the tables and gives the   *)
(* default route back that was there before the firewall, if there was one. *)
SdnUndoRouting ==
    /\ disable = "begun" /\ disable' = "undone" /\ rules' = 0
    /\ \E before \in {"other", route[Main]} :
         route' = [s \in Slot |-> CASE s = Main            -> before
                                   [] s[2] \in 1..Len(cfg) -> None
                                   [] OTHER                -> route[s]]
    /\ LostRoutes
    /\ UNCHANGED <<cfg, link, state, memory, hung, history, failed, events>>

(* SDNRemoveUnit removes the unit, and the disabled state is saved.  A       *)
(* daemon that runs again is stopped.                                       *)
SDNRemoveUnit ==
    /\ disable = "undone" /\ disable' = "done"
    /\ NewGWMonitor /\ pc' = "stopped"
    /\ UNCHANGED <<cfg, kernel, state, hung, history, events>>

(* SDNInstallUnit: the firewall is enabled again, or a portal that starts    *)
(* finds it still enabled, which it does not do under the lock.             *)
SDNInstallUnit ==
    /\ pc = "stopped" /\ NewGWMonitor /\ pc' = "idle"
    /\ \/ disable \in {"no", "done"} /\ disable' = "no" /\ UNCHANGED events
       \/ /\ disable \in {"begun", "undone"} /\ "start" \in Faults /\ Event
          /\ UNCHANGED disable
    /\ UNCHANGED <<cfg, kernel, state, hung, history>>
-----------------------------------------------------------------------------
(* The kernel, pppd, DHCP and ifupdown.  A link that goes down takes every  *)
(* route through it along.                                                  *)
LinkDown(g) ==
    /\ link[g] # "down"
    /\ IF g \in hung THEN UNCHANGED events ELSE "link" \in Faults /\ Event
    /\ link' = [link EXCEPT ![g] = "down"]
    /\ route' = [s \in Slot |-> IF route[s] = g THEN None ELSE route[s]]
    /\ hung' = hung \ {g}
    /\ IF g \in Pppoe THEN UNCHANGED lost ELSE LostRoutes
    /\ UNCHANGED <<cfg, rules, state, memory, disable, history, failed>>

(* A PPPoE device comes back under a new ifindex, maybe before its session  *)
(* is negotiated.                                                           *)
LinkUp(g) ==
    /\ link[g] # "up"
    /\ \/ link' = [link EXCEPT ![g] = "up"] /\ UNCHANGED events
       \/ /\ "dial" \in Faults /\ Event /\ g \in Pppoe /\ link[g] = "down"
          /\ link' = [link EXCEPT ![g] = "dial"]
    /\ relinked' = IF link[g] = "down" THEN relinked \cup {g} ELSE relinked
    /\ UNCHANGED <<cfg, route, rules, state, tr, rc, due, lastPlan, active, rulesFor, pc, seen,
                   disable, hung, history, failed, lost>>

(* A hook or a DHCP client replaces or removes the default route.           *)
StealDefault ==
    /\ "steal" \in Faults /\ Event
    /\ route' \in {[route EXCEPT ![Main] = r] : r \in {"other", None}}
    /\ UNCHANGED <<cfg, link, rules, state, memory, disable, hung, history, failed, lost>>

(* An apply, a revert, enable or disable writes config.json.                *)
ConfigChange ==
    /\ "config" \in Faults /\ Event
    /\ cfg' \in Configs \ {cfg}
    /\ UNCHANGED <<kernel, state, memory, disable, hung, history, failed, lost>>

(* The loop of the daemon never ends by itself: SDNGatewayMonitor never     *)
(* returns and systemd restarts it.                                         *)
Loop == Probe \/ NoGateways \/ Decide \/ Publish

Next ==
    \/ Loop \/ Restart
    \/ StopMonitor \/ RestoreFails \/ SdnUndoRouting \/ SDNRemoveUnit \/ SDNInstallUnit
    \/ \E g \in GW : LinkDown(g) \/ LinkUp(g)
    \/ StealDefault \/ ConfigChange

Spec == Init /\ [][Next]_vars

(* Some part of Loop can be taken unless the daemon is stopped, so this is   *)
(* weak fairness of Loop, written without ENABLED.                       *)
FairSpec == Spec /\ ([]<><<Loop>>_vars \/ []<>(pc = "stopped"))
-----------------------------------------------------------------------------
Age(cap) == {NoAge} \cup (0..cap)

TypeOK ==
    /\ cfg \in Configs
    /\ link \in [GW -> {"up", "dial", "down"}]
    /\ route \in [Slot -> GW \cup {"other", "unreachable", None}]
    /\ rules \in 0..Width /\ rulesFor \in -1..Width
    /\ \/ state = None
       \/ /\ state.active \in GW \cup {None}
          /\ \E c \in Configs : state.up \in [Ids(c) -> BOOLEAN]
    /\ \A g \in GW :
         /\ tr[g].up \in BOOLEAN /\ tr[g].win \in Seq(BOOLEAN) /\ Len(tr[g].win) <= Window
         /\ tr[g].fail \in Age(DownSecs) /\ tr[g].health \in Age(HoldSecs)
         /\ tr[g].fail = NoAge \/ tr[g].health = NoAge
         /\ rc[g].pause \in 0..MaxPause /\ rc[g].wait \in 0..rc[g].pause
    /\ pc \in {"idle", "probed", "routed", "stopped"}
    /\ disable \in {"no", "begun", "undone", "done"}
    /\ events \in 0..MaxEvents

CleanCycle == pc = "probed" /\ pc' = "routed" /\ ~failed'

Usable(g) == g \in seen.hops /\ tr'[g].up

(* After a cycle whose commands all worked, the default route leads through *)
(* the usable gateway with the best priority; with none usable but some     *)
(* link left, there is a default route all the same (gwmon cycle and        *)
(* PlanRoutes).                                                             *)
DefaultFollows ==
    [][CleanCycle =>
        /\ \A i \in DOMAIN seen.c : Usable(seen.c[i].id) =>
              \E j \in DOMAIN seen.c : /\ Usable(seen.c[j].id)
                                       /\ seen.c[j].prio <= seen.c[i].prio
                                       /\ route'[Main] = seen.c[j].id
        /\ seen.hops # {} => route'[Main] # None]_vars

TablesOf(c) ==
    /\ rulesFor = Len(c) /\ ~halfSynced => rules = Len(c)
    /\ \A i \in DOMAIN c :
          LET g == c[i].id
              leads(kind, to) == <<kind, i>> \in lost' \/ route'[<<kind, i>>] \in to
          IN  /\ g \in seen.hops => leads("probe", {g})
              /\ Usable(g) => leads("only", {g}) /\ leads("follow", {g})
              /\ ~Usable(g) => leads("only", {g, "unreachable"})
              /\ (~Usable(g) /\ \E j \in DOMAIN c : Usable(c[j].id)) =>
                    /\ leads("only", {"unreachable"})
                    /\ leads("follow", {route'[Main]})

(* After such a cycle the tables agree with the verdicts as well: a usable  *)
(* gateway keeps its own, an "only" table never leads through another       *)
(* gateway, a "follow" table goes where the default route goes, and every   *)
(* probe leaves through its own gateway.  This holds of every table but the *)
(* ones changed behind the daemon since it last wrote a plan in full: by a  *)
(* link other than PPPoE that went, or by a round that failed half-way.     *)
(* The rules that lead to the tables are there too, unless the last attempt *)
(* to add them failed.                                                      *)
TablesFollow == [][CleanCycle => TablesOf(seen.c)]_vars

Returns(g) == /\ state # None /\ state' # None
              /\ g \in DOMAIN state.up \cap DOMAIN state'.up
              /\ ~state.up[g] /\ state'.up[g]
              /\ Of(seen.c, g).monitor

(* A monitored gateway published as down is published as up again only      *)
(* after HoldSecs without an interruption, restarts of the daemon included  *)
(* (GWTracker.Add, newGWMonitor): "back up only after HoldSecs of           *)
(* uninterrupted health (no flapping)".                                     *)
HoldServed == [][\A g \in GW : Returns(g) => quiet[g] >= HoldSecs]_vars

(* A PPPoE link is hung up only while its last probe went unanswered and it *)
(* is held down: never a link that answers (maybeReconnect).                *)
HangsUpOnlyDead ==
    [][\A g \in GW : (pc = "probed" /\ pc' = "routed" /\ rc'[g].wait > rc[g].wait)
          => g \notin lastOK /\ ~tr'[g].up]_vars

(* The gateway the default route should end at while the links and the      *)
(* answers stay as they are.                                                *)
Deserving ==
    FirstOf(cfg, {g \in SDNResolveHops(cfg) :
                     Of(cfg, g).monitor => g \in lastOK /\ link[g] = "up"})

(* Failover and failback: once the best answering gateway stays the same,   *)
(* the default route ends at it and stays there.                            *)
TrafficSettles ==
    \A g \in GW : <>[](Deserving = g /\ link[g] = "up" /\ pc # "stopped")
                      => <>[](route[Main] = g)
=============================================================================
