---------------------------- MODULE TermSession ----------------------------
(***************************************************************************)
(* One terminal of internal/termsessions: a PTY, the ring that keeps its   *)
(* last output, the browser windows that mirror it, the one that controls  *)
(* it, and how it ends.                                                    *)
(*                                                                         *)
(* A byte of output is its position in the output.  A viewer is one        *)
(* WebSocket connection; a window that reconnects is another viewer.  A    *)
(* write to a connection that stalls (the peer's window is full) blocks    *)
(* the goroutine that writes, and every goroutine that writes to the same  *)
(* connection after it; a write to a lost or closed one returns an error,  *)
(* while a lost one may still hold messages to read.  A lost one on which  *)
(* a write of broadcast has failed is called failed.  The text of the      *)
(* frames, window sizes and keystrokes are left out.                       *)
(***************************************************************************)
EXTENDS Integers, Sequences, FiniteSets

CONSTANTS
  Viewers,    \* connections
  None,       \* no controller
  Drain,      \* the goroutine drainPTY
  Closer,     \* a request that closes the terminal: x, eviction, cap
  Cap,        \* size of the ring
  ChunkSizes, \* bytes a read may return
  MaxOut,     \* bound: bytes of output
  MaxStalls   \* bound: connections that stall

ASSUME TermAssumption ==
  /\ IsFiniteSet(Viewers) /\ {None, Drain, Closer} \cap Viewers = {}
  /\ Cap \in Nat \ {0} /\ ChunkSizes \subseteq Nat \ {0} /\ MaxOut \in Nat
  /\ MaxStalls \in Nat

Actors == Viewers \cup {Drain, Closer}

VARIABLES
  out,        \* bytes read from the PTY
  ring,       \* the scrollback: buf, pos, full
  viewers,    \* the attached viewers
  controller,
  terminated,
  stored,     \* the store has the session
  child,      \* the process: "running", "exited", "killed", "reaped"
  drain,      \* drainPTY: pc, the chunk in hand, the viewers it is still to reach
  closer,     \* whether Closer is within markTerminated
  at,         \* at[v]: where Attach of v is
  conn,       \* conn[v]: "none", "ok", "stalled", "lost", "failed", "closed"
  scroll,     \* scroll[v]: the snapshot of the ring v is to be sent
  due,        \* history: due[v]: bytes v has to be sent and was not yet
  stalls,
  todo        \* todo[a]: viewers actor a has still to send a control or end frame

vars == <<out, ring, viewers, controller, terminated, stored, child, drain,
          closer, at, conn, scroll, due, stalls, todo>>
wire == <<conn, scroll, due, stalls>>
session == <<viewers, controller, terminated, stored, child>>

(***************************************************************************)
(* The ring                                                                *)
(***************************************************************************)
newRingBuf == [buf |-> [i \in 0..(Cap - 1) |-> 0], pos |-> 0, full |-> FALSE]

\* Mutant: the wrapped part of a write is not copied to the front.
MutCopied(r, p, n) ==
  [i \in 0..(Cap - 1) |-> IF i >= r.pos /\ i < r.pos + n THEN p[i - r.pos + 1]
                          ELSE r.buf[i]]

\* The cells after n < Cap bytes of p: they go to pos and on at the front.
Copied(r, p, n) ==
  [i \in 0..(Cap - 1) |-> IF i >= r.pos /\ i < r.pos + n THEN p[i - r.pos + 1]
                          ELSE IF i < n - (Cap - r.pos) THEN p[Cap - r.pos + i + 1]
                          ELSE r.buf[i]]

\* Mutant: pos is not taken back to the front.
MutWriteN(r, p, n) ==
  IF n >= Cap
  THEN [buf |-> [i \in 0..(Cap - 1) |-> p[n - Cap + i + 1]], pos |-> 0, full |-> TRUE]
  ELSE [buf |-> Copied(r, p, n), pos |-> r.pos + n, full |-> r.full \/ r.pos + n >= Cap]

\* A chunk as large as the ring replaces it.
WriteN(r, p, n) ==
  IF n >= Cap
  THEN [buf |-> [i \in 0..(Cap - 1) |-> p[n - Cap + i + 1]], pos |-> 0, full |-> TRUE]
  ELSE [buf |-> Copied(r, p, n),
        pos |-> IF r.pos + n < Cap THEN r.pos + n ELSE r.pos + n - Cap,
        full |-> r.full \/ r.pos + n >= Cap]

Write(r, p) == WriteN(r, p, Len(p))

\* Snapshot: oldest byte first.
Snapshot(r) ==
  IF r.full
  THEN [i \in 1..Cap |-> IF i <= Cap - r.pos THEN r.buf[r.pos + i - 1]
                         ELSE r.buf[i - (Cap - r.pos) - 1]]
  ELSE [i \in 1..r.pos |-> r.buf[i - 1]]

Bytes(s) == {s[i] : i \in 1..Len(s)}

Init ==
  /\ out = 0 /\ ring = newRingBuf
  /\ viewers = {} /\ controller = None /\ terminated = FALSE
  /\ stored = TRUE /\ child = "running"
  /\ drain = [pc |-> "read", chunk |-> {}, left |-> {}]
  /\ closer = FALSE
  /\ at = [v \in Viewers |-> "none"]
  /\ conn = [v \in Viewers |-> "none"]
  /\ scroll = [v \in Viewers |-> {}]
  /\ due = [v \in Viewers |-> {}] /\ stalls = 0
  /\ todo = [a \in Actors |-> {}]

(***************************************************************************)
(* Shared steps                                                            *)
(***************************************************************************)
\* A write to v returns, with or without an error.
Writable(v) == conn[v] # "stalled"

\* pushControlToAll: the control frames are written at once, but for those to
\* stalled connections, on which a waits.
PushControlToAll(a, vs) == todo' = [todo EXCEPT ![a] = {v \in vs : ~Writable(v)}]

\* Mutant: the controller is not reset.
MutRemoveViewer(a, v) == viewers' = viewers \ {v} /\ UNCHANGED <<controller, todo>>

\* removeViewer; the others are told when the controller leaves.
RemoveViewer(a, v) ==
  /\ viewers' = viewers \ {v}
  /\ IF v \in viewers /\ controller = v
     THEN controller' = None /\ PushControlToAll(a, viewers \ {v})
     ELSE UNCHANGED <<controller, todo>>

\* Mutant: the PTY is left open and the child alive.
MutMarkTerminated(a) ==
  IF terminated THEN UNCHANGED <<session, todo>>
  ELSE /\ terminated' = TRUE
       /\ viewers' = {} /\ controller' = None
       /\ todo' = [todo EXCEPT ![a] = viewers]
       /\ UNCHANGED <<stored, child>>

\* The locked part of markTerminated: the viewers to notify are taken out of
\* the set, the child is killed, the PTY closed, the eviction timer started.
MarkTerminated(a) ==
  IF terminated THEN UNCHANGED <<session, todo>>
  ELSE /\ terminated' = TRUE
       /\ viewers' = {} /\ controller' = None
       /\ child' = IF child = "running" THEN "killed" ELSE child
       /\ todo' = [todo EXCEPT ![a] = viewers]
       /\ UNCHANGED stored

(***************************************************************************)
(* drainPTY                                                                *)
(***************************************************************************)
NextBytes(n) == [i \in 1..n |-> out + i]

\* A read returns n bytes and they go to the ring, also what the PTY still has
\* when the process has exited, until the PTY is closed.
ReadPTY(n) ==
  /\ drain.pc = "read" /\ ~terminated
  /\ out + n <= MaxOut
  /\ out' = out + n
  /\ ring' = Write(ring, NextBytes(n))
  /\ drain' = [pc |-> "wrote", chunk |-> Bytes(NextBytes(n)), left |-> {}]
  /\ due' = [v \in Viewers |-> IF v \in viewers THEN due[v] \cup Bytes(NextBytes(n)) ELSE {}]
  /\ UNCHANGED <<session, closer, at, conn, scroll, stalls, todo>>

\* Mutant: output goes to the window in control alone.
MutBroadcast ==
  /\ drain.pc = "wrote"
  /\ drain' = [drain EXCEPT !.pc = "cast", !.left = viewers \cap {controller}]
  /\ UNCHANGED <<out, ring, session, closer, at, wire, todo>>

\* broadcast copies the set of viewers under the lock.
Broadcast ==
  /\ drain.pc = "wrote"
  /\ drain' = [drain EXCEPT !.pc = "cast", !.left = viewers]
  /\ UNCHANGED <<out, ring, session, closer, at, wire, todo>>

\* Mutant: a write that fails is tried again.
MutBroadcastTo(v) ==
  /\ drain.pc = "cast" /\ todo[Drain] = {}
  /\ v \in drain.left /\ Writable(v)
  /\ drain' = [drain EXCEPT !.left = IF conn[v] = "ok" THEN @ \ {v} ELSE @]
  /\ due' = [due EXCEPT ![v] = IF conn[v] = "ok" THEN @ \ drain.chunk ELSE @]
  /\ UNCHANGED <<out, ring, session, closer, at, conn, scroll, stalls, todo>>

\* One write of broadcast; a viewer whose write fails is removed.
BroadcastTo(v) ==
  /\ drain.pc = "cast" /\ todo[Drain] = {}
  /\ v \in drain.left /\ Writable(v)
  /\ drain' = [drain EXCEPT !.left = @ \ {v}]
  /\ IF conn[v] = "ok"
     THEN /\ due' = [due EXCEPT ![v] = @ \ drain.chunk]
          /\ UNCHANGED <<viewers, controller, todo>>
     ELSE RemoveViewer(Drain, v) /\ UNCHANGED due
  /\ conn' = [conn EXCEPT ![v] = IF @ = "ok" THEN @ ELSE "failed"]
  /\ UNCHANGED <<out, ring, terminated, stored, child, closer, at, scroll, stalls>>

BroadcastDone ==
  /\ drain.pc = "cast" /\ todo[Drain] = {} /\ drain.left = {}
  /\ drain' = [drain EXCEPT !.pc = "read", !.chunk = {}]
  /\ UNCHANGED <<out, ring, session, closer, at, wire, todo>>

\* The read fails: the process has exited or the PTY was closed.
DrainEnds ==
  /\ drain.pc = "read" /\ child # "running"
  /\ drain' = [drain EXCEPT !.pc = "end"]
  /\ MarkTerminated(Drain)
  /\ UNCHANGED <<out, ring, closer, at, wire>>

\* The deferred Wait.
Reap ==
  /\ drain.pc = "end" /\ todo[Drain] = {} /\ child # "reaped"
  /\ child' = "reaped"
  /\ UNCHANGED <<out, ring, viewers, controller, terminated, stored, drain, closer, at, wire, todo>>

(***************************************************************************)
(* Ending                                                                  *)
(***************************************************************************)
ProcessExits ==
  /\ child = "running"
  /\ child' = "exited"
  /\ UNCHANGED <<out, ring, viewers, controller, terminated, stored, drain, closer, at, wire, todo>>

\* Terminate, TerminateUser and enforceUserCap all come to markTerminated.
Terminate ==
  /\ stored /\ ~closer /\ ~terminated
  /\ closer' = TRUE
  /\ MarkTerminated(Closer)
  /\ UNCHANGED <<out, ring, drain, at, wire>>

Ending(a) == (a = Drain /\ drain.pc = "end") \/ (a = Closer /\ closer)

\* One viewer is sent the end frame and closed.
NotifyEnd(a, v) ==
  /\ Ending(a)
  /\ v \in todo[a] /\ Writable(v)
  /\ todo' = [todo EXCEPT ![a] = @ \ {v}]
  /\ conn' = [conn EXCEPT ![v] = "closed"]
  /\ due' = [due EXCEPT ![v] = {}]
  /\ UNCHANGED <<out, ring, session, drain, closer, at, scroll, stalls>>

CloserReturns ==
  /\ closer /\ todo[Closer] = {}
  /\ closer' = FALSE
  /\ UNCHANGED <<out, ring, session, drain, at, wire, todo>>

\* The five minutes are over.
EvictedTimer ==
  /\ terminated /\ stored
  /\ stored' = FALSE
  /\ UNCHANGED <<out, ring, viewers, controller, terminated, child, drain, closer, at, wire, todo>>

(***************************************************************************)
(* Attach                                                                  *)
(***************************************************************************)
\* Mutant: terminated is looked at before the lock is taken, in wsAttachOrCreate.
MutAttach(v) ==
  /\ at[v] = "none" /\ stored
  /\ conn' = [conn EXCEPT ![v] = "ok"]
  /\ at' = [at EXCEPT ![v] = "replay"]
  /\ viewers' = viewers \cup {v}
  /\ controller' = IF controller = None THEN v ELSE controller
  /\ scroll' = [scroll EXCEPT ![v] = Bytes(Snapshot(ring))]
  /\ due' = [due EXCEPT ![v] = Bytes(Snapshot(ring))]
  /\ UNCHANGED <<out, ring, terminated, stored, child, drain, closer, stalls, todo>>

\* The locked part of Attach: the viewer is registered and the ring copied.
\* A terminated session's viewer is told so and its socket held open.
Attach(v) ==
  /\ at[v] = "none" /\ stored
  /\ IF terminated
     THEN /\ at' = [at EXCEPT ![v] = "held"]
          /\ UNCHANGED <<viewers, controller, conn, scroll, due>>
     ELSE /\ at' = [at EXCEPT ![v] = "replay"]
          /\ conn' = [conn EXCEPT ![v] = "ok"]
          /\ viewers' = viewers \cup {v}
          /\ controller' = IF controller = None THEN v ELSE controller
          /\ scroll' = [scroll EXCEPT ![v] = Bytes(Snapshot(ring))]
          /\ due' = [due EXCEPT ![v] = Bytes(Snapshot(ring))]
  /\ UNCHANGED <<out, ring, terminated, stored, child, drain, closer, stalls, todo>>

\* The scrollback and the first control frame; errors are ignored.
Replay(v) ==
  /\ at[v] = "replay" /\ Writable(v)
  /\ at' = [at EXCEPT ![v] = "pump"]
  /\ due' = [due EXCEPT ![v] = IF conn[v] = "ok" THEN @ \ scroll[v] ELSE @]
  /\ scroll' = [scroll EXCEPT ![v] = {}]
  /\ UNCHANGED <<out, ring, session, drain, closer, conn, stalls, todo>>

Pumping(v) == at[v] = "pump" /\ todo[v] = {}

\* A take-control message, which may have been on its way when a write failed.
TakeControl(v) ==
  /\ Pumping(v) /\ conn[v] # "closed"
  /\ ~terminated /\ controller # v
  /\ controller' = v
  /\ PushControlToAll(v, viewers)
  /\ UNCHANGED <<out, ring, viewers, terminated, stored, child, drain, closer, at, wire>>

ReleaseControl(v) ==
  /\ Pumping(v) /\ conn[v] # "closed"
  /\ controller = v
  /\ controller' = None
  /\ PushControlToAll(v, viewers)
  /\ UNCHANGED <<out, ring, viewers, terminated, stored, child, drain, closer, at, wire>>

\* A control frame that had to wait is written; errors are ignored.
ControlWritten(a, v) ==
  /\ ~Ending(a)
  /\ v \in todo[a] /\ Writable(v)
  /\ todo' = [todo EXCEPT ![a] = @ \ {v}]
  /\ UNCHANGED <<out, ring, session, drain, closer, at, wire>>

\* ReadMessage fails: the connection is gone, or the read deadline is over
\* because the pings queue up behind the stalled write.
ReadFails(v) ==
  /\ Pumping(v) /\ conn[v] \in {"stalled", "lost", "failed", "closed"}
  /\ RemoveViewer(v, v)
  /\ at' = [at EXCEPT ![v] = "leave"]
  /\ due' = [due EXCEPT ![v] = {}]
  /\ UNCHANGED <<out, ring, terminated, stored, child, drain, closer, conn, scroll, stalls>>

\* Attach returns and the handler closes the connection.
Leave(v) ==
  /\ at[v] = "leave" /\ todo[v] = {}
  /\ at' = [at EXCEPT ![v] = "gone"]
  /\ conn' = [conn EXCEPT ![v] = IF @ = "failed" THEN @ ELSE "closed"]
  /\ UNCHANGED <<out, ring, session, drain, closer, scroll, due, stalls, todo>>

\* The socket of a terminated session: the client leaves, or the deadline.
HeldEnds(v) ==
  /\ at[v] = "held"
  /\ at' = [at EXCEPT ![v] = "gone"]
  /\ UNCHANGED <<out, ring, session, drain, closer, wire, todo>>

(***************************************************************************)
(* Connections                                                             *)
(***************************************************************************)
SetConn(v, from, to) ==
  /\ conn[v] \in from
  /\ conn' = [conn EXCEPT ![v] = to]
  /\ UNCHANGED <<out, ring, session, drain, closer, at, scroll, due, todo>>

\* The client closes, or the network breaks.
Lose(v) == SetConn(v, {"ok"}, "lost") /\ UNCHANGED stalls

Stall(v) == stalls < MaxStalls /\ stalls' = stalls + 1 /\ SetConn(v, {"ok"}, "stalled")

Resume(v) == SetConn(v, {"stalled"}, "ok") /\ UNCHANGED stalls

\* TCP gives a peer up that acknowledges nothing any more; never one that
\* goes on to acknowledge the probes of its full window.
TCPGivesUp(v) == SetConn(v, {"stalled"}, "lost") /\ UNCHANGED stalls

DrainStep ==
  Broadcast \/ BroadcastDone \/ DrainEnds \/ Reap \/ \E v \in Viewers : BroadcastTo(v)

ViewerStep(v) == Replay(v) \/ ReadFails(v) \/ Leave(v) \/ HeldEnds(v)

SendStep(a) == \E v \in Viewers : NotifyEnd(a, v) \/ ControlWritten(a, v)

Next ==
  \/ \E n \in ChunkSizes : ReadPTY(n)
  \/ DrainStep \/ CloserReturns \/ EvictedTimer
  \/ ProcessExits \/ Terminate
  \/ \E v \in Viewers :
       \/ Attach(v) \/ ViewerStep(v) \/ TakeControl(v) \/ ReleaseControl(v)
       \/ Lose(v) \/ Stall(v) \/ Resume(v) \/ TCPGivesUp(v)
  \/ \E a \in Actors : SendStep(a)

Spec == Init /\ [][Next]_vars

\* A goroutine is sure to go on only while none of the connections it has to
\* write to is stalled: it may be waiting for that one first.
Runs(a) ==
  /\ \A v \in todo[a] \cup (IF a = Drain THEN drain.left ELSE {}) : Writable(v)
  /\ \/ SendStep(a)
     \/ a = Drain /\ DrainStep
     \/ a = Closer /\ CloserReturns
     \/ a \in Viewers /\ ViewerStep(a)

\* Goroutines run, timers and deadlines fire.
Fairness == WF_vars(EvictedTimer) /\ \A a \in Actors : WF_vars(Runs(a))

\* Nothing is assumed of the network: a stalled connection may stay stalled.
FairSpec == Spec /\ Fairness

(***************************************************************************)
(* Properties                                                              *)
(***************************************************************************)
TypeOK ==
  /\ out \in 0..MaxOut
  /\ ring \in [buf : [0..(Cap - 1) -> 0..MaxOut], pos : 0..(Cap - 1), full : BOOLEAN]
  /\ viewers \subseteq Viewers /\ controller \in Viewers \cup {None}
  /\ terminated \in BOOLEAN /\ stored \in BOOLEAN /\ closer \in BOOLEAN
  /\ child \in {"running", "exited", "killed", "reaped"}
  /\ drain \in [pc : {"read", "wrote", "cast", "end"}, chunk : SUBSET (1..MaxOut),
                 left : SUBSET Viewers]
  /\ at \in [Viewers -> {"none", "replay", "pump", "leave", "held", "gone"}]
  /\ conn \in [Viewers -> {"none", "ok", "stalled", "lost", "failed", "closed"}]
  /\ scroll \in [Viewers -> SUBSET (1..MaxOut)] /\ due \in [Viewers -> SUBSET (1..MaxOut)]
  /\ stalls \in 0..MaxStalls
  /\ todo \in [Actors -> SUBSET Viewers]

\* The ring replays the end of the output, in order and without a gap,
\* whatever the sizes of the chunks written to it (ringBuf.Write, Snapshot).
RingIsTail ==
  LET n == IF out < Cap THEN out ELSE Cap IN
  Snapshot(ring) = [i \in 1..n |-> out - n + i]

\* No output is lost to a window: between two reads a viewer whose connection
\* works has everything from the start of its replay to the last byte read,
\* however its attaching interleaved with the broadcast (Attach, drainPTY).
NothingMissed ==
  drain.pc = "read" =>
    \A v \in viewers : at[v] = "pump" /\ conn[v] = "ok" => due[v] = {}

\* A terminated session has no viewers and no controller, and never gets one
\* again from a window that attaches or takes control late; its child is dead
\* (markTerminated, Attach, takeControl).
EndedIsEmpty == terminated => viewers = {} /\ controller = None /\ child # "running"

\* Only a viewer that a failed write of the output removed can be controller
\* without being attached: a window that closes, stalls or takes control in
\* whatever order never leaves a terminal controlled by nobody (removeViewer,
\* takeControl).
ControllerAttached ==
  controller \notin viewers \cup {None} => conn[controller] = "failed"

\* The goroutine of a window that has stalled waits in a write of its own, the
\* replay or a control frame: there the read deadline does not reach it.
Stuck(v) == conn[v] = "stalled" /\ (at[v] = "replay" \/ todo[v] # {})

Cleaned ==
  /\ child = "reaped" /\ ~stored /\ ~closer
  /\ \A v \in Viewers : at[v] \in {"none", "gone"}

\* Every terminal that ends is cleaned up: its child is reaped, the store
\* forgets it, no window stays attached to it, also when a window never reads
\* again, unless one is stuck for ever in a write of its own goroutine
\* (drainPTY, markTerminated).  What is terminated stays so.
EndCleansUp == []<>(terminated => Cleaned) \/ \E v \in Viewers : <>[]Stuck(v)

\* A window that stops reading cannot hold the output back from the others for
\* ever, though TCP never gives it up: the read deadline ends it. The exception
\* is a window that stops in its replay or in a control frame it sends itself,
\* where no deadline is set (broadcast, readDeadline, viewer.write).
OutputFlows == []<>(drain.pc # "cast") \/ \E v \in Viewers : <>[]Stuck(v)
=============================================================================
