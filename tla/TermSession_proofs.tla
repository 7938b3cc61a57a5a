------------------------ MODULE TermSession_proofs ------------------------
(***************************************************************************)
(* Theorems about TermSession, for every number of connections, every size *)
(* of the ring and every sequence of chunk sizes: the ring holds the end   *)
(* of the output, no output is lost to a window, a session that has ended  *)
(* has no window, and the controller is attached.                          *)
(***************************************************************************)
EXTENDS TermSession, TLAPS

(***************************************************************************)
(* The ring                                                                *)
(***************************************************************************)
RingType == [buf : [0..(Cap - 1) -> Nat], pos : 0..(Cap - 1), full : BOOLEAN]

(* What each cell holds after w bytes: cells before pos were written last. *)
RingAt(r, w) ==
  /\ r \in RingType /\ w \in Nat
  /\ r.full => /\ w >= Cap
               /\ \A j \in 0..(Cap - 1) :
                    r.buf[j] = IF j < r.pos THEN w - r.pos + j + 1
                               ELSE w - Cap - r.pos + j + 1
  /\ ~r.full => /\ r.pos = w
                /\ \A j \in 0..(Cap - 1) : j < r.pos => r.buf[j] = j + 1

LEMMA NewRing == RingAt(newRingBuf, 0)
  BY TermAssumption DEF RingAt, RingType, newRingBuf

LEMMA ChunkSeq ==
  ASSUME NEW w \in Nat, NEW n \in Nat
  PROVE  /\ [i \in 1..n |-> w + i] \in Seq(Nat)
         /\ Len([i \in 1..n |-> w + i]) = n
  OBVIOUS

LEMMA WriteLarge ==
  ASSUME NEW r, NEW w, RingAt(r, w), NEW n \in Nat, n >= Cap
  PROVE  RingAt(WriteN(r, [i \in 1..n |-> w + i], n), w + n)
<1> DEFINE p == [i \in 1..n |-> w + i]
           b == [i \in 0..(Cap - 1) |-> p[n - Cap + i + 1]]
<1>1. w \in Nat /\ Cap \in Nat \ {0}
  BY TermAssumption DEF RingAt
<1>2. \A i \in 0..(Cap - 1) : b[i] = w + n - Cap + i + 1
  BY <1>1
<1>3. b \in [0..(Cap - 1) -> Nat]
  BY <1>1, <1>2
<1>4. WriteN(r, p, n) = [buf |-> b, pos |-> 0, full |-> TRUE]
  BY DEF WriteN
<1> HIDE DEF b, p
<1>5. RingAt([buf |-> b, pos |-> 0, full |-> TRUE], w + n)
  BY <1>1, <1>2, <1>3 DEF RingAt, RingType
<1> QED BY <1>4, <1>5 DEF p

(* The cells a small write leaves.                                         *)
LEMMA CopiedCells ==
  ASSUME NEW r \in RingType, NEW w \in Nat, NEW n \in Nat, n > 0, n < Cap,
         NEW i \in 0..(Cap - 1)
  PROVE  Copied(r, [k \in 1..n |-> w + k], n)[i] =
           IF i >= r.pos /\ i < r.pos + n THEN w + i - r.pos + 1
           ELSE IF i < n - (Cap - r.pos) THEN w + Cap - r.pos + i + 1
           ELSE r.buf[i]
<1> DEFINE p == [k \in 1..n |-> w + k]
<1>1. Cap \in Nat \ {0} /\ r.pos \in 0..(Cap - 1)
  BY TermAssumption DEF RingType
<1>2. Copied(r, p, n)[i] =
           IF i >= r.pos /\ i < r.pos + n THEN p[i - r.pos + 1]
           ELSE IF i < n - (Cap - r.pos) THEN p[Cap - r.pos + i + 1]
           ELSE r.buf[i]
  BY DEF Copied
<1>3. CASE i >= r.pos /\ i < r.pos + n
  <2>1. i - r.pos + 1 \in 1..n
    BY <1>1, <1>3
  <2> QED BY <1>1, <1>2, <1>3, <2>1
<1>4. CASE ~(i >= r.pos /\ i < r.pos + n) /\ i < n - (Cap - r.pos)
  <2>1. Cap - r.pos + i + 1 \in 1..n
    BY <1>1, <1>4
  <2> QED BY <1>1, <1>2, <1>4, <2>1
<1>5. CASE ~(i >= r.pos /\ i < r.pos + n) /\ ~(i < n - (Cap - r.pos))
  BY <1>1, <1>2, <1>5
<1> QED BY <1>3, <1>4, <1>5

(* The arithmetic of one cell j of a ring of c cells: pos p and fullness f *)
(* before, q and g after n more bytes, contents old and new.               *)
Cell(c, p, w, n, j, old) ==
  IF j >= p /\ j < p + n THEN w + j - p + 1
  ELSE IF j < n - (c - p) THEN w + c - p + j + 1
  ELSE old

Before(c, p, w, n, j, old, f) ==
  /\ c \in Nat /\ p \in Nat /\ w \in Nat /\ n \in Nat /\ j \in Nat
  /\ old \in Nat /\ f \in BOOLEAN
  /\ p < c /\ n > 0 /\ n < c /\ j < c
  /\ f => old = IF j < p THEN w - p + j + 1 ELSE w - c - p + j + 1
  /\ ~f => p = w /\ (j < p => old = j + 1)

After(c, p, w, n, j, f, new) ==
  LET q == IF p + n < c THEN p + n ELSE p + n - c
      g == f \/ p + n >= c
  IN  /\ g => new = IF j < q THEN w + n - q + j + 1 ELSE w + n - c - q + j + 1
      /\ ~g => (j < q => new = j + 1)

LEMMA CellArith ==
  ASSUME NEW c, NEW p, NEW w, NEW n, NEW j, NEW old, NEW f,
         Before(c, p, w, n, j, old, f)
  PROVE  After(c, p, w, n, j, f, Cell(c, p, w, n, j, old)) /\ Cell(c, p, w, n, j, old) \in Nat
<1> USE DEF Before, After, Cell
<1>1. CASE p + n < c /\ f
  BY <1>1
<1>2. CASE p + n < c /\ ~f
  BY <1>2
<1>3. CASE p + n >= c /\ f
  BY <1>3
<1>4. CASE p + n >= c /\ ~f
  BY <1>4
<1> QED BY <1>1, <1>2, <1>3, <1>4

LEMMA WriteSmall ==
  ASSUME NEW r, NEW w, RingAt(r, w), NEW n \in Nat, n > 0, n < Cap
  PROVE  RingAt(WriteN(r, [i \in 1..n |-> w + i], n), w + n)
<1> DEFINE p == [i \in 1..n |-> w + i]
           b == Copied(r, p, n)
           q == IF r.pos + n < Cap THEN r.pos + n ELSE r.pos + n - Cap
           f == r.full \/ r.pos + n >= Cap
<1>1. w \in Nat /\ Cap \in Nat \ {0} /\ r.pos \in 0..(Cap - 1) /\ r.full \in BOOLEAN
      /\ r.buf \in [0..(Cap - 1) -> Nat] /\ r \in RingType
  BY TermAssumption DEF RingAt, RingType
<1>2. ~(n >= Cap)
  BY <1>1
<1>3. WriteN(r, p, n) = [buf |-> b, pos |-> q, full |-> f]
  BY <1>2 DEF WriteN
<1>4. \A i \in 0..(Cap - 1) : b[i] = Cell(Cap, r.pos, w, n, i, r.buf[i])
  BY <1>1, CopiedCells DEF Cell
<1>a. b = [i \in 0..(Cap - 1) |-> b[i]]
  BY DEF Copied
<1> HIDE DEF b, p
<1>b. ASSUME NEW j \in 0..(Cap - 1)
      PROVE  Before(Cap, r.pos, w, n, j, r.buf[j], r.full)
  BY <1>1 DEF Before, RingAt
<1>5. b \in [0..(Cap - 1) -> Nat]
  BY <1>4, <1>a, <1>b, CellArith
<1>6. q \in 0..(Cap - 1) /\ f \in BOOLEAN
  BY <1>1
<1>7. f => w + n >= Cap
  BY <1>1 DEF RingAt
<1>8. ~f => q = w + n
  BY <1>1 DEF RingAt
<1>9. ASSUME NEW j \in 0..(Cap - 1)
      PROVE  /\ f => b[j] = IF j < q THEN w + n - q + j + 1 ELSE w + n - Cap - q + j + 1
             /\ ~f => (j < q => b[j] = j + 1)
  <2>1. After(Cap, r.pos, w, n, j, r.full, b[j])
    BY <1>4, <1>b, CellArith
  <2> QED BY <2>1 DEF After
<1> HIDE DEF q, f
<1>11. RingAt([buf |-> b, pos |-> q, full |-> f], w + n)
  BY <1>1, <1>5, <1>6, <1>7, <1>8, <1>9 DEF RingAt, RingType
<1> QED BY <1>3, <1>11 DEF p

LEMMA WriteAt ==
  ASSUME NEW r, NEW w, RingAt(r, w), NEW n \in Nat \ {0}
  PROVE  RingAt(Write(r, [i \in 1..n |-> w + i]), w + n)
<1>1. w \in Nat /\ Cap \in Nat
  BY TermAssumption DEF RingAt
<1>2. Write(r, [i \in 1..n |-> w + i]) = WriteN(r, [i \in 1..n |-> w + i], n)
  BY <1>1, ChunkSeq DEF Write
<1>3. CASE n >= Cap
  BY <1>2, <1>3, WriteLarge
<1>4. CASE n < Cap
  BY <1>2, <1>4, WriteSmall
<1> QED BY <1>1, <1>3, <1>4

(* Read from the oldest cell on, the cells are the end of the output.      *)
LEMMA SnapshotAt ==
  ASSUME NEW r, NEW w, RingAt(r, w)
  PROVE  LET n == IF w < Cap THEN w ELSE Cap
         IN  Snapshot(r) = [i \in 1..n |-> w - n + i]
<1>1. w \in Nat /\ Cap \in Nat \ {0} /\ r.pos \in 0..(Cap - 1) /\ r.full \in BOOLEAN
  BY TermAssumption DEF RingAt, RingType
<1>2. CASE r.full
  <2>1. w >= Cap
    BY <1>2 DEF RingAt
  <2>2. ASSUME NEW i \in 1..Cap
        PROVE  (IF i <= Cap - r.pos THEN r.buf[r.pos + i - 1]
                ELSE r.buf[i - (Cap - r.pos) - 1]) = w - Cap + i
    <3>1. CASE i <= Cap - r.pos
      <4>1. r.pos + i - 1 \in 0..(Cap - 1) /\ ~(r.pos + i - 1 < r.pos)
        BY <1>1, <3>1
      <4>2. r.buf[r.pos + i - 1] = w - Cap - r.pos + (r.pos + i - 1) + 1
        BY <1>2, <4>1 DEF RingAt
      <4> QED BY <1>1, <3>1, <4>2
    <3>2. CASE ~(i <= Cap - r.pos)
      <4>1. i - (Cap - r.pos) - 1 \in 0..(Cap - 1) /\ i - (Cap - r.pos) - 1 < r.pos
        BY <1>1, <3>2
      <4>2. r.buf[i - (Cap - r.pos) - 1] = w - r.pos + (i - (Cap - r.pos) - 1) + 1
        BY <1>2, <4>1 DEF RingAt
      <4> QED BY <1>1, <3>2, <4>2
    <3> QED BY <3>1, <3>2
  <2>3. Snapshot(r) = [i \in 1..Cap |-> w - Cap + i]
    BY <1>2, <2>2 DEF Snapshot
  <2>4. (IF w < Cap THEN w ELSE Cap) = Cap
    BY <1>1, <2>1
  <2> QED BY <2>3, <2>4
<1>3. CASE ~r.full
  <2>1. r.pos = w /\ \A j \in 0..(Cap - 1) : j < r.pos => r.buf[j] = j + 1
    BY <1>3 DEF RingAt
  <2>2. \A i \in 1..r.pos : r.buf[i - 1] = i
    BY <1>1, <2>1
  <2>3. (IF w < Cap THEN w ELSE Cap) = w /\ \A i \in 1..w : w - w + i = i
    BY <1>1, <2>1
  <2>4. Snapshot(r) = [i \in 1..w |-> i]
    BY <1>3, <2>1, <2>2 DEF Snapshot
  <2>5. [i \in 1..w |-> w - w + i] = [i \in 1..w |-> i]
    BY <2>3
  <2> QED BY <2>3, <2>4, <2>5
<1> QED BY <1>1, <1>2, <1>3

LEMMA RingInit == Init => RingAt(ring, out)
  BY NewRing DEF Init

(* Only a read of the PTY writes to the ring.                              *)
LEMMA RingStep == RingAt(ring, out) /\ [Next]_vars => RingAt(ring, out)'
<1> SUFFICES ASSUME RingAt(ring, out), [Next]_vars PROVE RingAt(ring', out')
  BY DEF RingAt, RingType
<1>1. CASE \E n \in ChunkSizes : ReadPTY(n)
  <2>1. PICK n \in ChunkSizes : ReadPTY(n)
    BY <1>1
  <2>2. n \in Nat \ {0}
    BY TermAssumption
  <2> QED BY <2>1, <2>2, WriteAt DEF ReadPTY, NextBytes
<1>2. CASE UNCHANGED <<out, ring>>
  BY <1>2
<1>3. (\E n \in ChunkSizes : ReadPTY(n)) \/ UNCHANGED <<out, ring>>
  BY DEF Next, vars, DrainStep, CloserReturns, EvictedTimer, ProcessExits, Terminate,
         Attach, ViewerStep, TakeControl, ReleaseControl, Lose, Stall, Resume, TCPGivesUp,
         SetConn, SendStep, NotifyEnd, ControlWritten, Replay, ReadFails, Leave, HeldEnds,
         Broadcast, BroadcastDone, BroadcastTo, DrainEnds, Reap
<1> QED BY <1>1, <1>2, <1>3

\* In every reachable state the ring replays exactly the last Cap bytes of the
\* output, for every size of the ring and every sequence of chunk sizes
\* (ringBuf.Write, ringBuf.Snapshot, drainPTY).
THEOREM RingTail == Spec => []RingIsTail
<1>1. RingAt(ring, out) => RingIsTail
  BY SnapshotAt DEF RingIsTail
<1> QED BY RingInit, RingStep, <1>1, PTL DEF Spec

(***************************************************************************)
(* The end of a session                                                    *)
(***************************************************************************)

(* An ended session gets no window, no controller and no live child by any step. *)
LEMMA EndedStep == EndedIsEmpty /\ [Next]_vars => EndedIsEmpty'
<1> SUFFICES ASSUME EndedIsEmpty, [Next]_vars PROVE EndedIsEmpty'
  OBVIOUS
<1> USE DEF EndedIsEmpty
<1>1. ASSUME NEW n \in ChunkSizes, ReadPTY(n) PROVE EndedIsEmpty'
  BY <1>1 DEF ReadPTY, session
<1>2. CASE DrainStep
  <2>1. CASE Broadcast \/ BroadcastDone
    BY <2>1 DEF Broadcast, BroadcastDone, session
  <2>2. CASE DrainEnds
    BY <2>2 DEF DrainEnds, MarkTerminated, session
  <2>3. CASE Reap
    BY <2>3 DEF Reap
  <2>4. ASSUME NEW v \in Viewers, BroadcastTo(v) PROVE EndedIsEmpty'
    BY <2>4 DEF BroadcastTo, RemoveViewer
  <2> QED BY <1>2, <2>1, <2>2, <2>3, <2>4 DEF DrainStep
<1>3. CASE CloserReturns \/ EvictedTimer \/ ProcessExits
  BY <1>3 DEF CloserReturns, EvictedTimer, ProcessExits, session
<1>4. CASE Terminate
  BY <1>4 DEF Terminate, MarkTerminated, session
<1>5. ASSUME NEW v \in Viewers, Attach(v) PROVE EndedIsEmpty'
  BY <1>5 DEF Attach
<1>6. ASSUME NEW v \in Viewers, ViewerStep(v) PROVE EndedIsEmpty'
  BY <1>6 DEF ViewerStep, Replay, ReadFails, Leave, HeldEnds, RemoveViewer, session
<1>7. ASSUME NEW v \in Viewers, TakeControl(v) \/ ReleaseControl(v) PROVE EndedIsEmpty'
  BY <1>7 DEF TakeControl, ReleaseControl
<1>8. ASSUME NEW v \in Viewers, Lose(v) \/ Stall(v) \/ Resume(v) \/ TCPGivesUp(v)
      PROVE  EndedIsEmpty'
  BY <1>8 DEF Lose, Stall, Resume, TCPGivesUp, SetConn, session
<1>9. ASSUME NEW a \in Actors, SendStep(a) PROVE EndedIsEmpty'
  BY <1>9 DEF SendStep, NotifyEnd, ControlWritten, session
<1>10. CASE UNCHANGED vars
  BY <1>10 DEF vars
<1> QED BY <1>1, <1>2, <1>3, <1>4, <1>5, <1>6, <1>7, <1>8, <1>9, <1>10 DEF Next

\* A session that has ended has no window, no controller and no live child, and
\* never gets one again, whatever its windows do (markTerminated, Attach,
\* takeControl).
THEOREM EndStays == Spec => []EndedIsEmpty
<1>1. Init => EndedIsEmpty
  BY DEF Init, EndedIsEmpty
<1> QED BY <1>1, EndedStep, PTL DEF Spec

(***************************************************************************)
(* No output is lost                                                       *)
(***************************************************************************)
OnViewers(f) == f = [v \in Viewers |-> f[v]]

Shape ==
  /\ viewers \subseteq Viewers
  /\ OnViewers(at) /\ OnViewers(conn) /\ OnViewers(scroll) /\ OnViewers(due)
  /\ drain = [pc |-> drain.pc, chunk |-> drain.chunk, left |-> drain.left]

(* What may still be on its way to v: the replay it waits for, and the     *)
(* chunk in hand as long as its turn has not come.                         *)
OnItsWay(v) ==
  (IF at[v] = "replay" THEN scroll[v] ELSE {})
    \cup (IF drain.pc = "wrote" \/ (drain.pc = "cast" /\ v \in drain.left)
          THEN drain.chunk ELSE {})

Sent ==
  \A v \in viewers : conn[v] \in {"ok", "stalled"} => due[v] \subseteq OnItsWay(v)

LEMMA SentInit == Init => Shape /\ Sent
  BY DEF Init, Shape, Sent, OnViewers

(* A step that touches neither the wire nor drainPTY, and lets nobody in.  *)
LEMMA SentFrame ==
  ASSUME Shape, Sent, viewers' \subseteq viewers,
         UNCHANGED <<at, conn, scroll, due, drain>>
  PROVE  Shape' /\ Sent'
  BY DEF Shape, Sent, OnItsWay, OnViewers

LEMMA SentRead ==
  ASSUME Shape, Sent, NEW n, ReadPTY(n)
  PROVE  Shape' /\ Sent'
<1> DEFINE c == Bytes(NextBytes(n))
<1>1. /\ drain.pc = "read" /\ drain' = [pc |-> "wrote", chunk |-> c, left |-> {}]
      /\ due' = [v \in Viewers |-> IF v \in viewers THEN due[v] \cup c ELSE {}]
      /\ UNCHANGED <<viewers, at, conn, scroll>>
  BY DEF ReadPTY, session
<1> HIDE DEF c
<1>2. Shape'
  BY <1>1 DEF Shape, OnViewers
<1>3. Sent'
  BY <1>1 DEF Sent, Shape, OnItsWay
<1> QED BY <1>2, <1>3

LEMMA SentBroadcast ==
  ASSUME Shape, Sent, Broadcast \/ BroadcastDone \/ DrainEnds
  PROVE  Shape' /\ Sent'
<1>1. CASE Broadcast
  BY <1>1 DEF Broadcast, Shape, Sent, OnItsWay, OnViewers, session, wire
<1>2. CASE BroadcastDone
  BY <1>2 DEF BroadcastDone, Shape, Sent, OnItsWay, OnViewers, session, wire
<1>3. CASE DrainEnds
  BY <1>3 DEF DrainEnds, MarkTerminated, Shape, Sent, OnItsWay, OnViewers, session, wire
<1> QED BY <1>1, <1>2, <1>3

LEMMA SentBroadcastTo ==
  ASSUME Shape, Sent, NEW v \in Viewers, BroadcastTo(v)
  PROVE  Shape' /\ Sent'
<1>1. /\ drain.pc = "cast" /\ drain'.pc = "cast" /\ drain'.chunk = drain.chunk
      /\ drain'.left = drain.left \ {v}
      /\ drain' = [pc |-> drain'.pc, chunk |-> drain'.chunk, left |-> drain'.left]
      /\ UNCHANGED <<at, scroll>>
  BY DEF BroadcastTo, Shape
<1>2. CASE conn[v] = "ok"
  <2>1. /\ UNCHANGED <<viewers, conn>>
        /\ due' = [due EXCEPT ![v] = due[v] \ drain.chunk]
    BY <1>2 DEF BroadcastTo, Shape, OnViewers
  <2> QED BY <1>1, <1>2, <2>1 DEF Shape, OnViewers, Sent, OnItsWay
<1>3. CASE conn[v] # "ok"
  <2>1. /\ viewers' = viewers \ {v} /\ due' = due
        /\ conn' = [conn EXCEPT ![v] = "failed"]
    BY <1>3 DEF BroadcastTo, RemoveViewer, Shape, OnViewers
  <2> QED BY <1>1, <2>1 DEF Shape, OnViewers, Sent, OnItsWay
<1> QED BY <1>2, <1>3

LEMMA SentAttach ==
  ASSUME Shape, Sent, NEW v \in Viewers, Attach(v)
  PROVE  Shape' /\ Sent'
<1> DEFINE s == Bytes(Snapshot(ring))
<1>1. CASE terminated
  BY <1>1 DEF Attach, Shape, OnViewers, Sent, OnItsWay
<1>2. CASE ~terminated
  <2>1. /\ at' = [at EXCEPT ![v] = "replay"] /\ conn' = [conn EXCEPT ![v] = "ok"]
        /\ viewers' = viewers \cup {v} /\ drain' = drain
        /\ scroll' = [scroll EXCEPT ![v] = s] /\ due' = [due EXCEPT ![v] = s]
    BY <1>2 DEF Attach
  <2> HIDE DEF s
  <2> QED BY <2>1 DEF Shape, OnViewers, Sent, OnItsWay
<1> QED BY <1>1, <1>2

LEMMA SentViewer ==
  ASSUME Shape, Sent, NEW v \in Viewers, ViewerStep(v)
  PROVE  Shape' /\ Sent'
<1>1. CASE Replay(v)
  BY <1>1 DEF Replay, Writable, Shape, OnViewers, Sent, OnItsWay, session
<1>2. CASE ReadFails(v)
  BY <1>2 DEF ReadFails, RemoveViewer, Shape, OnViewers, Sent, OnItsWay
<1>3. CASE Leave(v)
  BY <1>3 DEF Leave, Shape, OnViewers, Sent, OnItsWay, session
<1>4. CASE HeldEnds(v)
  BY <1>4 DEF HeldEnds, Shape, OnViewers, Sent, OnItsWay, session, wire
<1> QED BY <1>1, <1>2, <1>3, <1>4 DEF ViewerStep

LEMMA SentConn ==
  ASSUME Shape, Sent, NEW v \in Viewers,
         Lose(v) \/ Stall(v) \/ Resume(v) \/ TCPGivesUp(v)
  PROVE  Shape' /\ Sent'
  BY DEF Lose, Stall, Resume, TCPGivesUp, SetConn, Shape, OnViewers, Sent, OnItsWay, session

LEMMA SentSend ==
  ASSUME Shape, Sent, NEW a \in Actors, SendStep(a)
  PROVE  Shape' /\ Sent'
<1> PICK v \in Viewers : NotifyEnd(a, v) \/ ControlWritten(a, v)
  BY DEF SendStep
<1>1. CASE NotifyEnd(a, v)
  BY <1>1 DEF NotifyEnd, Shape, OnViewers, Sent, OnItsWay, session
<1>2. CASE ControlWritten(a, v)
  BY <1>2, SentFrame DEF ControlWritten, session, wire
<1> QED BY <1>1, <1>2

LEMMA SentStep == Shape /\ Sent /\ [Next]_vars => Shape' /\ Sent'
<1> SUFFICES ASSUME Shape, Sent, [Next]_vars PROVE Shape' /\ Sent'
  OBVIOUS
<1>1. CASE DrainStep
  <2>1. CASE Reap
    BY <2>1, SentFrame DEF Reap, wire
  <2> QED BY <1>1, <2>1, SentBroadcast, SentBroadcastTo DEF DrainStep
<1>2. CASE CloserReturns \/ EvictedTimer \/ ProcessExits
  BY <1>2, SentFrame DEF CloserReturns, EvictedTimer, ProcessExits, session, wire
<1>3. CASE Terminate
  BY <1>3, SentFrame DEF Terminate, MarkTerminated, session, wire
<1>4. ASSUME NEW v \in Viewers, TakeControl(v) \/ ReleaseControl(v) PROVE Shape' /\ Sent'
  BY <1>4, SentFrame DEF TakeControl, ReleaseControl, wire
<1>5. CASE UNCHANGED vars
  BY <1>5, SentFrame DEF vars
<1> QED BY <1>1, <1>2, <1>3, <1>4, <1>5, SentRead, SentAttach, SentViewer, SentConn, SentSend
        DEF Next

\* Between two reads of the PTY a window whose connection works has been sent
\* everything from the start of its replay to the last byte read, however many
\* windows attach, stall and leave while output is being broadcast (Attach,
\* drainPTY, broadcast).
THEOREM NoOutputLost == Spec => []NothingMissed
<1>1. Sent => NothingMissed
  BY DEF Sent, OnItsWay, NothingMissed
<1> QED BY SentInit, SentStep, <1>1, PTL DEF Spec

(***************************************************************************)
(* Types                                                                   *)
(***************************************************************************)
(* The types of the variables, one by one. *)
Conns == {"none", "ok", "stalled", "lost", "failed", "closed"}
Ats   == {"none", "replay", "pump", "leave", "held", "gone"}
Sub   == SUBSET (1..MaxOut)
RingRec == [buf : [0..(Cap - 1) -> 0..MaxOut], pos : 0..(Cap - 1), full : BOOLEAN]
DrainRec == [pc : {"read", "wrote", "cast", "end"}, chunk : Sub, left : SUBSET Viewers]

(* TypeOK, part by part. *)
LEMMA Parts ==
  TypeOK <=>
  /\ out \in 0..MaxOut /\ ring \in RingRec /\ viewers \subseteq Viewers
     /\ controller \in Viewers \cup {None}
  /\ terminated \in BOOLEAN /\ stored \in BOOLEAN /\ closer \in BOOLEAN
  /\ child \in {"running", "exited", "killed", "reaped"} /\ drain \in DrainRec
  /\ at \in [Viewers -> Ats] /\ conn \in [Viewers -> Conns]
  /\ scroll \in [Viewers -> Sub] /\ due \in [Viewers -> Sub] /\ stalls \in 0..MaxStalls
  /\ todo \in [Actors -> SUBSET Viewers]
  BY DEF TypeOK, RingRec, DrainRec, Ats, Conns, Sub

(* TypeOK of the next state, part by part. *)
LEMMA PartsNext ==
  ASSUME out' \in 0..MaxOut, ring' \in RingRec, viewers' \subseteq Viewers,
         controller' \in Viewers \cup {None},
         terminated' \in BOOLEAN, stored' \in BOOLEAN, closer' \in BOOLEAN,
         child' \in {"running", "exited", "killed", "reaped"}, drain' \in DrainRec,
         at' \in [Viewers -> Ats], conn' \in [Viewers -> Conns],
         scroll' \in [Viewers -> Sub], due' \in [Viewers -> Sub], stalls' \in 0..MaxStalls,
         todo' \in [Actors -> SUBSET Viewers]
  PROVE  TypeOK'
  BY DEF TypeOK, RingRec, DrainRec, Ats, Conns, Sub

(* The bytes of a chunk are positions in the output. *)
LEMMA NextBytesIn ==
  ASSUME out \in 0..MaxOut, NEW n \in Nat, out + n \in 0..MaxOut
  PROVE  Bytes(NextBytes(n)) \subseteq 1..MaxOut
<1>1. Len(NextBytes(n)) = n
  BY ChunkSeq, TermAssumption DEF NextBytes
<1>2. \A i \in 1..n : NextBytes(n)[i] = out + i
  BY DEF NextBytes
<1>3. \A i \in 1..n : out + i \in 1..MaxOut
  BY TermAssumption
<1> QED BY <1>1, <1>2, <1>3 DEF Bytes

(* So are the bytes of a replay: it holds none of the cells that were never written. *)
LEMMA SnapshotIn ==
  ASSUME out \in 0..MaxOut, RingAt(ring, out)
  PROVE  Bytes(Snapshot(ring)) \subseteq 1..MaxOut
<1> DEFINE n == IF out < Cap THEN out ELSE Cap
           s == [i \in 1..n |-> out - n + i]
<1>1. Snapshot(ring) = s
  BY SnapshotAt
<1>2. n \in Nat /\ n <= out /\ MaxOut \in Nat /\ out \in Nat /\ out <= MaxOut
  BY TermAssumption
<1> HIDE DEF n
<1>3. \A i \in 1..n : s[i] \in 1..MaxOut
  BY <1>2
<1>4. s \in Seq(Nat) /\ Len(s) = n
  BY <1>2
<1> QED BY <1>1, <1>3, <1>4 DEF Bytes

(* The bytes of the ring are bytes of the output. *)
LEMMA WriteIn ==
  ASSUME NEW n \in Nat \ {0}, out \in 0..MaxOut, out + n \in 0..MaxOut, ring \in RingRec,
         RingAt(ring, out)
  PROVE  Write(ring, NextBytes(n)) \in RingRec
<1> DEFINE p == [i \in 1..n |-> out + i]
<1>1. out \in Nat /\ MaxOut \in Nat /\ Cap \in Nat \ {0} /\ out + n <= MaxOut
  BY TermAssumption
<1>2. Write(ring, NextBytes(n)) = WriteN(ring, p, n)
  BY <1>1, ChunkSeq DEF Write, NextBytes
<1>3. WriteN(ring, p, n) \in RingType
  <2>1. Write(ring, p) = WriteN(ring, p, n)
    BY <1>2 DEF NextBytes
  <2>2. RingAt(Write(ring, p), out + n)
    BY WriteAt
  <2> QED BY <2>1, <2>2 DEF RingAt
<1>4. CASE n >= Cap
  <2>1. \A i \in 0..(Cap - 1) : p[n - Cap + i + 1] = out + n - Cap + i + 1
    BY <1>1, <1>4
  <2>2. \A i \in 0..(Cap - 1) : p[n - Cap + i + 1] \in 0..MaxOut
    BY <1>1, <1>4, <2>1
  <2> QED BY <1>1, <1>2, <1>4, <2>2 DEF WriteN, RingRec
<1>5. CASE n < Cap
  <2>1. ring \in RingType /\ ring.buf \in [0..(Cap - 1) -> 0..MaxOut]
        /\ ring.pos \in 0..(Cap - 1)
    BY DEF RingAt, RingRec
  <2>2. ASSUME NEW i \in 0..(Cap - 1) PROVE Copied(ring, p, n)[i] \in 0..MaxOut
    <3>1. Copied(ring, p, n)[i] =
           IF i >= ring.pos /\ i < ring.pos + n THEN out + i - ring.pos + 1
           ELSE IF i < n - (Cap - ring.pos) THEN out + Cap - ring.pos + i + 1
           ELSE ring.buf[i]
      BY <1>1, <1>5, <2>1, CopiedCells
    <3> DEFINE q == ring.pos
               b == ring.buf[i]
               c == Copied(ring, p, n)[i]
    <3>2. q \in 0..(Cap - 1) /\ b \in 0..MaxOut
      BY <2>1
    <3>3. c = IF i >= q /\ i < q + n THEN out + i - q + 1
              ELSE IF i < n - (Cap - q) THEN out + Cap - q + i + 1 ELSE b
      BY <3>1
    <3> HIDE DEF q, b, c
    <3>4. c \in 0..MaxOut
      BY <1>1, <1>5, <3>2, <3>3
    <3> QED BY <3>4 DEF c
  <2>3. Copied(ring, p, n) = [i \in 0..(Cap - 1) |-> Copied(ring, p, n)[i]]
    BY DEF Copied
  <2>4. Copied(ring, p, n) \in [0..(Cap - 1) -> 0..MaxOut]
    BY <2>2, <2>3
  <2>5. WriteN(ring, p, n).buf = Copied(ring, p, n) /\ WriteN(ring, p, n) \in RingType
    BY <1>1, <1>3, <1>5 DEF WriteN
  <2> QED BY <1>2, <2>4, <2>5 DEF RingType, RingRec
<1> QED BY <1>1, <1>4, <1>5

(* The initial state is typed. *)
LEMMA TypeInit == Init => TypeOK
<1> SUFFICES ASSUME Init PROVE TypeOK
  OBVIOUS
<1>1. ring \in RingRec
  BY TermAssumption DEF Init, newRingBuf, RingRec
<1>2. out \in 0..MaxOut /\ stalls \in 0..MaxStalls
  BY TermAssumption DEF Init
<1>3. drain \in DrainRec
  BY DEF Init, DrainRec, Sub
<1>4. todo \in [Actors -> SUBSET Viewers] /\ at \in [Viewers -> Ats]
      /\ conn \in [Viewers -> Conns]
      /\ scroll \in [Viewers -> Sub] /\ due \in [Viewers -> Sub]
  BY DEF Init, Ats, Conns, Sub
<1> QED BY <1>1, <1>2, <1>3, <1>4, Parts DEF Init

(* A read of the PTY keeps the types. *)
LEMMA TypeRead ==
  ASSUME TypeOK, RingAt(ring, out), NEW n \in ChunkSizes, ReadPTY(n) PROVE TypeOK'
<1>1. n \in Nat \ {0} /\ MaxOut \in Nat
  BY TermAssumption
<1>2. out \in 0..MaxOut /\ ring \in RingRec /\ due \in [Viewers -> Sub]
      /\ drain \in DrainRec
  BY Parts
<1>3. out' \in 0..MaxOut /\ out + n \in 0..MaxOut
  BY <1>1, <1>2 DEF ReadPTY
<1>4. ring' \in RingRec
  BY <1>1, <1>2, <1>3, WriteIn DEF ReadPTY
<1> DEFINE c == Bytes(NextBytes(n))
<1>5. c \in Sub
  BY <1>1, <1>2, <1>3, NextBytesIn DEF Sub
<1>6. drain' = [pc |-> "wrote", chunk |-> c, left |-> {}]
      /\ due' = [v \in Viewers |-> IF v \in viewers THEN due[v] \cup c ELSE {}]
  BY DEF ReadPTY
<1> HIDE DEF c
<1>7. drain' \in DrainRec
  BY <1>5, <1>6 DEF DrainRec
<1>8. due' \in [Viewers -> Sub]
  BY <1>2, <1>5, <1>6 DEF Sub
<1>9. UNCHANGED <<viewers, controller, terminated, stored, child, closer, at, conn, scroll,
         stalls, todo>>
  BY DEF ReadPTY, session
<1> QED BY <1>3, <1>4, <1>7, <1>8, <1>9, Parts, PartsNext

(* Steps that write nothing to the ring. *)
Kept == UNCHANGED <<out, ring>>

(* What a step that changes the session only has to keep. *)
LEMMA TypeSession ==
  ASSUME TypeOK, Kept, UNCHANGED <<conn, scroll, due, stalls, at>>,
         viewers' \subseteq Viewers,
         controller' \in Viewers \cup {None}, terminated' \in BOOLEAN, stored' \in BOOLEAN,
            closer' \in BOOLEAN,
         child' \in {"running", "exited", "killed", "reaped"}, drain' \in DrainRec,
         todo' \in [Actors -> SUBSET Viewers]
  PROVE  TypeOK'
  BY Parts, PartsNext DEF Kept

(* pushControlToAll keeps the type of what is still to be written. *)
LEMMA PushType ==
  ASSUME todo \in [Actors -> SUBSET Viewers], NEW a \in Actors, NEW vs \in SUBSET Viewers,
         PushControlToAll(a, vs)
  PROVE  todo' \in [Actors -> SUBSET Viewers]
  BY DEF PushControlToAll

(* removeViewer keeps the types. *)
LEMMA RemoveType ==
  ASSUME TypeOK, NEW a \in Actors, NEW v \in Viewers, RemoveViewer(a, v)
  PROVE  /\ viewers' \subseteq Viewers /\ controller' \in Viewers \cup {None}
         /\ todo' \in [Actors -> SUBSET Viewers]
<1>1. viewers \subseteq Viewers /\ controller \in Viewers \cup {None}
      /\ todo \in [Actors -> SUBSET Viewers]
  BY Parts
<1>2. CASE v \in viewers /\ controller = v
  BY <1>1, <1>2, PushType DEF RemoveViewer
<1>3. CASE ~(v \in viewers /\ controller = v)
  BY <1>1, <1>3 DEF RemoveViewer
<1> QED BY <1>2, <1>3

(* markTerminated keeps the types. *)
LEMMA MarkType ==
  ASSUME TypeOK, NEW a \in Actors, MarkTerminated(a)
  PROVE  /\ viewers' \subseteq Viewers /\ controller' \in Viewers \cup {None}
            /\ terminated' \in BOOLEAN
         /\ stored' \in BOOLEAN /\ child' \in {"running", "exited", "killed", "reaped"}
         /\ todo' \in [Actors -> SUBSET Viewers]
<1>1. /\ viewers \subseteq Viewers /\ controller \in Viewers \cup {None}
         /\ todo \in [Actors -> SUBSET Viewers]
      /\ terminated \in BOOLEAN /\ stored \in BOOLEAN
         /\ child \in {"running", "exited", "killed", "reaped"}
  BY Parts
<1>2. CASE terminated
  BY <1>1, <1>2 DEF MarkTerminated, session
<1>3. CASE ~terminated
  BY <1>1, <1>3 DEF MarkTerminated
<1> QED BY <1>1, <1>2, <1>3

(* Who writes to connections. *)
LEMMA DrainIsActor ==
  Drain \in Actors /\ Closer \in Actors /\ \A v \in Viewers : v \in Actors
  BY DEF Actors

(* drainPTY keeps the types. *)
LEMMA TypeDrain == ASSUME TypeOK, DrainStep PROVE TypeOK'
<1>0. drain \in DrainRec /\ viewers \subseteq Viewers
  BY Parts
<1>1. CASE Broadcast \/ BroadcastDone
  <2>1. drain' \in DrainRec
    BY <1>0, <1>1 DEF Broadcast, BroadcastDone, DrainRec, Sub
  <2> QED BY <1>1, <2>1, Parts, TypeSession DEF Broadcast, BroadcastDone, Kept, session,
             wire
<1>2. CASE DrainEnds
  <2>1. drain' \in DrainRec
    BY <1>0, <1>2 DEF DrainEnds, DrainRec
  <2> QED BY <1>2, <2>1, Parts, MarkType, DrainIsActor, TypeSession DEF DrainEnds, Kept,
             wire
<1>3. CASE Reap
  BY <1>3, Parts, TypeSession DEF Reap, Kept, wire
<1>4. ASSUME NEW v \in Viewers, BroadcastTo(v) PROVE TypeOK'
  <2>1. drain' \in DrainRec /\ conn \in [Viewers -> Conns] /\ due \in [Viewers -> Sub]
    BY <1>0, <1>4, Parts DEF BroadcastTo, DrainRec
  <2>2. conn' \in [Viewers -> Conns]
    BY <1>4, <2>1 DEF BroadcastTo, Conns
  <2>3. due' \in [Viewers -> Sub]
    BY <1>4, <2>1 DEF BroadcastTo, Sub
  <2>4. viewers' \subseteq Viewers /\ controller' \in Viewers \cup {None}
        /\ todo' \in [Actors -> SUBSET Viewers]
    BY <1>4, Parts, RemoveType, DrainIsActor DEF BroadcastTo
  <2>5. UNCHANGED <<out, ring, terminated, stored, child, closer, at, scroll, stalls>>
    BY <1>4 DEF BroadcastTo
  <2> QED BY <2>1, <2>2, <2>3, <2>4, <2>5, Parts, PartsNext
<1> QED BY <1>1, <1>2, <1>3, <1>4 DEF DrainStep

(* Attach keeps the types. *)
LEMMA TypeAttach ==
  ASSUME TypeOK, RingAt(ring, out), NEW v \in Viewers, Attach(v) PROVE TypeOK'
<1> DEFINE s == Bytes(Snapshot(ring))
<1>0. /\ at \in [Viewers -> Ats] /\ conn \in [Viewers -> Conns]
         /\ scroll \in [Viewers -> Sub]
      /\ due \in [Viewers -> Sub] /\ viewers \subseteq Viewers
         /\ controller \in Viewers \cup {None}
  BY Parts
<1>1. s \in Sub
  BY Parts, SnapshotIn DEF Sub
<1>2. UNCHANGED <<out, ring, terminated, stored, child, drain, closer, stalls, todo>>
  BY DEF Attach
<1>3. CASE terminated
  <2>1. at' \in [Viewers -> Ats] /\ UNCHANGED <<viewers, controller, conn, scroll, due>>
    BY <1>0, <1>3 DEF Attach, Ats
  <2> QED BY <1>2, <2>1, Parts, PartsNext
<1>4. CASE ~terminated
  <2>1. /\ at' = [at EXCEPT ![v] = "replay"] /\ conn' = [conn EXCEPT ![v] = "ok"]
        /\ viewers' = viewers \cup {v}
           /\ controller' = IF controller = None THEN v ELSE controller
        /\ scroll' = [scroll EXCEPT ![v] = s] /\ due' = [due EXCEPT ![v] = s]
    BY <1>4 DEF Attach
  <2> HIDE DEF s
  <2>2. at' \in [Viewers -> Ats] /\ conn' \in [Viewers -> Conns]
        /\ scroll' \in [Viewers -> Sub]
        /\ due' \in [Viewers -> Sub] /\ viewers' \subseteq Viewers
           /\ controller' \in Viewers \cup {None}
    BY <1>0, <1>1, <2>1 DEF Ats, Conns
  <2> QED BY <1>2, <2>2, Parts, PartsNext
<1> QED BY <1>3, <1>4

(* The goroutine of a window keeps the types. *)
LEMMA TypeViewer == ASSUME TypeOK, NEW v \in Viewers, ViewerStep(v) PROVE TypeOK'
<1>0. /\ at \in [Viewers -> Ats] /\ conn \in [Viewers -> Conns]
         /\ scroll \in [Viewers -> Sub]
      /\ due \in [Viewers -> Sub]
  BY Parts
<1>1. CASE Replay(v)
  <2>1. at' \in [Viewers -> Ats] /\ scroll' \in [Viewers -> Sub]
        /\ due' \in [Viewers -> Sub]
    BY <1>0, <1>1 DEF Replay, Ats, Sub
  <2> QED BY <1>1, <2>1, Parts, PartsNext DEF Replay, session
<1>2. CASE ReadFails(v)
  <2>1. at' \in [Viewers -> Ats] /\ due' \in [Viewers -> Sub]
    BY <1>0, <1>2 DEF ReadFails, Ats, Sub
  <2>2. viewers' \subseteq Viewers /\ controller' \in Viewers \cup {None}
        /\ todo' \in [Actors -> SUBSET Viewers]
    BY <1>2, RemoveType, DrainIsActor DEF ReadFails
  <2> QED BY <1>2, <2>1, <2>2, Parts, PartsNext DEF ReadFails
<1>3. CASE Leave(v)
  <2>1. at' \in [Viewers -> Ats] /\ conn' \in [Viewers -> Conns]
    BY <1>0, <1>3 DEF Leave, Ats, Conns
  <2> QED BY <1>3, <2>1, Parts, PartsNext DEF Leave, session
<1>4. CASE HeldEnds(v)
  <2>1. at' \in [Viewers -> Ats]
    BY <1>0, <1>4 DEF HeldEnds, Ats
  <2> QED BY <1>4, <2>1, Parts, PartsNext DEF HeldEnds, session, wire
<1> QED BY <1>1, <1>2, <1>3, <1>4 DEF ViewerStep

(* takeControl and releaseControl keep the types. *)
LEMMA TypeControl ==
  ASSUME TypeOK, NEW v \in Viewers, TakeControl(v) \/ ReleaseControl(v) PROVE TypeOK'
<1>1. todo' \in [Actors -> SUBSET Viewers]
  BY Parts, PushType, DrainIsActor DEF TakeControl, ReleaseControl
<1>2. controller' \in Viewers \cup {None}
  BY DEF TakeControl, ReleaseControl
<1> QED BY <1>1, <1>2, Parts, TypeSession DEF TakeControl, ReleaseControl, Kept, wire

(* The network keeps the types. *)
LEMMA TypeConn ==
  ASSUME TypeOK, NEW v \in Viewers, Lose(v) \/ Stall(v) \/ Resume(v) \/ TCPGivesUp(v)
  PROVE  TypeOK'
<1>0. conn \in [Viewers -> Conns] /\ stalls \in 0..MaxStalls
  BY Parts
<1>1. stalls' \in 0..MaxStalls
  BY <1>0, TermAssumption DEF Lose, Stall, Resume, TCPGivesUp
<1>2. conn' \in [Viewers -> Conns]
  BY <1>0 DEF Lose, Stall, Resume, TCPGivesUp, SetConn, Conns
<1>3. UNCHANGED <<out, ring, viewers, controller, terminated, stored, child, drain, closer,
         at, scroll, due, todo>>
  BY DEF Lose, Stall, Resume, TCPGivesUp, SetConn, session
<1> QED BY <1>1, <1>2, <1>3, Parts, PartsNext

(* A frame that had to wait keeps the types. *)
LEMMA TypeSend == ASSUME TypeOK, NEW a \in Actors, SendStep(a) PROVE TypeOK'
<1>1. PICK v \in Viewers : NotifyEnd(a, v) \/ ControlWritten(a, v)
  BY DEF SendStep
<1>2. todo \in [Actors -> SUBSET Viewers] /\ conn \in [Viewers -> Conns]
      /\ due \in [Viewers -> Sub]
  BY Parts
<1>3. todo' \in [Actors -> SUBSET Viewers]
  BY <1>1, <1>2 DEF NotifyEnd, ControlWritten
<1>4. conn' \in [Viewers -> Conns] /\ due' \in [Viewers -> Sub]
  BY <1>1, <1>2 DEF NotifyEnd, ControlWritten, Conns, Sub, wire
<1>5. UNCHANGED <<out, ring, viewers, controller, terminated, stored, child, drain, closer,
         at, scroll, stalls>>
  BY <1>1 DEF NotifyEnd, ControlWritten, session, wire
<1> QED BY <1>3, <1>4, <1>5, Parts, PartsNext

(* Every step keeps the types, the ring being the end of the output. *)
LEMMA TypeStep == TypeOK /\ RingAt(ring, out) /\ [Next]_vars => TypeOK'
<1> SUFFICES ASSUME TypeOK, RingAt(ring, out), [Next]_vars PROVE TypeOK'
  OBVIOUS
<1>1. CASE CloserReturns \/ EvictedTimer \/ ProcessExits
  BY <1>1, Parts, TypeSession DEF CloserReturns, EvictedTimer, ProcessExits, Kept, session,
     wire
<1>2. CASE Terminate
  BY <1>2, Parts, MarkType, DrainIsActor, TypeSession DEF Terminate, Kept, wire
<1>3. CASE UNCHANGED vars
  BY <1>3, Parts, PartsNext DEF vars
<1> QED BY <1>1, <1>2, <1>3, TypeRead, TypeDrain, TypeAttach, TypeViewer, TypeControl,
           TypeConn, TypeSend DEF Next

(* Every variable keeps its type, for every number of windows and every size of the ring; *)
(* in particular a window is sent only bytes that were read from the PTY, never a cell of *)
(* the ring that was not written (ringBuf.Snapshot, Attach).                              *)
THEOREM TypeCorrect == Spec => []TypeOK
  BY RingInit, RingStep, TypeInit, TypeStep, PTL DEF Spec

(***************************************************************************)
(* The controller                                                          *)
(***************************************************************************)
(* Control points of a window that Attach has registered and that has not left. *)
Staying == {"replay", "pump"}

(* A window is in the set as long as it stays, unless a write of broadcast to it failed; *)
(* a controller has attached; markTerminated comes first in an end; and                  *)
(* ControllerAttached.                                                                   *)
Seated ==
  /\ \A v \in viewers : at[v] \in Staying
  /\ controller # None => at[controller] # "none"
  /\ \A v \in Viewers \ viewers : at[v] \in Staying /\ ~terminated => conn[v] = "failed"
  /\ drain.pc = "end" \/ closer => terminated
  /\ ControllerAttached

(* ControllerAttached is inductive together with these. *)
CInv == TypeOK /\ EndedIsEmpty /\ Seated

(* The types the steps below need. *)
LEMMA SeatParts ==
  ASSUME TypeOK
  PROVE  /\ viewers \subseteq Viewers /\ controller \in Viewers \cup {None}
            /\ None \notin Viewers
         /\ at = [v \in Viewers |-> at[v]] /\ conn = [v \in Viewers |-> conn[v]]
         /\ drain \in DrainRec /\ terminated \in BOOLEAN
  BY Parts, TermAssumption

(* Seated holds initially. *)
LEMMA SeatedInit == Init => Seated
<1> SUFFICES ASSUME Init PROVE Seated
  OBVIOUS
<1> QED BY DEF Init, Seated, Staying, ControllerAttached

(* Nobody comes, goes or takes over. *)
LEMMA SeatedFrame ==
  ASSUME Seated, UNCHANGED <<viewers, controller, at, conn>>,
         terminated => terminated', drain'.pc = "end" \/ closer' => terminated'
  PROVE  Seated'
  BY DEF Seated, ControllerAttached

(* markTerminated empties the set and the controller at once. *)
LEMMA SeatedEnd ==
  ASSUME CInv, NEW a \in Actors, MarkTerminated(a), UNCHANGED <<at, conn>> PROVE Seated'
<1>1. terminated' /\ viewers' = {} /\ controller' = None
  BY DEF MarkTerminated, CInv, EndedIsEmpty, session
<1> QED BY <1>1 DEF Seated, ControllerAttached

(* drainPTY keeps Seated: the window that broadcast removes is one that failed. *)
LEMMA SeatedDrain == ASSUME CInv, DrainStep PROVE Seated'
<1>1. CASE Broadcast \/ BroadcastDone
  <2>1. drain'.pc # "end"
    BY <1>1, SeatParts DEF Broadcast, BroadcastDone, CInv, DrainRec
  <2> QED BY <1>1, <2>1, SeatedFrame DEF Broadcast, BroadcastDone, CInv, Seated, session,
             wire
<1>2. CASE DrainEnds
  BY <1>2, SeatedEnd, DrainIsActor DEF DrainEnds, wire
<1>3. CASE Reap
  BY <1>3, SeatedFrame DEF Reap, CInv, Seated, wire
<1>4. ASSUME NEW v \in Viewers, BroadcastTo(v) PROVE Seated'
  <2>1. drain'.pc = "cast" /\ UNCHANGED <<terminated, closer, at>>
    BY <1>4, SeatParts DEF BroadcastTo, CInv, DrainRec
  <2>2. CASE conn[v] = "ok"
    <3>1. UNCHANGED <<viewers, controller, conn>>
      BY <1>4, <2>2, SeatParts DEF BroadcastTo, CInv
    <3> QED BY <2>1, <3>1, SeatedFrame DEF CInv, Seated
  <2>3. CASE conn[v] # "ok"
    <3>1. /\ viewers' = viewers \ {v} /\ conn' = [conn EXCEPT ![v] = "failed"]
          /\ controller' = IF v \in viewers /\ controller = v THEN None ELSE controller
      BY <1>4, <2>3, SeatParts DEF BroadcastTo, RemoveViewer, CInv
    <3>2. \A u \in Viewers : conn'[u] = IF u = v THEN "failed" ELSE conn[u]
      BY <3>1, SeatParts DEF CInv
    <3>3. controller' # None => controller' = controller
      BY <3>1
    <3>4. ControllerAttached'
      BY <3>1, <3>2, <3>3, SeatParts DEF CInv, Seated, ControllerAttached
    <3>5. \A u \in Viewers \ viewers' : at[u] \in Staying /\ ~terminated
          => conn'[u] = "failed"
      BY <3>1, <3>2 DEF CInv, Seated
    <3> QED BY <2>1, <3>1, <3>3, <3>4, <3>5 DEF CInv, Seated
  <2> QED BY <2>2, <2>3
<1> QED BY <1>1, <1>2, <1>3, <1>4 DEF DrainStep

(* Attach keeps Seated. *)
LEMMA SeatedAttach == ASSUME CInv, NEW v \in Viewers, Attach(v) PROVE Seated'
<1>0. at[v] = "none" /\ UNCHANGED <<terminated, drain, closer>>
  BY DEF Attach
<1>1. v \notin viewers /\ controller # v
  BY <1>0, SeatParts DEF CInv, Seated, Staying
<1>2. CASE terminated
  <2>1. UNCHANGED <<viewers, controller, conn>> /\ at' = [at EXCEPT ![v] = "held"]
    BY <1>2 DEF Attach
  <2>2. viewers = {} /\ controller = None
    BY <1>2 DEF CInv, EndedIsEmpty
  <2> QED BY <1>0, <1>2, <2>1, <2>2 DEF Seated, ControllerAttached
<1>3. CASE ~terminated
  <2>1. /\ at' = [at EXCEPT ![v] = "replay"] /\ conn' = [conn EXCEPT ![v] = "ok"]
        /\ viewers' = viewers \cup {v}
           /\ controller' = IF controller = None THEN v ELSE controller
    BY <1>3 DEF Attach
  <2>2. \A u \in Viewers : /\ at'[u] = IF u = v THEN "replay" ELSE at[u]
                           /\ conn'[u] = IF u = v THEN "ok" ELSE conn[u]
    BY <2>1, SeatParts DEF CInv
  <2>3. ControllerAttached'
    BY <1>1, <2>1, <2>2, SeatParts DEF CInv, Seated, ControllerAttached
  <2>4. /\ \A u \in viewers' : at'[u] \in Staying
        /\ \A u \in Viewers \ viewers' : at'[u] \in Staying /\ ~terminated
           => conn'[u] = "failed"
    BY <2>1, <2>2, SeatParts DEF CInv, Seated, Staying
  <2>5. controller' # None => at'[controller'] # "none"
    BY <1>1, <2>1, <2>2, SeatParts DEF CInv, Seated
  <2> QED BY <1>0, <2>3, <2>4, <2>5 DEF CInv, Seated
<1> QED BY <1>2, <1>3

(* The goroutine of a window keeps Seated: it leaves the set when it leaves. *)
LEMMA SeatedViewer == ASSUME CInv, NEW v \in Viewers, ViewerStep(v) PROVE Seated'
<1>1. CASE Replay(v)
  <2>1. /\ at[v] = "replay" /\ at' = [at EXCEPT ![v] = "pump"]
        /\ UNCHANGED <<viewers, controller, terminated, drain, closer, conn>>
    BY <1>1 DEF Replay, session
  <2>2. \A u \in Viewers : at'[u] = IF u = v THEN "pump" ELSE at[u]
    BY <2>1, SeatParts DEF CInv
  <2> QED BY <2>1, <2>2, SeatParts DEF CInv, Seated, Staying, ControllerAttached
<1>2. CASE ReadFails(v)
  <2>1. /\ at' = [at EXCEPT ![v] = "leave"] /\ viewers' = viewers \ {v}
        /\ controller' = IF v \in viewers /\ controller = v THEN None ELSE controller
        /\ UNCHANGED <<terminated, drain, closer, conn>>
    BY <1>2 DEF ReadFails, RemoveViewer
  <2>2. \A u \in Viewers : at'[u] = IF u = v THEN "leave" ELSE at[u]
    BY <2>1, SeatParts DEF CInv
  <2>3. ControllerAttached'
    BY <2>1, SeatParts DEF CInv, Seated, ControllerAttached
  <2> QED BY <2>1, <2>2, <2>3, SeatParts DEF CInv, Seated, Staying
<1>3. CASE Leave(v)
  <2>1. /\ at[v] = "leave" /\ at' = [at EXCEPT ![v] = "gone"]
        /\ conn' = [conn EXCEPT ![v] = IF conn[v] = "failed" THEN conn[v] ELSE "closed"]
        /\ UNCHANGED <<viewers, controller, terminated, drain, closer>>
    BY <1>3 DEF Leave, session
  <2>2. \A u \in Viewers : /\ at'[u] = IF u = v THEN "gone" ELSE at[u]
                           /\ conn[u] = "failed" => conn'[u] = "failed"
    BY <2>1, SeatParts DEF CInv
  <2>3. ControllerAttached'
    BY <2>1, <2>2, SeatParts DEF CInv, Seated, ControllerAttached
  <2> QED BY <2>1, <2>2, <2>3, SeatParts DEF CInv, Seated, Staying
<1>4. CASE HeldEnds(v)
  <2>1. /\ at[v] = "held" /\ at' = [at EXCEPT ![v] = "gone"]
        /\ UNCHANGED <<viewers, controller, terminated, drain, closer, conn>>
    BY <1>4 DEF HeldEnds, session, wire
  <2>2. \A u \in Viewers : at'[u] = IF u = v THEN "gone" ELSE at[u]
    BY <2>1, SeatParts DEF CInv
  <2> QED BY <2>1, <2>2, SeatParts DEF CInv, Seated, Staying, ControllerAttached
<1> QED BY <1>1, <1>2, <1>3, <1>4 DEF ViewerStep

(* takeControl does not ask whether the window is still attached: when it is not, *)
(* a write of broadcast to it had failed. *)
LEMMA SeatedControl ==
  ASSUME CInv, NEW v \in Viewers, TakeControl(v) \/ ReleaseControl(v)
  PROVE  Seated'
<1>1. UNCHANGED <<viewers, terminated, drain, closer, at, conn>> /\ at[v] = "pump"
  BY DEF TakeControl, ReleaseControl, Pumping, wire
<1>2. CASE TakeControl(v)
  <2>1. controller' = v /\ ~terminated
    BY <1>2 DEF TakeControl
  <2> QED BY <1>1, <2>1 DEF CInv, Seated, Staying, ControllerAttached
<1>3. CASE ReleaseControl(v)
  BY <1>1, <1>3 DEF ReleaseControl, CInv, Seated, ControllerAttached
<1> QED BY <1>2, <1>3

(* The network keeps Seated: a failed connection does not come back. *)
LEMMA SeatedConn ==
  ASSUME CInv, NEW v \in Viewers, Lose(v) \/ Stall(v) \/ Resume(v) \/ TCPGivesUp(v)
  PROVE  Seated'
<1>1. UNCHANGED <<viewers, controller, terminated, drain, closer, at>>
  BY DEF Lose, Stall, Resume, TCPGivesUp, SetConn, session
<1>2. \A u \in Viewers : conn[u] = "failed" => conn'[u] = "failed"
  BY SeatParts DEF Lose, Stall, Resume, TCPGivesUp, SetConn, CInv
<1> QED BY <1>1, <1>2, SeatParts DEF CInv, Seated, ControllerAttached

(* A frame that had to wait keeps Seated: end frames are sent after markTerminated. *)
LEMMA SeatedSend == ASSUME CInv, NEW a \in Actors, SendStep(a) PROVE Seated'
<1>1. PICK v \in Viewers : NotifyEnd(a, v) \/ ControlWritten(a, v)
  BY DEF SendStep
<1>2. CASE NotifyEnd(a, v)
  <2>1. UNCHANGED <<viewers, controller, terminated, drain, closer, at>>
    BY <1>2 DEF NotifyEnd, session
  <2>2. terminated /\ viewers = {} /\ controller = None
    BY <1>2 DEF NotifyEnd, Ending, CInv, Seated, EndedIsEmpty
  <2> QED BY <2>1, <2>2 DEF Seated, ControllerAttached
<1>3. CASE ControlWritten(a, v)
  BY <1>3, SeatedFrame DEF ControlWritten, CInv, Seated, session, wire
<1> QED BY <1>1, <1>2, <1>3

(* Every step keeps Seated. *)
LEMMA SeatedStep == CInv /\ [Next]_vars => Seated'
<1> SUFFICES ASSUME CInv, [Next]_vars PROVE Seated'
  OBVIOUS
<1>1. ASSUME NEW n \in ChunkSizes, ReadPTY(n) PROVE Seated'
  <2>1. drain'.pc = "wrote"
        /\ UNCHANGED <<viewers, controller, terminated, closer, at, conn>>
    BY <1>1 DEF ReadPTY, session
  <2> QED BY <2>1, SeatedFrame DEF CInv, Seated
<1>2. CASE CloserReturns \/ EvictedTimer \/ ProcessExits
  BY <1>2, SeatedFrame DEF CloserReturns, EvictedTimer, ProcessExits, CInv, Seated,
     session, wire
<1>3. CASE Terminate
  BY <1>3, SeatedEnd, DrainIsActor DEF Terminate, wire
<1>4. CASE UNCHANGED vars
  BY <1>4, SeatedFrame DEF vars, CInv, Seated
<1> QED BY <1>1, <1>2, <1>3, <1>4, SeatedDrain, SeatedAttach, SeatedViewer, SeatedControl,
           SeatedConn, SeatedSend DEF Next

(* A terminal is never controlled by nobody: the controller is attached, or is a window   *)
(* to which a write of the output failed, whatever windows attach, stall, leave, take and *)
(* release control in whatever order (removeViewer, takeControl, markTerminated).         *)
THEOREM ControllerSeated == Spec => []ControllerAttached
<1>1. Init => EndedIsEmpty
  BY DEF Init, EndedIsEmpty
<1>2. CInv <=> TypeOK /\ EndedIsEmpty /\ Seated
  BY DEF CInv
<1>3. Seated => ControllerAttached
  BY DEF Seated
<1> QED BY <1>1, <1>2, <1>3, TypeCorrect, EndStays, SeatedInit, SeatedStep, PTL DEF Spec
=============================================================================
