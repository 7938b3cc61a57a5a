--------------------------- MODULE MCSnapSchedule ---------------------------
(***************************************************************************)
(* SnapSchedule on small instances: a policy that replicates to a linked   *)
(* server and may be moved to another dataset there, and one that          *)
(* replicates to a local dataset.                                          *)
(***************************************************************************)
EXTENDS SnapSchedule, TLC

CONSTANTS p1, p2, auto, db, near, far, other, nodest

Settings(l, k, n, r) == [label |-> l, keep |-> k, local |-> n, remote |-> r]

MCForms == (p1 :> {Settings(auto, 1, nodest, far), Settings(auto, 2, nodest, other)})
        @@ (p2 :> {Settings(db, 2, near, nodest)})

\* The names of db's snapshots begin with the label auto as well.
MCCovers == (auto :> {auto, db}) @@ (db :> {db})

MCFirst == <<p1>>

\* The hypotheses of the theorems about retention and replication.
ASSUME Respected == Prudent /\ DestApart
=============================================================================
