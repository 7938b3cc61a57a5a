----------------------------- MODULE MCLXDBackup -----------------------------
(***************************************************************************)
(* LXDBackup on small instances.                                           *)
(***************************************************************************)
EXTENDS LXDBackup, TLC

CONSTANTS da, db, lauto, root, block, j1, j2, none

MCParts == <<root, block>>

\* Each destination has a prefix of its own.
MCLabelOf == [d \in Dests |-> d]

\* No prefix begins with another one.
MCCovers == [l \in Label |-> {l}]
=============================================================================
