--------------------------- MODULE MCTermSession ---------------------------
(***************************************************************************)
(* TermSession on a small instance: two connections, a ring of three bytes.*)
(***************************************************************************)
EXTENDS TermSession

CONSTANTS v1, v2, none, pump, closing
=============================================================================
