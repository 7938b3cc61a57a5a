---------------------------- MODULE MCSDNCommit ----------------------------
(* Instances of SDNCommit for TLC: the default configuration, two that      *)
(* differ in their owned interface and one that differs from c1 only in its *)
(* rules.                                                                   *)
EXTENDS SDNCommit

CONSTANTS c0, c1, c2, c3, s1, s2

MCConfig == {c0, c1, c2}
MCStanza == {s1, s2}
MCOwned  == [c \in MCConfig |-> CASE c = c0 -> {} [] c = c1 -> {s1} [] c = c2 -> {s2}]

MCRuleConfig == {c0, c1, c3}
MCRuleOwned  == [c \in MCRuleConfig |-> IF c = c0 THEN {} ELSE {s1}]
=============================================================================
