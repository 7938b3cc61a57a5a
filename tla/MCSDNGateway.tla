---------------------------- MODULE MCSDNGateway ----------------------------
(* Two gateways: a PPPoE link that is preferred, and a second WAN that is   *)
(* monitored or not.                                                        *)
EXTENDS SDNGateway

CONSTANTS ppp, wan

MCKind == [g \in {ppp, wan} |-> IF g = ppp THEN "pppoe" ELSE "static"]

G(id, monitor, prio) == [id |-> id, monitor |-> monitor, prio |-> prio]

Both      == <<G(ppp, TRUE, 1), G(wan, TRUE, 2)>>
Spare     == <<G(ppp, TRUE, 1), G(wan, FALSE, 2)>>
OnlyPPP   == <<G(ppp, TRUE, 1)>>
MCBoth    == {Both}
MCSpare   == {Spare, OnlyPPP, <<>>}
=============================================================================
