---------------------------- MODULE MCRaidDriver ----------------------------
(* RaidDriver for TLC: three cards, the second without set-up variables;    *)
(* store x is applied by an item of its form, store y is not.               *)
EXTENDS RaidDriver

CONSTANTS x, y, cmd, v1, v2, zero, nocmd, misfit

MCLsiVar == {x, y}
MCVarsOf == <<<<x, y>>, <<>>, <<y, x>>>>
MCApplied == {x}
MCValue == {v1, v2, zero, nocmd}

Rec(c, n, d) == [card |-> c, var |-> n, data |-> d]

\* A store set on two cards, twice on one; records that are not collected; a
\* record that equals the setting before one that does not.
MCFiles ==
  {<<Rec(1, x, v2), Rec(3, x, zero), Rec(1, x, zero)>>,
   <<Rec(1, x, misfit), Rec(2, x, v2), Rec(3, y, v2)>>,
   <<Rec(1, y, v2), Rec(1, x, v1), Rec(1, x, v2), Rec(3, x, v2)>>,
   <<Rec(2, x, v2), Rec(3, cmd, v1), Rec(1, cmd, nocmd), Rec(3, cmd, v2)>>,
   <<Rec(2, cmd, v2)>>}
=============================================================================
