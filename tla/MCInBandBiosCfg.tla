-------------------------- MODULE MCInBandBiosCfg --------------------------
(* InBandBiosCfg for TLC: two variables on the platform's list, one that is *)
(* not, one listed variable that does not exist, and three virtual drives.  *)
EXTENDS InBandBiosCfg

CONSTANTS p, q, absent, other, raidcmd, d0, d1, d2, misfit, none, A, B, C

MCVar == {p, q, absent, other, raidcmd}
MCPlatformVar == {p, q, absent}
MCData == {d0, d1, d2}
MCDefault == [v \in MCVar \ {raidcmd} |-> IF v = absent THEN none ELSE d0]
MCArrays == <<A, B, C>>

Rec(v, d) == [var |-> v, data |-> d]
Update(recs) == [flag |-> "update", recs |-> recs, torn |-> 0]

\* A variable set twice; records that are not accepted; drives of the menu whose
\* numbers shift when the first is deleted, and a second record of RaidCmd.
MCFiles ==
  {Update(<<Rec(p, d1), Rec(q, d1), Rec(p, d2)>>),
   Update(<<Rec(other, d1), Rec(q, misfit), Rec(absent, d1)>>),
   Update(<<Rec(raidcmd, <<<<1>>, <<2, 3>>>>), Rec(raidcmd, <<<<3>>>>)>>),
   [flag |-> "default", recs |-> <<Rec(p, d1)>>, torn |-> 0],
   [flag |-> "idle", recs |-> <<Rec(p, d1)>>, torn |-> 0]}
=============================================================================
