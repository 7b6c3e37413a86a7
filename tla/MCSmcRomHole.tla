---------------------------- MODULE MCSmcRomHole ----------------------------
(* The instance of SmcRomHole that TLC explores.                           *)
EXTENDS SmcRomHole

CONSTANT a

MCContent == {Blank, a}

MCTarget == {"OA3", "INBAND"}
=============================================================================
