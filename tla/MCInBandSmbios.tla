--------------------------- MODULE MCInBandSmbios ---------------------------
(* The instance of InBandSmbios that TLC explores: a string of one SMBIOS  *)
(* structure and a number of another.                                      *)
EXTENDS InBandSmbios

CONSTANTS t0, t1

MCFields == <<"serial", "height">>

MCText == {t0, t1}

MCStringField == {"serial"}

MCType == [f \in {"serial", "height"} |-> IF f = "serial" THEN 1 ELSE 3]

MCFactory == [f \in {"serial", "height"} |-> t0]
=============================================================================
