--------------------------- MODULE MCOobDownload ---------------------------
(* The instance of OobDownload that TLC explores.                          *)
EXTENDS OobDownload, TLC

CONSTANTS i1, i2

MCImage == {i1, i2}

\* The files are alike to the safety properties.
MCSymmetry == Permutations(MCImage)
=============================================================================
