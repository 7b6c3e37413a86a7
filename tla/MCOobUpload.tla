---------------------------- MODULE MCOobUpload ----------------------------
(* The instance of OobUpload that TLC explores: one file compared by MD5    *)
(* and the feature flags, whose headers cannot tell c2 from c3.             *)
EXTENDS OobUpload

CONSTANTS c1, c2, c3

MCUploads == <<"BIN", "FEATURE">>

MCContent == {c1, c2, c3}

MCFingerprint == MCContent

MCDigest ==
  [t \in {"BIN", "FEATURE"} |->
     [c \in MCContent |-> IF t = "FEATURE" /\ c = c3 THEN c2 ELSE c]]
=============================================================================
