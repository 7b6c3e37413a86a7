---------------------------- MODULE FileDelivery ----------------------------
(***************************************************************************)
(* What the out-of-band channel promises a user who hands a BIOS           *)
(* configuration or SMBIOS file to the BMC: the file is stored in the BIOS *)
(* ROM at most once, and only after the BMC has given it up. It may be     *)
(* lost; it is never delivered twice.                                      *)
(***************************************************************************)
CONSTANT Image          \* the files users submit, each submitted once

VARIABLE fate           \* what has become of every file

Fate == {"new", "offered", "taken", "stored", "lost"}

Init == fate = [i \in Image |-> "new"]

\* The user hands file i to the BMC.
Offer(i) == fate[i] = "new" /\ fate' = [fate EXCEPT ![i] = "offered"]

\* The BMC gives file i up to the BIOS.
Take(i) == fate[i] = "offered" /\ fate' = [fate EXCEPT ![i] = "taken"]

\* The BIOS writes file i to the ROM.
Store(i) == fate[i] = "taken" /\ fate' = [fate EXCEPT ![i] = "stored"]

\* The BMC drops file i, or the BIOS fails before it is in the ROM.
Lose(i) == fate[i] \in {"offered", "taken"} /\ fate' = [fate EXCEPT ![i] = "lost"]

Next == \E i \in Image : Offer(i) \/ Take(i) \/ Store(i) \/ Lose(i)

Spec == Init /\ [][Next]_fate
=============================================================================
