------------------------------ MODULE RomHole ------------------------------
(***************************************************************************)
(* The SMC ROM hole as its callers see it: a map from regions to contents  *)
(* and what one call of SmcRomHoleWriteRegion can leave behind. The flash  *)
(* is NOR: Erase turns a block to 0xFF, programming only clears bits. One  *)
(* call rewrites the whole hole, in the order of SMC_ROM_HOLE_MAP.         *)
(* SmcRomHole.tla is the procedure these results abstract.                 *)
(***************************************************************************)
EXTENDS Naturals, Sequences

CONSTANTS
  Blank,          \* a region whose bytes are all 0xFF
  Torn            \* a region that is partly erased or partly programmed

\* SMC_ROM_HOLE_MAP.
Layout == <<"OA3", "OA2", "SMBIOS_FOR_BMC", "AFU_CMD", "INBAND",
            "CURRENT_SMBIOS", "PREVIOUS_SMBIOS">>

Region == {"OA3", "OA2", "SMBIOS_FOR_BMC", "AFU_CMD", "INBAND",
           "CURRENT_SMBIOS", "PREVIOUS_SMBIOS"}

Before(k) == {Layout[i] : i \in 1..k}

\* The hole after Erase.
Erased == [r \in Region |-> Blank]

\* Content new programmed into a region that holds content old.
Program(old, new) ==
  IF old \in {new, Blank} THEN new ELSE IF new = Blank THEN old ELSE Torn

\* The merged image that a successful write of region r leaves.
WriteRegion(rom, r, content) == [rom EXCEPT ![r] = content]

\* A pass over the blocks that turned image b into image a, stopped in region
\* k+1: before that region was touched, or halfway through it.
Stopped(a, b) ==
  {[r \in Region |-> IF r \in Before(k) THEN a[r]
                     ELSE IF torn /\ r = Layout[k + 1] THEN Torn ELSE b[r]] :
     k \in 0..6, torn \in BOOLEAN}

\* What a call with one failing flash operation, or a power loss in it, leaves
\* of the image rom it was to replace by new: the erase was stopped, the
\* programming was stopped, or the erase was stopped and the handler of the
\* software SMI, which ignores this, went on to program every block.
FailedWrites(rom, new) ==
  LET overlay == [r \in Region |-> Program(rom[r], new[r])]
  IN  Stopped(Erased, rom) \cup Stopped(new, Erased) \cup Stopped(new, overlay)
=============================================================================
