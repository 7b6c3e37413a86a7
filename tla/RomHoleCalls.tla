---------------------------- MODULE RomHoleCalls ----------------------------
(***************************************************************************)
(* What a caller may rely on when it writes a region of the ROM hole: the  *)
(* call replaces that region and no other, or it fails and leaves one of   *)
(* the images of FailedWrites.                                             *)
(***************************************************************************)
EXTENDS RomHole

CONSTANTS
  Content,        \* region contents that callers write
  Target          \* regions that callers write

VARIABLE rom

Init == rom = Erased

Write(r, c) ==
  LET new == WriteRegion(rom, r, c)
  IN  rom' = new \/ rom' \in FailedWrites(rom, new)

Next == \E r \in Target, c \in Content : Write(r, c)

Spec == Init /\ [][Next]_rom
=============================================================================
