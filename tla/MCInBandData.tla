---------------------------- MODULE MCInBandData ----------------------------
(* InBandData for TLC: areas of three, two and three blocks of 128 KB, as   *)
(* in the memory map of SmcInBand.h, and a tool with a buffer of two.       *)
EXTENDS InBandData
=============================================================================
