----------------------------- MODULE SmcRomHole -----------------------------
(***************************************************************************)
(* SmcRomHoleWriteRegion, block by block: the DXE library (SmcRomHole.c),  *)
(* which asks the handler of software SMI 0xE9 (SmcSwSmiFlashSmm.c) to     *)
(* program the flash and does it itself when the SMI cannot be raised, and *)
(* the SMM library (SmcRomHoleSmm.c). The flash driver is external: its    *)
(* Erase and Write pass over the hole in address order. A call names one   *)
(* region; the FULL_REGION call, whose one caller is the restore of the    *)
(* Bakerville platform, is WriteFull of module OobDownload.                *)
(***************************************************************************)
EXTENDS RomHole

CONSTANTS
  Content,        \* region contents that callers write
  Target,         \* regions that callers write
  MaxLeak         \* bound: calls that return without DeviceWriteDisable

ASSUME RomHoleAssumption ==
  /\ Target \subseteq Region
  /\ Blank \in Content /\ Torn \notin Content
  /\ MaxLeak \in Nat

VARIABLES
  flash,                 \* the regions of the hole
  pc,                    \* the next step of the call
  path,                  \* who programs the flash: "dxe", "smi" or "smm"
  op,                    \* Operation: the region to write
  arg,                   \* pBuffer: its new content
  TempBuffer,            \* the merged image
  pos,                   \* the regions the current pass has finished
  faulty,                \* 1 if a flash operation of this call has failed
  WriteEnableCounter,    \* of the DXE and of the SMM instance of the driver
  DisableSmcSwSmiFlash,  \* 1 once the OS was about to boot
  before,                \* history: the hole when the call began
  leaked,                \* history: the calls that returned with writes enabled
  status                 \* history: what the last call returned

callVars  == <<op, arg, before>>
driverVar == <<WriteEnableCounter, leaked>>
vars == <<flash, pc, path, callVars, TempBuffer, pos, faulty, driverVar,
          DisableSmcSwSmiFlash, status>>

Size == Len(Layout)

\* SmcSwSmiFlashSmm.c and SmcRomHoleSmm.c use the SMM instance of the driver.
Driver(p) == IF p = "dxe" THEN "dxe" ELSE "smm"

TypeOK ==
  /\ flash \in [Region -> Content \cup {Torn}]
  /\ pc \in {"idle", "read", "trigger", "enable", "erase", "write", "disable"}
  /\ path \in {"dxe", "smi", "smm"}
  /\ op \in Region /\ arg \in Content
  /\ TempBuffer \in [Region -> Content \cup {Torn}]
  /\ pos \in 0..Size
  /\ faulty \in {0, 1}
  /\ WriteEnableCounter \in [{"dxe", "smm"} -> 0..(MaxLeak + 1)]
  /\ DisableSmcSwSmiFlash \in {0, 1}
  /\ before \in [Region -> Content \cup {Torn}]
  /\ leaked \in [{"dxe", "smm"} -> 0..MaxLeak]
  /\ status \in {"none", "success", "error"}

Init ==
  /\ flash = Erased /\ before = Erased /\ TempBuffer = Erased
  /\ pc = "idle" /\ path = "dxe" /\ op = "OA3" /\ arg = Blank
  /\ pos = 0 /\ faulty = 0
  /\ WriteEnableCounter = [d \in {"dxe", "smm"} |-> 0]
  /\ leaked = [d \in {"dxe", "smm"} |-> 0]
  /\ DisableSmcSwSmiFlash = 0 /\ status = "none"

-----------------------------------------------------------------------------
(* The call.                                                               *)

\* FreeBuffer and return.
Return(s) ==
  /\ pc' = "idle" /\ status' = s /\ pos' = 0
  /\ TempBuffer' = Erased

\* An error return between DeviceWriteEnable and DeviceWriteDisable.
ReturnEnabled ==
  /\ leaked[Driver(path)] < MaxLeak
  /\ leaked' = [leaked EXCEPT ![Driver(path)] = @ + 1]
  /\ Return("error")

\* A driver of the POST, or the SMI handlers of SmcInBandSmm.c, call it.
Call(p, r, c) ==
  /\ pc = "idle" /\ status' = "none"
  /\ path' = p /\ op' = r /\ arg' = c /\ before' = flash
  /\ pc' = IF p = "dxe" THEN "read" ELSE "enable"
  /\ pos' = 0 /\ faulty' = 0
  /\ UNCHANGED <<flash, TempBuffer, driverVar, DisableSmcSwSmiFlash>>

\* Mutant of Read: the other regions are not read first.
ReadNothing ==
  /\ pc = "read"
  /\ TempBuffer' = WriteRegion(Erased, op, arg)
  /\ \/ path = "dxe" /\ pc' \in {"trigger", "enable"}
     \/ path = "smm" /\ pc' = "erase"
  /\ UNCHANGED <<flash, path, callVars, pos, faulty, driverVar, DisableSmcSwSmiFlash, status>>

\* The hole is read and the new content is copied over its region. In SMM the
\* copy follows the erase, which does not touch the buffer.
Read ==
  /\ pc = "read"
  /\ TempBuffer' = WriteRegion(flash, op, arg)
  /\ \/ path = "dxe" /\ pc' \in {"trigger", "enable"}
     \/ path = "smm" /\ pc' = "erase"
  /\ UNCHANGED <<flash, path, callVars, pos, faulty, driverVar, DisableSmcSwSmiFlash, status>>

\* DeviceWriteEnable returns an error before it has counted the call, or in SMM
\* AllocateBuffer fails or SmcFlash is NULL. The SMI handler looks at no status.
EnableFails ==
  /\ pc = "enable" /\ path # "smi"
  /\ Return("error")
  /\ UNCHANGED <<flash, path, callVars, faulty, driverVar, DisableSmcSwSmiFlash>>

\* The read fails, or in DXE one of the checks before it. In SMM the writes are
\* enabled by now and stay so.
ReadFails ==
  /\ pc = "read"
  /\ IF path = "smm" THEN ReturnEnabled ELSE Return("error") /\ UNCHANGED leaked
  /\ UNCHANGED <<flash, path, callVars, faulty, WriteEnableCounter,
                 DisableSmcSwSmiFlash>>

\* gSmcSwSmiFlashProtocolGuid is installed (else pc is "enable" after Read).
Trigger ==
  /\ pc = "trigger"
  /\ DisableSmcSwSmiFlash = 0
  /\ path' = "smi" /\ pc' = "enable"
  /\ UNCHANGED <<flash, callVars, TempBuffer, pos, faulty, driverVar,
                 DisableSmcSwSmiFlash, status>>

\* The SMI is raised, its handler does nothing: it is disabled, or it cannot
\* find the flash protocol. The caller sees a success.
TriggerIgnored ==
  /\ pc = "trigger"
  /\ path' = "smi"
  /\ Return("success")
  /\ UNCHANGED <<flash, callVars, faulty, driverVar, DisableSmcSwSmiFlash>>

\* "If can't trigger SW SMI, write ROM part directly."
TriggerFails ==
  /\ pc = "trigger"
  /\ pc' = "enable"
  /\ UNCHANGED <<flash, path, callVars, TempBuffer, pos, faulty, driverVar,
                 DisableSmcSwSmiFlash, status>>

DeviceWriteEnable ==
  /\ pc = "enable"
  /\ WriteEnableCounter' = [WriteEnableCounter EXCEPT ![Driver(path)] = @ + 1]
  /\ pc' = IF path = "smm" THEN "read" ELSE "erase"
  /\ UNCHANGED <<flash, path, callVars, TempBuffer, pos, faulty, leaked,
                 DisableSmcSwSmiFlash, status>>

\* The pass stops in region r, which it was to turn into content c: a region
\* that it would not change is not torn.
Stop(r, c) ==
  flash' \in {flash} \cup {[flash EXCEPT ![r] = IF c = flash[r] THEN c ELSE Torn]}

Erase ==
  /\ pc = "erase"
  /\ flash' = [flash EXCEPT ![Layout[pos + 1]] = Blank]
  /\ pos' = IF pos + 1 < Size THEN pos + 1 ELSE 0
  /\ pc' = IF pos + 1 < Size THEN "erase" ELSE "write"
  /\ UNCHANGED <<path, callVars, TempBuffer, faulty, driverVar,
                 DisableSmcSwSmiFlash, status>>

\* Mutant of EraseFails: the libraries do not look at the status either.
EraseFailsUnnoticed ==
  /\ pc = "erase"
  /\ Stop(Layout[pos + 1], Blank)
  /\ faulty' = 1
  /\ pc' = "write" /\ pos' = 0
  /\ UNCHANGED <<path, callVars, TempBuffer, driverVar, DisableSmcSwSmiFlash, status>>

\* The SMI handler does not look at the status; the libraries return.
EraseFails ==
  /\ pc = "erase"
  /\ Stop(Layout[pos + 1], Blank)
  /\ faulty' = 1
  /\ IF path = "smi" THEN pc' = "write" /\ pos' = 0 /\ UNCHANGED <<leaked, status, TempBuffer>>
                     ELSE ReturnEnabled
  /\ UNCHANGED <<path, callVars, WriteEnableCounter, DisableSmcSwSmiFlash>>

Write ==
  /\ pc = "write"
  /\ LET r == Layout[pos + 1]
     IN  flash' = [flash EXCEPT ![r] = Program(flash[r], TempBuffer[r])]
  /\ pos' = IF pos + 1 < Size THEN pos + 1 ELSE 0
  /\ pc' = IF pos + 1 < Size THEN "write" ELSE "disable"
  /\ UNCHANGED <<path, callVars, TempBuffer, faulty, driverVar,
                 DisableSmcSwSmiFlash, status>>

\* Mutant of WriteFails: the SMI handler returns on an error.
WriteFailsReturns ==
  /\ pc = "write"
  /\ faulty = 0 /\ faulty' = 1
  /\ Stop(Layout[pos + 1], TempBuffer[Layout[pos + 1]])
  /\ IF path = "smi" THEN Return("success") /\ UNCHANGED leaked ELSE ReturnEnabled
  /\ UNCHANGED <<path, callVars, WriteEnableCounter, DisableSmcSwSmiFlash>>

WriteFails ==
  /\ pc = "write"
  /\ faulty = 0 /\ faulty' = 1
  /\ Stop(Layout[pos + 1], TempBuffer[Layout[pos + 1]])
  /\ IF path = "smi" THEN pc' = "disable" /\ pos' = 0 /\ UNCHANGED <<leaked, status, TempBuffer>>
                     ELSE ReturnEnabled
  /\ UNCHANGED <<path, callVars, WriteEnableCounter, DisableSmcSwSmiFlash>>

\* Mutant of DeviceWriteDisable: it is not called.
DeviceWriteDisableMissing ==
  /\ pc = "disable"
  /\ Return("success")
  /\ UNCHANGED <<flash, path, callVars, faulty, driverVar, DisableSmcSwSmiFlash>>

DeviceWriteDisable ==
  /\ pc = "disable"
  /\ WriteEnableCounter' = [WriteEnableCounter EXCEPT ![Driver(path)] = @ - 1]
  /\ Return("success")
  /\ UNCHANGED <<flash, path, callVars, faulty, leaked, DisableSmcSwSmiFlash>>

-----------------------------------------------------------------------------
(* The environment.                                                        *)

\* UnregisterSwSmiE9BeforeOsBoot.
UnregisterSwSmiE9 ==
  /\ pc = "idle"
  /\ DisableSmcSwSmiFlash' = 1
  /\ UNCHANGED <<flash, pc, path, callVars, TempBuffer, pos, faulty, driverVar, status>>

\* Power loss or reset; in the middle of a pass a region may be torn. A call
\* in which a flash operation has failed is not cut off as well.
Reset ==
  /\ pc = "idle" \/ faulty = 0
  /\ CASE pc = "erase" -> Stop(Layout[pos + 1], Blank)
       [] pc = "write" -> Stop(Layout[pos + 1], TempBuffer[Layout[pos + 1]])
       [] OTHER        -> UNCHANGED flash
  /\ Return("none")
  /\ WriteEnableCounter' = [d \in {"dxe", "smm"} |-> 0]
  /\ leaked' = [d \in {"dxe", "smm"} |-> 0]
  /\ DisableSmcSwSmiFlash' = 0
  /\ UNCHANGED <<path, callVars, faulty>>

-----------------------------------------------------------------------------
Step ==
  \/ EnableFails \/ Read \/ ReadFails \/ Trigger \/ TriggerIgnored \/ TriggerFails
  \/ DeviceWriteEnable \/ Erase \/ EraseFails \/ Write \/ WriteFails
  \/ DeviceWriteDisable

Next ==
  \/ \E p \in {"dxe", "smm"}, r \in Target, c \in Content : Call(p, r, c)
  \/ Step \/ UnregisterSwSmiE9 \/ Reset

Spec == Init /\ [][Next]_vars

-----------------------------------------------------------------------------
(* Properties.                                                             *)

Calls == INSTANCE RomHoleCalls WITH rom <- IF pc = "idle" THEN flash ELSE before

\* Seen from outside, the erase of the whole hole and the passes over its blocks
\* are one write of one region: wherever a call ends, is cut off or goes on
\* after an error, the other regions are as FailedWrites says.
WritesOneRegion == Calls!Spec

\* A call that programmed the flash itself, and not through the SMI, and that
\* returns EFI_SUCCESS has replaced its region and kept the others.
DirectSuccessIsWritten ==
  (pc = "idle" /\ status = "success" /\ path # "smi")
    => flash = WriteRegion(before, op, arg)

\* Between calls the flash is write-enabled exactly for the calls that returned
\* an error after DeviceWriteEnable: every other path, the SMI handler's after
\* an error included, balances the counter of the driver.
EnabledOnlyByErrors == pc = "idle" => WriteEnableCounter = leaked
=============================================================================
