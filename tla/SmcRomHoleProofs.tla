-------------------------- MODULE SmcRomHoleProofs --------------------------
(***************************************************************************)
(* Proofs about SmcRomHole for any contents, any target regions and any    *)
(* number of failed calls: type correctness, the balance of the driver's   *)
(* WriteEnableCounter, what a direct success has written, and the block by *)
(* block procedure as an implementation of RomHoleCalls.                   *)
(***************************************************************************)
EXTENDS SmcRomHole, TLAPS

\* The image a successful call leaves.
Merged == WriteRegion(before, op, arg)

\* A pass that turns image b into image a and has finished k regions.
Pass(k, a, b) == [r \in Region |-> IF r \in Before(k) THEN a[r] ELSE b[r]]

\* The same pass given up in region k+1, which it tore if t.
GivenUp(k, t, a, b) ==
  [r \in Region |-> IF r \in Before(k) THEN a[r]
                    ELSE IF t /\ r = Layout[k + 1] THEN Torn ELSE b[r]]

\* Every block programmed without an erase before.
Overlay == [r \in Region |-> Program(before[r], Merged[r])]

\* Writes are enabled at this step of the call.
Enabled == pc \in {"erase", "write", "disable"} \/ (pc = "read" /\ path = "smm")

\* The driver counts the calls that leaked and the one that goes on.
CounterInv ==
  \A d \in {"dxe", "smm"} :
    WriteEnableCounter[d] = IF Enabled /\ d = Driver(path) THEN leaked[d] + 1 ELSE leaked[d]

\* Where the call is, and what its locals hold there.
CallInv ==
  /\ pc # "idle" => op \in Target
  /\ pc \in {"read", "trigger", "enable"} => flash = before /\ pos = 0 /\ faulty = 0
  /\ pc = "read" => path \in {"dxe", "smm"}
  /\ pc = "trigger" => path = "dxe"
  /\ pc \in {"trigger", "erase", "write", "disable"} => TempBuffer = Merged
  /\ pc = "enable" /\ path # "smm" => TempBuffer = Merged
  /\ pc \in {"erase", "write"} => pos < 7
  /\ pc \in {"write", "disable"} /\ faulty = 1 => path = "smi"

\* What the flash holds during the two passes.
PassInv ==
  /\ pc = "erase" => faulty = 0 /\ flash = Pass(pos, Erased, before)
  /\ pc = "write" /\ faulty = 0 => flash = Pass(pos, Merged, Erased)
  /\ pc = "write" /\ faulty = 1 =>
       \E k \in 0..6, t \in BOOLEAN :
         flash = Pass(pos, GivenUp(k, t, Merged, Overlay), GivenUp(k, t, Erased, before))
  /\ pc = "disable" /\ faulty = 0 => flash = Merged
  /\ pc = "disable" /\ faulty = 1 => flash \in FailedWrites(before, Merged)

IInv == TypeOK /\ CounterInv /\ CallInv /\ PassInv /\ DirectSuccessIsWritten

-----------------------------------------------------------------------------
(* Facts about the layout of the hole and the passes over it.              *)

\* The regions of SMC_ROM_HOLE_MAP, one by one.
LEMMA LayoutEntries ==
  /\ Len(Layout) = 7
  /\ Layout[1] = "OA3" /\ Layout[2] = "OA2" /\ Layout[3] = "SMBIOS_FOR_BMC"
  /\ Layout[4] = "AFU_CMD" /\ Layout[5] = "INBAND" /\ Layout[6] = "CURRENT_SMBIOS"
  /\ Layout[7] = "PREVIOUS_SMBIOS"
BY DEF Layout

\* No region lies twice in the hole.
LEMMA LayoutInjective ==
  ASSUME NEW i \in 1..7, NEW j \in 1..7, Layout[i] = Layout[j]
  PROVE  i = j
<1>1. /\ i \in {1, 2, 3, 4, 5, 6, 7}
      /\ j \in {1, 2, 3, 4, 5, 6, 7}
  OBVIOUS
<1> QED
  BY <1>1, LayoutEntries

\* A pass of k regions has not touched region k+1, and the next one adds it.
LEMMA PassGrows ==
  ASSUME NEW k \in 0..6
  PROVE  /\ Layout[k + 1] \in Region
         /\ Layout[k + 1] \notin Before(k)
         /\ \A r : r \in Before(k + 1) <=> (r \in Before(k) \/ r = Layout[k + 1])
<1>1. Layout[k + 1] \in Region
  <2>1. k + 1 \in {1, 2, 3, 4, 5, 6, 7}
    OBVIOUS
  <2> QED
    BY <2>1, LayoutEntries DEF Region
<1>2. Layout[k + 1] \notin Before(k)
  <2> SUFFICES ASSUME NEW i \in 1..k, Layout[i] = Layout[k + 1] PROVE FALSE
    BY DEF Before
  <2>1. i = k + 1
    BY LayoutInjective
  <2> QED
    BY <2>1
<1>3. ASSUME NEW r PROVE r \in Before(k + 1) <=> (r \in Before(k) \/ r = Layout[k + 1])
  BY DEF Before
<1> QED
  BY <1>1, <1>2, <1>3

\* A pass begins with no region and ends with all of them.
LEMMA PassEnds ==
  /\ \A r : r \notin Before(0)
  /\ \A r \in Region : r \in Before(7)
<1>1. \A r : r \notin Before(0)
  BY DEF Before
<1>2. ASSUME NEW r \in Region PROVE \E i \in 1..7 : r = Layout[i]
  BY LayoutEntries DEF Region
<1> QED
  BY <1>1, <1>2 DEF Before

\* The first and the last image of a pass.
LEMMA PassImages ==
  ASSUME NEW C, NEW a \in [Region -> C], NEW b \in [Region -> C]
  PROVE  Pass(0, a, b) = b /\ Pass(7, a, b) = a
BY PassEnds DEF Pass

\* A step of a pass replaces region k+1.
LEMMA PassStep ==
  ASSUME NEW a, NEW b, NEW k \in 0..6
  PROVE  /\ Pass(k, a, b)[Layout[k + 1]] = b[Layout[k + 1]]
         /\ Pass(k + 1, a, b) = [Pass(k, a, b) EXCEPT ![Layout[k + 1]] = a[Layout[k + 1]]]
<1>1. Pass(k, a, b)[Layout[k + 1]] = b[Layout[k + 1]]
  BY PassGrows DEF Pass
<1>2. Pass(k + 1, a, b) = [Pass(k, a, b) EXCEPT ![Layout[k + 1]] = a[Layout[k + 1]]]
  BY PassGrows DEF Pass
<1> QED
  BY <1>1, <1>2

\* A pass that stops leaves one of the images of Stopped.
LEMMA StopsStopped ==
  ASSUME NEW a, NEW b, NEW k \in 0..6,
         flash = Pass(k, a, b), Stop(Layout[k + 1], a[Layout[k + 1]])
  PROVE  \E t \in BOOLEAN : flash' = GivenUp(k, t, a, b)
<1> DEFINE r1 == Layout[k + 1]
<1>1. r1 \in Region /\ r1 \notin Before(k) /\ flash[r1] = b[r1]
  BY PassGrows DEF Pass
<1>2. Pass(k, a, b) = GivenUp(k, FALSE, a, b)
  BY DEF Pass, GivenUp
<1>3. flash' = flash \/ flash' = [flash EXCEPT ![r1] = IF a[r1] = flash[r1] THEN a[r1] ELSE Torn]
  BY DEF Stop
<1>4. CASE flash' = flash
  BY <1>2, <1>4
<1>5. CASE flash' # flash
  <2>1. flash' = [flash EXCEPT ![r1] = Torn]
    <3>1. CASE a[r1] = flash[r1]
      BY <1>1, <1>3, <1>5, <3>1 DEF Pass
    <3>2. CASE a[r1] # flash[r1]
      BY <1>3, <1>5, <3>2
    <3> QED
      BY <3>1, <3>2
  <2>2. flash' = GivenUp(k, TRUE, a, b)
    BY <1>1, <2>1 DEF Pass, GivenUp
  <2> QED
    BY <2>2
<1> QED
  BY <1>4, <1>5

\* The images of a pass that was given up are those of Stopped.
LEMMA GivenUpStopped ==
  ASSUME NEW a, NEW b, NEW k \in 0..6, NEW t \in BOOLEAN
  PROVE  GivenUp(k, t, a, b) \in Stopped(a, b)
BY DEF GivenUp, Stopped

\* Images given up are images.
LEMMA GivenUpType ==
  ASSUME NEW C, Torn \in C, NEW a \in [Region -> C], NEW b \in [Region -> C],
         NEW k \in 0..6, NEW t \in BOOLEAN
  PROVE  GivenUp(k, t, a, b) \in [Region -> C]
BY DEF GivenUp

-----------------------------------------------------------------------------
(* The inductive invariant.                                                *)

Hole == [Region -> Content \cup {Torn}]

\* The images of a call are images of the hole.
LEMMA ImageTypes ==
  ASSUME TypeOK
  PROVE  /\ flash \in Hole /\ before \in Hole /\ Erased \in Hole
         /\ Merged \in Hole /\ Overlay \in Hole
<1>1. flash \in Hole /\ before \in Hole /\ Erased \in Hole
  BY RomHoleAssumption DEF TypeOK, Hole, Erased
<1>2. Merged \in Hole
  BY DEF TypeOK, Hole, Merged, WriteRegion
<1>3. Overlay \in Hole
  BY <1>1, <1>2 DEF Overlay, Hole, Program
<1> QED
  BY <1>1, <1>2, <1>3

\* They change only when a call begins.
LEMMA ImagesKept ==
  ASSUME UNCHANGED callVars
  PROVE  Merged' = Merged /\ Overlay' = Overlay /\ before' = before
BY DEF callVars, Merged, Overlay

\* A region where a pass stops keeps the type of its contents.
LEMMA StopType ==
  ASSUME flash \in Hole, NEW r \in Region, NEW c \in Content \cup {Torn}, Stop(r, c)
  PROVE  flash' \in Hole
BY DEF Hole, Stop

\* The position of a pass is that of a region.
LEMMA Position ==
  ASSUME TypeOK, pos < 7
  PROVE  /\ pos \in 0..6 /\ Size = 7
         /\ Layout[pos + 1] \in Region
         /\ TempBuffer[Layout[pos + 1]] \in Content \cup {Torn}
<1>1. pos \in 0..6 /\ Size = 7
  BY LayoutEntries DEF TypeOK, Size
<1> QED
  BY <1>1, PassGrows DEF TypeOK

\* Every step keeps the types.
LEMMA TypeStep ==
  ASSUME TypeOK, CounterInv, CallInv, [Next]_vars
  PROVE  TypeOK'
<1> USE DEF callVars, driverVar
<1>s. Size = 7
  BY LayoutEntries DEF Size
<1>h. flash \in Hole
  BY DEF TypeOK, Hole
<1>1. ASSUME NEW p \in {"dxe", "smm"}, NEW r \in Target, NEW c \in Content, Call(p, r, c) PROVE TypeOK'
  BY <1>1, <1>s, RomHoleAssumption DEF TypeOK, Call
<1>2. CASE EnableFails
  BY <1>2, <1>s, RomHoleAssumption DEF TypeOK, CounterInv, CallInv, Enabled, Driver, Erased, EnableFails, Return
<1>3. CASE Read
  BY <1>3 DEF Read, TypeOK, WriteRegion
<1>4. CASE ReadFails
  BY <1>4, <1>s, RomHoleAssumption DEF TypeOK, CounterInv, CallInv, Enabled, Driver, Erased, ReadFails, Return, ReturnEnabled
<1>5. CASE Trigger
  BY <1>5, <1>s, RomHoleAssumption DEF TypeOK, CounterInv, CallInv, Enabled, Driver, Erased, Trigger
<1>6. CASE TriggerIgnored
  BY <1>6, <1>s, RomHoleAssumption DEF TypeOK, CounterInv, CallInv, Enabled, Driver, Erased, TriggerIgnored, Return
<1>7. CASE TriggerFails
  BY <1>7, <1>s, RomHoleAssumption DEF TypeOK, CounterInv, CallInv, Enabled, Driver, Erased, TriggerFails
<1>8. CASE DeviceWriteEnable
  BY <1>8, <1>s, RomHoleAssumption DEF TypeOK, CounterInv, CallInv, Enabled, Driver, Erased, DeviceWriteEnable
<1>9. CASE Erase
  <2>1. pos < 7 /\ pos \in 0..6 /\ Layout[pos + 1] \in Region
    BY <1>9, Position DEF Erase, CallInv
  <2>2. flash' \in Hole
    BY <1>9, <1>h, <2>1, Position, RomHoleAssumption DEF Erase, Hole, Program
  <2> QED
    BY <1>9, <1>s, <2>1, <2>2 DEF Erase, TypeOK, Hole
<1>10. CASE EraseFails
  <2>1. pos < 7 /\ pos \in 0..6 /\ Layout[pos + 1] \in Region
    BY <1>10, Position DEF EraseFails, CallInv
  <2>2. flash' \in Hole
    BY <1>10, <1>h, <2>1, Position, StopType, RomHoleAssumption DEF EraseFails
  <2> QED
    BY <1>10, <1>s, <2>2, RomHoleAssumption DEF EraseFails, Return, ReturnEnabled, TypeOK, Hole, Driver, Erased
<1>11. CASE Write
  <2>1. pos < 7 /\ pos \in 0..6 /\ Layout[pos + 1] \in Region
    BY <1>11, Position DEF Write, CallInv
  <2>2. flash' \in Hole
    BY <1>11, <1>h, <2>1, Position, RomHoleAssumption DEF Write, Hole, Program
  <2> QED
    BY <1>11, <1>s, <2>1, <2>2 DEF Write, TypeOK, Hole
<1>12. CASE WriteFails
  <2>1. pos < 7 /\ pos \in 0..6 /\ Layout[pos + 1] \in Region
    BY <1>12, Position DEF WriteFails, CallInv
  <2>2. flash' \in Hole
    BY <1>12, <1>h, <2>1, Position, StopType, RomHoleAssumption DEF WriteFails
  <2> QED
    BY <1>12, <1>s, <2>2, RomHoleAssumption DEF WriteFails, Return, ReturnEnabled, TypeOK, Hole, Driver, Erased
<1>13. CASE DeviceWriteDisable
  BY <1>13, <1>s, RomHoleAssumption DEF TypeOK, CounterInv, CallInv, Enabled, Driver, Erased, DeviceWriteDisable, Return
<1>14. CASE UnregisterSwSmiE9
  BY <1>14, <1>s, RomHoleAssumption DEF TypeOK, CounterInv, CallInv, Enabled, Driver, Erased, UnregisterSwSmiE9
<1>15. CASE Reset
  <2>1. ASSUME pc = "erase" PROVE flash' \in Hole
    <3>1. pos < 7 /\ Stop(Layout[pos + 1], Blank)
      BY <1>15, <2>1 DEF Reset, CallInv
    <3> QED
      BY <3>1, <1>h, Position, StopType, RomHoleAssumption
  <2>2. ASSUME pc = "write" PROVE flash' \in Hole
    <3>1. pos < 7 /\ Stop(Layout[pos + 1], TempBuffer[Layout[pos + 1]])
      BY <1>15, <2>2 DEF Reset, CallInv
    <3> QED
      BY <3>1, <1>h, Position, StopType
  <2>3. ASSUME pc \notin {"erase", "write"} PROVE flash' \in Hole
    BY <1>15, <1>h, <2>3 DEF Reset
  <2>4. flash' \in Hole
    BY <2>1, <2>2, <2>3
  <2> QED
    BY <1>15, <1>s, <2>4, RomHoleAssumption DEF Reset, Return, TypeOK, Hole, Erased
<1>16. CASE UNCHANGED vars
  BY <1>16 DEF vars, TypeOK
<1> QED
  BY <1>1, <1>2, <1>3, <1>4, <1>5, <1>6, <1>7, <1>8, <1>9, <1>10, <1>11, <1>12, <1>13, <1>14, <1>15, <1>16 DEF Next, Step

\* Every step keeps the counters in step with the calls.
LEMMA CounterStep ==
  ASSUME TypeOK, CounterInv, CallInv, [Next]_vars
  PROVE  CounterInv'
<1> USE DEF callVars, driverVar, CounterInv, TypeOK, Enabled, Driver
<1>1. ASSUME NEW p \in {"dxe", "smm"}, NEW r \in Target, NEW c \in Content, Call(p, r, c) PROVE CounterInv'
  BY <1>1 DEF Call
<1>2. CASE EnableFails
  BY <1>2 DEF EnableFails, Return, CallInv
<1>3. CASE Read
  BY <1>3 DEF Read, CallInv
<1>4. CASE ReadFails
  BY <1>4 DEF ReadFails, Return, ReturnEnabled, CallInv
<1>5. CASE Trigger
  BY <1>5 DEF Trigger, CallInv
<1>6. CASE TriggerIgnored
  BY <1>6 DEF TriggerIgnored, Return, CallInv
<1>7. CASE TriggerFails
  BY <1>7 DEF TriggerFails, CallInv
<1>8. CASE DeviceWriteEnable
  BY <1>8 DEF DeviceWriteEnable, CallInv
<1>9. CASE Erase
  BY <1>9 DEF Erase, CallInv
<1>10. CASE EraseFails
  BY <1>10 DEF EraseFails, Return, ReturnEnabled, CallInv
<1>11. CASE Write
  BY <1>11 DEF Write, CallInv
<1>12. CASE WriteFails
  BY <1>12 DEF WriteFails, Return, ReturnEnabled, CallInv
<1>13. CASE DeviceWriteDisable
  BY <1>13 DEF DeviceWriteDisable, Return, CallInv
<1>14. CASE UnregisterSwSmiE9
  BY <1>14 DEF UnregisterSwSmiE9, CallInv
<1>15. CASE Reset
  BY <1>15 DEF Reset, Return
<1>16. CASE UNCHANGED vars
  BY <1>16 DEF vars
<1> QED
  BY <1>1, <1>2, <1>3, <1>4, <1>5, <1>6, <1>7, <1>8, <1>9, <1>10, <1>11, <1>12, <1>13, <1>14, <1>15, <1>16 DEF Next, Step

\* Every step keeps the locals as the call needs them.
LEMMA CallStep ==
  ASSUME TypeOK, CallInv, PassInv, [Next]_vars
  PROVE  CallInv'
<1> USE DEF driverVar, CallInv
<1>s. Size = 7
  BY LayoutEntries DEF Size
<1>1. ASSUME NEW p \in {"dxe", "smm"}, NEW r \in Target, NEW c \in Content, Call(p, r, c) PROVE CallInv'
  BY <1>1 DEF Call
<1>2. CASE EnableFails
  BY <1>2 DEF EnableFails, Return
<1>3. CASE Read
  <2>1. TempBuffer' = Merged'
    BY <1>3, ImagesKept DEF Read, Merged
  <2> QED
    BY <1>3, <2>1 DEF Read, callVars
<1>4. CASE ReadFails
  BY <1>4 DEF ReadFails, Return, ReturnEnabled
<1>5. CASE Trigger
  BY <1>5, ImagesKept DEF Trigger, callVars, TypeOK
<1>6. CASE TriggerIgnored
  BY <1>6 DEF TriggerIgnored, Return
<1>7. CASE TriggerFails
  BY <1>7, ImagesKept DEF TriggerFails, callVars, TypeOK
<1>8. CASE DeviceWriteEnable
  BY <1>8, ImagesKept DEF DeviceWriteEnable, callVars, TypeOK
<1>9. CASE Erase
  BY <1>9, <1>s, ImagesKept DEF Erase, callVars, TypeOK, PassInv
<1>10. CASE EraseFails
  BY <1>10, ImagesKept DEF EraseFails, Return, ReturnEnabled, callVars, TypeOK
<1>11. CASE Write
  BY <1>11, <1>s, ImagesKept DEF Write, callVars, TypeOK, PassInv
<1>12. CASE WriteFails
  BY <1>12, ImagesKept DEF WriteFails, Return, ReturnEnabled, callVars, TypeOK
<1>13. CASE DeviceWriteDisable
  BY <1>13 DEF DeviceWriteDisable, Return
<1>14. CASE UnregisterSwSmiE9
  BY <1>14 DEF UnregisterSwSmiE9
<1>15. CASE Reset
  BY <1>15 DEF Reset, Return
<1>16. CASE UNCHANGED vars
  BY <1>16, ImagesKept DEF vars, callVars
<1> QED
  BY <1>1, <1>2, <1>3, <1>4, <1>5, <1>6, <1>7, <1>8, <1>9, <1>10, <1>11, <1>12, <1>13, <1>14, <1>15, <1>16 DEF Next, Step

\* What a call may leave when its erase stops, its programming stops, or the
\* erase stops and every block is programmed nevertheless.
LEMMA FailedImages ==
  ASSUME NEW k \in 0..6, NEW t \in BOOLEAN
  PROVE  /\ GivenUp(k, t, Erased, before) \in FailedWrites(before, Merged)
         /\ GivenUp(k, t, Merged, Erased) \in FailedWrites(before, Merged)
         /\ GivenUp(k, t, Merged, Overlay) \in FailedWrites(before, Merged)
BY GivenUpStopped DEF FailedWrites, Overlay

\* Programming a region of the stopped erase gives the region of the overlay.
LEMMA ProgramGivenUp ==
  ASSUME TypeOK, NEW k \in 0..6, NEW t \in BOOLEAN, NEW r \in Region
  PROVE  Program(GivenUp(k, t, Erased, before)[r], Merged[r]) = GivenUp(k, t, Merged, Overlay)[r]
<1>1. CASE r \in Before(k)
  BY <1>1 DEF GivenUp, Erased, Program
<1>2. CASE r \notin Before(k) /\ t /\ r = Layout[k + 1]
  <2>1. GivenUp(k, t, Erased, before)[r] = Torn /\ GivenUp(k, t, Merged, Overlay)[r] = Torn
    BY <1>2 DEF GivenUp
  <2> QED
    BY <2>1, RomHoleAssumption DEF Program
<1>3. CASE r \notin Before(k) /\ ~(t /\ r = Layout[k + 1])
  BY <1>3 DEF GivenUp, Overlay
<1> QED
  BY <1>1, <1>2, <1>3

\* The erase stops in region pos+1.
LEMMA EraseStops ==
  ASSUME TypeOK, CallInv, PassInv, pc = "erase", Stop(Layout[pos + 1], Blank)
  PROVE  \E t \in BOOLEAN : flash' = GivenUp(pos, t, Erased, before)
<1>1. pos \in 0..6 /\ Layout[pos + 1] \in Region /\ flash = Pass(pos, Erased, before)
  BY Position DEF CallInv, PassInv
<1>2. Stop(Layout[pos + 1], Erased[Layout[pos + 1]])
  BY <1>1 DEF Erased
<1>3. Erased \in Hole /\ before \in Hole
  BY ImageTypes
<1> QED
  BY <1>1, <1>2, <1>3, StopsStopped DEF Hole

\* The programming stops in region pos+1.
LEMMA WriteStops ==
  ASSUME TypeOK, CallInv, PassInv, pc = "write", faulty = 0,
         Stop(Layout[pos + 1], TempBuffer[Layout[pos + 1]])
  PROVE  \E t \in BOOLEAN : flash' = GivenUp(pos, t, Merged, Erased)
<1>1. pos \in 0..6 /\ flash = Pass(pos, Merged, Erased) /\ TempBuffer = Merged
  BY Position DEF CallInv, PassInv
<1>2. Erased \in Hole /\ Merged \in Hole
  BY ImageTypes
<1> QED
  BY <1>1, <1>2, StopsStopped DEF Hole

\* Every step keeps the flash as the two passes leave it.
LEMMA PassInvStep ==
  ASSUME TypeOK, CallInv, PassInv, [Next]_vars
  PROVE  PassInv'
<1> USE DEF driverVar
<1>t. Size = 7 /\ Erased \in Hole /\ before \in Hole /\ Merged \in Hole
  BY LayoutEntries, ImageTypes DEF Size
<1>z. Pass(0, Erased, before) = before /\ Pass(7, Erased, before) = Erased
  BY <1>t, PassImages DEF Hole
<1>y. Pass(0, Merged, Erased) = Erased /\ Pass(7, Merged, Erased) = Merged
  BY <1>t, PassImages DEF Hole
<1>1. ASSUME NEW p \in {"dxe", "smm"}, NEW r \in Target, NEW c \in Content, Call(p, r, c) PROVE PassInv'
  BY <1>1 DEF Call, PassInv
<1>2. CASE EnableFails
  BY <1>2 DEF PassInv, EnableFails, Return
<1>3. CASE Read
  BY <1>3, <1>z, ImagesKept DEF Read, CallInv, PassInv
<1>4. CASE ReadFails
  BY <1>4 DEF PassInv, ReadFails, Return, ReturnEnabled
<1>5. CASE Trigger
  BY <1>5 DEF PassInv, Trigger
<1>6. CASE TriggerIgnored
  BY <1>6 DEF PassInv, TriggerIgnored, Return
<1>7. CASE TriggerFails
  BY <1>7 DEF PassInv, TriggerFails
<1>8. CASE DeviceWriteEnable
  BY <1>8, <1>z, ImagesKept DEF DeviceWriteEnable, CallInv, PassInv
<1>9. CASE Erase
  <2>1. pos \in 0..6 /\ Layout[pos + 1] \in Region /\ flash = Pass(pos, Erased, before) /\ faulty = 0
    BY <1>9, Position DEF Erase, CallInv, PassInv
  <2>2. flash' = Pass(pos + 1, Erased, before)
    <3>1. flash' = [flash EXCEPT ![Layout[pos + 1]] = Erased[Layout[pos + 1]]]
      BY <1>9, <2>1 DEF Erase, Erased
    <3> QED
      BY <1>t, <2>1, <3>1, PassStep DEF Hole
  <2>3. CASE pos + 1 < 7
    BY <1>9, <1>t, <2>1, <2>2, <2>3, ImagesKept DEF Erase, PassInv
  <2>4. CASE pos + 1 = 7
    BY <1>9, <1>t, <1>z, <1>y, <2>1, <2>2, <2>4, ImagesKept DEF Erase, PassInv
  <2> QED
    BY <2>1, <2>3, <2>4
<1>10. CASE EraseFails
  <2>1. pos \in 0..6
    BY <1>10, Position DEF EraseFails, CallInv
  <2>2. PICK t \in BOOLEAN : flash' = GivenUp(pos, t, Erased, before)
    BY <1>10, EraseStops DEF EraseFails
  <2>3. CASE path = "smi"
    <3> DEFINE F == GivenUp(pos, t, Merged, Overlay)
               E == GivenUp(pos, t, Erased, before)
    <3>1. F \in Hole /\ E \in Hole
      BY <1>t, <2>1, ImageTypes, GivenUpType DEF Hole
    <3>2. flash' = Pass(0, F, E)
      BY <2>2, <3>1, PassImages DEF Hole
    <3>3. pc' = "write" /\ pos' = 0 /\ faulty' = 1
      BY <1>10, <2>3 DEF EraseFails
    <3>4. Merged' = Merged /\ Overlay' = Overlay /\ before' = before
      BY <1>10, ImagesKept DEF EraseFails
    <3>5. \E k \in 0..6, u \in BOOLEAN :
            flash' = Pass(0, GivenUp(k, u, Merged, Overlay), GivenUp(k, u, Erased, before))
      BY <2>1, <3>2
    <3> QED
      BY <3>3, <3>4, <3>5 DEF PassInv
  <2>4. CASE path # "smi"
    BY <1>10, <2>4 DEF EraseFails, ReturnEnabled, Return, PassInv
  <2> QED
    BY <2>3, <2>4
<1>11. CASE Write
  <2> DEFINE r1 == Layout[pos + 1]
  <2>1. pos \in 0..6 /\ r1 \in Region /\ TempBuffer = Merged
    BY <1>11, Position DEF Write, CallInv
  <2>2. flash' = [flash EXCEPT ![r1] = Program(flash[r1], Merged[r1])]
    BY <1>11, <2>1 DEF Write
  <2>3. CASE faulty = 0
    <3>1. flash = Pass(pos, Merged, Erased)
      BY <1>11, <2>3 DEF Write, PassInv
    <3>2. flash[r1] = Blank
      BY <1>t, <2>1, <3>1, PassStep DEF Hole, Erased
    <3>3. flash' = [flash EXCEPT ![r1] = Merged[r1]]
      BY <2>2, <3>2 DEF Program
    <3>4. flash' = Pass(pos + 1, Merged, Erased)
      BY <1>t, <2>1, <3>1, <3>3, PassStep DEF Hole
    <3>5. CASE pos + 1 < 7
      <4>1. pc' = "write" /\ pos' = pos + 1 /\ faulty' = 0
        BY <1>11, <1>t, <2>3, <3>5 DEF Write
      <4>2. Merged' = Merged /\ Erased' = Erased
        BY <1>11, ImagesKept DEF Write
      <4> QED
        BY <3>4, <4>1, <4>2 DEF PassInv
    <3>6. CASE pos + 1 = 7
      BY <1>11, <1>t, <1>y, <2>1, <2>3, <3>4, <3>6, ImagesKept DEF Write, PassInv
    <3> QED
      BY <2>1, <3>5, <3>6
  <2>4. CASE faulty = 1
    <3>1. PICK k \in 0..6, t \in BOOLEAN :
            flash = Pass(pos, GivenUp(k, t, Merged, Overlay), GivenUp(k, t, Erased, before))
      BY <1>11, <2>4 DEF Write, PassInv
    <3> DEFINE F == GivenUp(k, t, Merged, Overlay)
               E == GivenUp(k, t, Erased, before)
    <3>2. F \in Hole /\ E \in Hole
      BY <1>t, ImageTypes, GivenUpType DEF Hole
    <3>3. Program(E[r1], Merged[r1]) = F[r1]
      BY <2>1, ProgramGivenUp
    <3>g. F \in FailedWrites(before, Merged)
      BY FailedImages
    <3>k. Merged' = Merged /\ Overlay' = Overlay /\ before' = before
      BY <1>11, ImagesKept DEF Write
    <3>4. flash' = Pass(pos + 1, F, E)
      <4> HIDE DEF F, E, r1
      <4>1. flash = Pass(pos, F, E)
        BY <3>1 DEF F, E
      <4>2. /\ flash[r1] = E[r1]
            /\ Pass(pos + 1, F, E) = [flash EXCEPT ![r1] = F[r1]]
        BY <4>1, <3>2, <2>1, PassStep DEF Hole, r1
      <4> QED
        BY <2>2, <3>3, <4>2
    <3>5. CASE pos + 1 < 7
      <4>1. pc' = "write" /\ pos' = pos + 1 /\ faulty' = faulty
        BY <1>11, <1>t, <3>5 DEF Write
      <4>2. \E j \in 0..6, u \in BOOLEAN :
              flash' = Pass(pos + 1, GivenUp(j, u, Merged, Overlay), GivenUp(j, u, Erased, before))
        BY <3>4
      <4> QED
        BY <2>4, <3>k, <4>1, <4>2 DEF PassInv
    <3>6. CASE pos + 1 = 7
      <4>1. pc' = "disable" /\ faulty' = faulty
        BY <1>11, <1>t, <3>6 DEF Write
      <4>2. flash' = F
        <5> HIDE DEF F, E
        <5> QED
          BY <3>2, <3>4, <3>6, PassImages DEF Hole
      <4> QED
        BY <2>4, <3>g, <3>k, <4>1, <4>2 DEF PassInv
    <3> QED
      BY <2>1, <3>5, <3>6
  <2> QED
    BY <2>3, <2>4 DEF TypeOK
<1>12. CASE WriteFails
  <2>1. pos \in 0..6
    BY <1>12, Position DEF WriteFails, CallInv
  <2>2. PICK t \in BOOLEAN : flash' = GivenUp(pos, t, Merged, Erased)
    BY <1>12, WriteStops DEF WriteFails
  <2>3. flash' \in FailedWrites(before, Merged)
    BY <2>1, <2>2, FailedImages
  <2>4. Merged' = Merged /\ before' = before
    BY <1>12, ImagesKept DEF WriteFails
  <2> QED
    BY <1>12, <2>3, <2>4 DEF WriteFails, ReturnEnabled, Return, PassInv
<1>13. CASE DeviceWriteDisable
  BY <1>13 DEF PassInv, DeviceWriteDisable, Return
<1>14. CASE UnregisterSwSmiE9
  BY <1>14 DEF PassInv, UnregisterSwSmiE9
<1>15. CASE Reset
  BY <1>15 DEF PassInv, Reset, Return
<1>16. CASE UNCHANGED vars
  BY <1>16, ImagesKept DEF vars, PassInv
<1> QED
  BY <1>1, <1>2, <1>3, <1>4, <1>5, <1>6, <1>7, <1>8, <1>9, <1>10, <1>11, <1>12, <1>13, <1>14, <1>15, <1>16 DEF Next, Step

\* Every step that ends a call with a success outside the SMI has written it.
LEMMA DirectStep ==
  ASSUME TypeOK, CallInv, PassInv, DirectSuccessIsWritten, [Next]_vars
  PROVE  DirectSuccessIsWritten'
<1> USE DEF DirectSuccessIsWritten, callVars
<1>1. ASSUME NEW p \in {"dxe", "smm"}, NEW r \in Target, NEW c \in Content, Call(p, r, c) PROVE DirectSuccessIsWritten'
  BY <1>1 DEF Call
<1>2. CASE EnableFails
  BY <1>2 DEF EnableFails, Return
<1>3. CASE Read
  BY <1>3 DEF Read
<1>4. CASE ReadFails
  BY <1>4 DEF ReadFails, Return, ReturnEnabled
<1>5. CASE Trigger
  BY <1>5 DEF Trigger
<1>6. CASE TriggerIgnored
  BY <1>6 DEF TriggerIgnored, Return
<1>7. CASE TriggerFails
  BY <1>7 DEF TriggerFails
<1>8. CASE DeviceWriteEnable
  BY <1>8 DEF DeviceWriteEnable
<1>9. CASE Erase
  BY <1>9 DEF Erase
<1>10. CASE EraseFails
  BY <1>10 DEF EraseFails, Return, ReturnEnabled
<1>11. CASE Write
  BY <1>11 DEF Write
<1>12. CASE WriteFails
  BY <1>12 DEF WriteFails, Return, ReturnEnabled
<1>13. CASE DeviceWriteDisable
  BY <1>13 DEF DeviceWriteDisable, Return, CallInv, PassInv, Merged, TypeOK
<1>14. CASE UnregisterSwSmiE9
  BY <1>14 DEF UnregisterSwSmiE9
<1>15. CASE Reset
  BY <1>15 DEF Reset, Return
<1>16. CASE UNCHANGED vars
  BY <1>16 DEF vars
<1> QED
  BY <1>1, <1>2, <1>3, <1>4, <1>5, <1>6, <1>7, <1>8, <1>9, <1>10, <1>11, <1>12, <1>13, <1>14, <1>15, <1>16 DEF Next, Step

\* The conjuncts hold together from the first state on.
THEOREM Invariance == Spec => []IInv
<1>1. Init => IInv
  BY RomHoleAssumption DEF Init, IInv, TypeOK, CounterInv, Enabled, CallInv, PassInv,
     DirectSuccessIsWritten, Erased, Region, Size
<1>2. IInv /\ [Next]_vars => IInv'
  BY TypeStep, CounterStep, CallStep, PassInvStep, DirectStep DEF IInv
<1> QED
  BY <1>1, <1>2, PTL DEF Spec

\* The variables of SmcRomHoleWriteRegion have their types in every state: a
\* pass never leaves the seven regions of SMC_ROM_HOLE_MAP, and the driver's
\* counter is never negative and at most one above the calls that leaked.
THEOREM TypeCorrect == Spec => []TypeOK
BY Invariance, PTL DEF IInv

\* Between calls DeviceWriteEnable and DeviceWriteDisable of each driver are
\* balanced but for the error returns behind the enable.
THEOREM EnabledByErrors == Spec => []EnabledOnlyByErrors
<1>1. IInv => EnabledOnlyByErrors
  BY DEF IInv, TypeOK, CounterInv, Enabled, EnabledOnlyByErrors
<1> QED
  BY <1>1, Invariance, PTL

\* A success that SmcRomHoleWriteRegion returns without the SMI means that the
\* region holds the caller's buffer and every other region what it held.
THEOREM DirectSuccess == Spec => []DirectSuccessIsWritten
BY Invariance, PTL DEF IInv

-----------------------------------------------------------------------------
(* The procedure implements RomHoleCalls.                                  *)

\* The hole as a caller sees it: during a call, as it was when the call began.
romSeen == IF pc = "idle" THEN flash ELSE before

\* RomHoleCalls speaks of the same hole.
LEMMA SameHole ==
  /\ Calls!Erased = Erased
  /\ \A a, r, c : Calls!WriteRegion(a, r, c) = WriteRegion(a, r, c)
  /\ \A a, b : Calls!FailedWrites(a, b) = FailedWrites(a, b)
BY DEF Erased, WriteRegion, FailedWrites, Stopped, Before, Layout, Region, Program,
       Calls!Erased, Calls!WriteRegion, Calls!FailedWrites, Calls!Stopped, Calls!Before,
       Calls!Layout, Calls!Region, Calls!Program

\* A call that ends with the old image, the merged image or a failed one is a
\* step of RomHoleCalls.
LEMMA EndOfCall ==
  ASSUME TypeOK, CallInv, pc # "idle", pc' = "idle",
         flash' = before \/ flash' = Merged \/ flash' \in FailedWrites(before, Merged)
  PROVE  [Calls!Next]_romSeen
<1>1. romSeen = before /\ romSeen' = flash' /\ op \in Target /\ arg \in Content
  BY DEF romSeen, CallInv, TypeOK
<1>2. CASE flash' = before
  BY <1>1, <1>2
<1>3. CASE flash' = Merged \/ flash' \in FailedWrites(before, Merged)
  <2>1. Calls!Write(op, arg)
    BY <1>1, <1>3, SameHole DEF Calls!Write, romSeen, Merged
  <2> QED
    BY <1>1, <2>1 DEF Calls!Next
<1> QED
  BY <1>2, <1>3

\* Inside a call, at its beginning and between calls the caller sees no change.
LEMMA SeenKept ==
  ASSUME \/ pc = "idle" /\ pc' = "idle" /\ flash' = flash
         \/ pc = "idle" /\ before' = flash /\ pc' # "idle"
         \/ pc # "idle" /\ pc' # "idle" /\ before' = before
  PROVE  [Calls!Next]_romSeen
BY DEF romSeen

\* Every step is a step of RomHoleCalls or leaves what the caller sees.
LEMMA CallsStep ==
  ASSUME TypeOK, CallInv, PassInv, [Next]_vars
  PROVE  [Calls!Next]_romSeen
<1> USE DEF callVars
<1>1. ASSUME NEW p \in {"dxe", "smm"}, NEW r \in Target, NEW c \in Content, Call(p, r, c) PROVE [Calls!Next]_romSeen
  BY <1>1, SeenKept DEF Call
<1>2. CASE EnableFails
  <2>1. flash' = before /\ pc # "idle" /\ pc' = "idle"
    BY <1>2 DEF EnableFails, Return, ReturnEnabled, CallInv
  <2> QED
    BY <2>1, EndOfCall
<1>3. CASE Read
  BY <1>3, SeenKept DEF Read
<1>4. CASE ReadFails
  <2>1. flash' = before /\ pc # "idle" /\ pc' = "idle"
    BY <1>4 DEF ReadFails, Return, ReturnEnabled, CallInv
  <2> QED
    BY <2>1, EndOfCall
<1>5. CASE Trigger
  BY <1>5, SeenKept DEF Trigger
<1>6. CASE TriggerIgnored
  <2>1. flash' = before /\ pc # "idle" /\ pc' = "idle"
    BY <1>6 DEF TriggerIgnored, Return, ReturnEnabled, CallInv
  <2> QED
    BY <2>1, EndOfCall
<1>7. CASE TriggerFails
  BY <1>7, SeenKept DEF TriggerFails
<1>8. CASE DeviceWriteEnable
  BY <1>8, SeenKept DEF DeviceWriteEnable
<1>9. CASE Erase
  BY <1>9, SeenKept DEF Erase
<1>10. CASE EraseFails
  <2>1. CASE path = "smi"
    BY <1>10, <2>1, SeenKept DEF EraseFails
  <2>2. CASE path # "smi"
    <3>1. pos \in 0..6 /\ \E t \in BOOLEAN : flash' = GivenUp(pos, t, Erased, before)
      BY <1>10, Position, EraseStops DEF EraseFails, CallInv
    <3>2. flash' \in FailedWrites(before, Merged)
      BY <3>1, FailedImages
    <3>3. pc # "idle" /\ pc' = "idle"
      BY <1>10, <2>2 DEF EraseFails, ReturnEnabled, Return
    <3> QED
      BY <3>2, <3>3, EndOfCall
  <2> QED
    BY <2>1, <2>2
<1>11. CASE Write
  BY <1>11, SeenKept DEF Write
<1>12. CASE WriteFails
  <2>1. CASE path = "smi"
    BY <1>12, <2>1, SeenKept DEF WriteFails
  <2>2. CASE path # "smi"
    <3>1. pos \in 0..6 /\ \E t \in BOOLEAN : flash' = GivenUp(pos, t, Merged, Erased)
      BY <1>12, Position, WriteStops DEF WriteFails, CallInv
    <3>2. flash' \in FailedWrites(before, Merged)
      BY <3>1, FailedImages
    <3>3. pc # "idle" /\ pc' = "idle"
      BY <1>12, <2>2 DEF WriteFails, ReturnEnabled, Return
    <3> QED
      BY <3>2, <3>3, EndOfCall
  <2> QED
    BY <2>1, <2>2
<1>13. CASE DeviceWriteDisable
  <2>1. pc # "idle" /\ pc' = "idle" /\ flash' = flash
    BY <1>13 DEF DeviceWriteDisable, Return
  <2>2. flash = Merged \/ flash \in FailedWrites(before, Merged)
    BY <1>13 DEF DeviceWriteDisable, PassInv, TypeOK
  <2> QED
    BY <2>1, <2>2, EndOfCall
<1>14. CASE UnregisterSwSmiE9
  BY <1>14, SeenKept DEF UnregisterSwSmiE9
<1>15. CASE Reset
  <2>0. pc' = "idle"
    BY <1>15 DEF Reset, Return
  <2>1. CASE pc = "idle"
    BY <1>15, <2>0, <2>1, SeenKept DEF Reset
  <2>2. CASE pc = "erase"
    <3>1. pos \in 0..6 /\ \E t \in BOOLEAN : flash' = GivenUp(pos, t, Erased, before)
      BY <1>15, <2>2, Position, EraseStops DEF Reset, CallInv
    <3>2. flash' \in FailedWrites(before, Merged)
      BY <3>1, FailedImages
    <3> QED
      BY <2>0, <2>2, <3>2, EndOfCall
  <2>3. CASE pc = "write"
    <3>1. pos \in 0..6 /\ \E t \in BOOLEAN : flash' = GivenUp(pos, t, Merged, Erased)
      BY <1>15, <2>3, Position, WriteStops DEF Reset, CallInv
    <3>2. flash' \in FailedWrites(before, Merged)
      BY <3>1, FailedImages
    <3> QED
      BY <2>0, <2>3, <3>2, EndOfCall
  <2>4. CASE pc = "disable"
    <3>1. flash' = Merged
      BY <1>15, <2>4 DEF Reset, PassInv
    <3> QED
      BY <2>0, <2>4, <3>1, EndOfCall
  <2>5. CASE pc \in {"read", "trigger", "enable"}
    <3>1. flash' = before
      BY <1>15, <2>5 DEF Reset, CallInv
    <3> QED
      BY <2>0, <2>5, <3>1, EndOfCall
  <2> QED
    BY <2>1, <2>2, <2>3, <2>4, <2>5 DEF TypeOK
<1>16. CASE UNCHANGED vars
  BY <1>16 DEF vars, romSeen
<1> QED
  BY <1>1, <1>2, <1>3, <1>4, <1>5, <1>6, <1>7, <1>8, <1>9, <1>10, <1>11, <1>12, <1>13, <1>14, <1>15, <1>16 DEF Next, Step

\* The erase of the whole hole and the two passes over its blocks implement one
\* write of one region: wherever a call ends, is cut off by a reset or goes on
\* after a failed erase, the hole is merged or one of the FailedWrites.
THEOREM OneRegion == Spec => WritesOneRegion
<1>1. Init => Calls!Init
  BY SameHole DEF Init, Calls!Init
<1>2. IInv /\ [Next]_vars => [Calls!Next]_romSeen
  BY CallsStep DEF IInv
<1> QED
  BY <1>1, <1>2, Invariance, PTL DEF Spec, WritesOneRegion, Calls!Spec, romSeen
=============================================================================
