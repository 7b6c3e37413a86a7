------------------------- MODULE InBandBiosCfgProofs -------------------------
(***************************************************************************)
(* Proofs about InBandBiosCfg for any files, variables, drives and any     *)
(* number of failures: how often the RAID commands of a file are carried   *)
(* out and which drives they delete, type correctness, and what a file     *)
(* does to the variables however often its POST is interrupted, and that   *)
(* each round of the resets needs a failure or a new file.                 *)
(***************************************************************************)
EXTENDS InBandBiosCfg, SequenceTheorems, WellFoundedInduction, TLAPS

\* The histories are numbers.
CountInv == runs \in Nat /\ romFaults \in Nat /\ crashes \in Nat

\* Records are read and commands handled only for a file that asks for an update.
RequestInv == pc \in {"record", "handle"} => inband.flag # "idle"

\* While the request is in the region the commands were handled once for each failure
\* so far; between the handling and the erase, and when the request is gone, they may
\* have been handled once more.
BudgetInv ==
  /\ runs <= 1 + romFaults + crashes
  /\ runs <= romFaults + crashes \/ pc = "erase" \/ inband.flag = "idle"

IInv == CountInv /\ RequestInv /\ BudgetInv

\* The bound only grows with the failures.
LEMMA BoundGrows ==
  ASSUME NEW r \in Nat, NEW a \in Nat, NEW b \in Nat, NEW c \in Nat, a <= b
  PROVE  /\ r <= 1 + a + c => r <= 1 + b + c
         /\ r <= 1 + a + c /\ b = a + 1 => r <= b + c
OBVIOUS

\* The bound is a number.
LEMMA BoundPositive ==
  ASSUME NEW b \in Nat, NEW c \in Nat
  PROVE  0 <= 1 + b + c /\ 0 <= b + c
OBVIOUS

\* A write of the ROM either succeeds or is counted.
LEMMA WriteCounted ==
  ASSUME NEW f, NEW b, WriteRom(f, b), CountInv
  PROVE  /\ romFaults' \in Nat
         /\ \/ inband' = f /\ romFaults' = romFaults
            \/ romFaults' = romFaults + 1
BY DEF WriteRom, RomFault, CountInv

\* A file that arrives has had none of its commands handled.
LEMMA ArrivalKeeps ==
  ASSUME NEW f, Arrive(f), CountInv, pc' \in {"driver", "os"}
  PROVE  IInv'
<1>1. runs' = 0 /\ crashes' = crashes /\ romFaults' \in Nat
  BY WriteCounted DEF Arrive
<1>2. CountInv'
  BY <1>1 DEF CountInv
<1>3. RequestInv'
  BY DEF RequestInv
<1>4. runs' <= 1 + romFaults' + crashes' /\ runs' <= romFaults' + crashes'
  <2>1. runs' \in Nat /\ romFaults' \in Nat /\ crashes' \in Nat
    BY <1>2 DEF CountInv
  <2> QED
    BY <1>1, <2>1, BoundPositive
<1> QED
  BY <1>2, <1>3, <1>4 DEF IInv, BudgetInv

\* Every step keeps the budget.
LEMMA BudgetStep ==
  ASSUME IInv, [Next]_vars
  PROVE  IInv'
<1> USE DEF IInv, CountInv, RequestInv, BudgetInv, nvVars, romVars, raidVars, fileVars, faultVars
<1>1. CASE SmcResetConfig
  BY <1>1 DEF SmcResetConfig
<1>2. CASE NoDownload
  BY <1>2 DEF NoDownload
<1>3. CASE DeleteLoadDefault
  BY <1>3 DEF DeleteLoadDefault, NvFault
<1>4. CASE NoUpdate
  BY <1>4 DEF NoUpdate
<1>5. CASE StartUpdate
  BY <1>5 DEF StartUpdate
<1>6. CASE SetLoadDefault
  BY <1>6 DEF SetLoadDefault, NvFault
<1>7. CASE UpdateVariable
  BY <1>7 DEF UpdateVariable, NvFault, AtRecord
<1>8. CASE CollectData
  BY <1>8 DEF CollectData, AtRecord
<1>9. CASE SkipRecord
  BY <1>9 DEF SkipRecord, AtRecord
<1>10. CASE EndOfRecords
  BY <1>10 DEF EndOfRecords
<1>11. CASE TornRecord
  BY <1>11 DEF TornRecord
<1>12. CASE CombineBiosCfg
  BY <1>12 DEF CombineBiosCfg
<1>13. CASE CreateLongName
  BY <1>13 DEF CreateLongName
<1>14. CASE Shutdown
  BY <1>14 DEF Shutdown
<1>15. CASE PowerLoss
  BY <1>15 DEF PowerLoss
<1>16. ASSUME NEW up \in {0, 1}, StartRaidDriver(up)
      PROVE  IInv'
  BY <1>16 DEF StartRaidDriver
<1>17. CASE ScanAgain
  BY <1>17 DEF ScanAgain, vars
<1>18. CASE OobLoadDefaultPreSetting
  <2>1. runs' = runs /\ crashes' = crashes /\ pc' = "erase"
    BY <1>18 DEF OobLoadDefaultPreSetting
  <2>2. romFaults' \in Nat /\ romFaults' >= romFaults
    BY <1>18, WriteCounted DEF OobLoadDefaultPreSetting
  <2>3. runs' <= 1 + romFaults' + crashes'
    <3>1. romFaults <= romFaults'
      BY <2>2
    <3> QED
      BY <2>1, <2>2, <3>1, BoundGrows
  <2> QED
    BY <2>1, <2>2, <2>3
<1>19. CASE HandleDataStart
  <2>1. /\ pc = "handle" /\ pc' = "erase" /\ UNCHANGED <<inband, romFaults, crashes>>
        /\ runs' = runs \/ runs' = runs + 1
    BY <1>19 DEF HandleDataStart
  <2> QED
    BY <2>1
<1>20. CASE EraseRegion
  <2>1. runs' = runs /\ crashes' = crashes /\ pc = "erase" /\ pc' = "reset"
    BY <1>20 DEF EraseRegion
  <2>2. /\ romFaults' \in Nat
        /\ \/ inband' = Erased /\ romFaults' = romFaults
           \/ romFaults' = romFaults + 1
    BY <1>20, WriteCounted DEF EraseRegion
  <2>3. runs' <= 1 + romFaults' + crashes'
    <3>1. romFaults <= romFaults'
      BY <2>2
    <3> QED
      BY <2>1, <2>2, <3>1, BoundGrows
  <2>4. runs' <= romFaults' + crashes' \/ inband'.flag = "idle"
    <3>1. CASE inband' = Erased
      BY <3>1 DEF Erased
    <3>2. CASE romFaults' = romFaults + 1
      BY <2>1, <3>2
    <3> QED
      BY <2>2, <3>1, <3>2
  <2> QED
    BY <2>1, <2>2, <2>3, <2>4
<1>21. ASSUME NEW f \in Files, DownloadBiosCfgFromBMC(f) \/ DownloadDataFromRAM(f)
      PROVE  IInv'
  BY <1>21, ArrivalKeeps DEF DownloadBiosCfgFromBMC, DownloadDataFromRAM
<1>22. CASE UNCHANGED vars
  BY <1>22 DEF vars
<1> QED
  BY <1>1, <1>2, <1>3, <1>4, <1>5, <1>6, <1>7, <1>8, <1>9, <1>10,
     <1>11, <1>12, <1>13, <1>14, <1>15, <1>16, <1>17, <1>18, <1>19, <1>20,
     <1>21, <1>22
     DEF Next, Bios, Environment

\* The budget holds in every state.
THEOREM Invariance == Spec => []IInv
<1>1. Init => IInv
  BY DEF Init, IInv, CountInv, RequestInv, BudgetInv, Erased
<1> QED
  BY <1>1, BudgetStep, PTL DEF Spec

\* The RAID commands of a file are carried out once, and once more at most for each
\* power loss and each failing write of the ROM: nothing else makes a POST repeat them,
\* whatever the files, the drives and the order of the failures.
THEOREM CommandsNotRepeated == Spec => []RunsBounded
<1>1. IInv => RunsBounded
  BY DEF IInv, CountInv, BudgetInv, RunsBounded
<1> QED
  BY <1>1, Invariance, PTL

-----------------------------------------------------------------------------
(* Types.                                                                  *)

\* A non-empty set of numbers has a smallest one.
LEMMA MinIn ==
  ASSUME NEW I \in SUBSET Nat, I # {}
  PROVE  \E x \in I : \A y \in I : x <= y
<1>1. PICK x \in I : \A y \in I : ~(<<y, x>> \in OpToRel(<, Nat))
  BY NatLessThanWellFounded, WFMin
<1>2. ASSUME NEW y \in I PROVE x <= y
  <2>1. <<y, x>> \notin {ss \in Nat \X Nat : ss[1] < ss[2]}
    BY <1>1, Zenon DEF OpToRel
  <2> QED
    BY <2>1
<1> QED
  BY <1>2

\* A menu without some of its drives is a menu.
LEMMA WithoutType ==
  ASSUME NEW S, NEW menu \in Seq(S), NEW ns
  PROVE  Without(menu, ns) \in Seq(S)
<1> DEFINE L == Len(menu)
           Gone == Numbered(menu, ns)
           Next1(r, j) == IF menu[j] \in Gone THEN r ELSE Append(r, menu[j])
           Rec(f, m) == \A j \in 0..m : f[j] = IF j = 0 THEN <<>> ELSE Next1(f[j - 1], j)
           B == {m \in 0..L : ~\E f \in [0..m -> Seq(S)] : Rec(f, m)}
<1>1. L \in Nat /\ \A j \in 1..L : menu[j] \in S
  OBVIOUS
<1> HIDE DEF Gone
<1>2. \A j \in 1..L : \A r \in Seq(S) : Next1(r, j) \in Seq(S)
  BY <1>1
<1> HIDE DEF Next1
<1>3. B = {}
  <2> SUFFICES ASSUME B # {} PROVE FALSE
    OBVIOUS
  <2>1. B \in SUBSET Nat
    BY <1>1
  <2>2. PICK m \in B : \A y \in B : m <= y
    BY <2>1, MinIn
  <2>3. CASE m = 0
    <3>1. [j \in 0..0 |-> <<>>] \in [0..0 -> Seq(S)] /\ Rec([j \in 0..0 |-> <<>>], 0)
      OBVIOUS
    <3> QED
      BY <2>2, <2>3, <3>1
  <2>4. CASE m # 0
    <3>1. m \in 1..L /\ m - 1 \in 0..L /\ m - 1 \notin B
      <4>1. m \in 0..L
        BY <2>2
      <4> HIDE DEF B
      <4> QED
        BY <1>1, <2>2, <2>4, <4>1
    <3>2. PICK f \in [0..(m - 1) -> Seq(S)] : Rec(f, m - 1)
      BY <3>1
    <3> DEFINE e == Next1(f[m - 1], m)
               g == [j \in 0..m |-> IF j = m THEN e ELSE f[j]]
    <3>3. e \in Seq(S)
      <4>1. f[m - 1] \in Seq(S)
        BY <3>1, <3>2
      <4> QED
        BY <1>2, <3>1, <4>1
    <3>4. \A j \in 0..(m - 1) : j \in 0..m /\ j # m /\ f[j] \in Seq(S)
      <4>1. \A j \in 0..(m - 1) : j \in 0..m /\ j # m
        BY <3>1
      <4>2. \A j \in 0..(m - 1) : f[j] \in Seq(S)
        BY <3>2
      <4> QED
        BY <4>1, <4>2
    <3>5. \A j \in 0..m : j = m \/ j \in 0..(m - 1)
      BY <3>1
    <3> HIDE DEF e
    <3>6. g \in [0..m -> Seq(S)]
      BY <3>3, <3>4, <3>5
    <3>7. ASSUME NEW j \in 0..m PROVE g[j] = IF j = 0 THEN <<>> ELSE Next1(g[j - 1], j)
      <4>1. CASE j = m
        <5>1. m - 1 \in 0..m /\ m - 1 # m /\ m # 0 /\ m \in 0..m
          BY <3>1
        <5>2. g[m] = e /\ g[m - 1] = f[m - 1]
          BY <5>1
        <5> QED
          BY <4>1, <5>1, <5>2 DEF e
      <4>2. CASE j \in 0..(m - 1)
        <5>1. j # 0 => j - 1 \in 0..m /\ j - 1 # m
          BY <3>1, <4>2
        <5>2. f[j] = IF j = 0 THEN <<>> ELSE Next1(f[j - 1], j)
          BY <3>2, <4>2
        <5>3. g[j] = f[j] /\ (j # 0 => g[j - 1] = f[j - 1])
          BY <3>4, <4>2, <5>1
        <5> QED
          BY <5>2, <5>3
      <4> QED
        BY <3>5, <4>1, <4>2
    <3>8. Rec(g, m)
      BY <3>7
    <3> QED
      BY <2>2, <3>6, <3>8
  <2> QED
    BY <2>3, <2>4
<1>4. PICK f \in [0..L -> Seq(S)] : Rec(f, L)
  <2>1. L \in 0..L
    BY <1>1
  <2>2. L \notin B
    <3> HIDE DEF B
    <3> QED
      BY <1>3
  <2> QED
    BY <2>1, <2>2
<1>5. f = [j \in 0..L |-> IF j = 0 THEN <<>> ELSE Next1(f[j - 1], j)]
  BY <1>4
<1> DEFINE h == CHOOSE h : h = [j \in 0..L |-> IF j = 0 THEN <<>> ELSE Next1(h[j - 1], j)]
<1>6. h = [j \in 0..L |-> IF j = 0 THEN <<>> ELSE Next1(h[j - 1], j)]
  BY <1>5
<1>7. Without(menu, ns) = h[L]
  BY DEF Without, Next1, Gone
<1> HIDE DEF h
<1>8. {j \in 0..L : h[j] # f[j]} = {}
  <2> DEFINE D == {j \in 0..L : h[j] # f[j]}
  <2> SUFFICES ASSUME D # {} PROVE FALSE
    OBVIOUS
  <2>1. D \in SUBSET Nat
    BY <1>1
  <2>2. PICK m \in D : \A y \in D : m <= y
    BY <2>1, MinIn
  <2>3. m \in 0..L /\ h[m] # f[m]
    BY <2>2
  <2>4. /\ h[m] = IF m = 0 THEN <<>> ELSE Next1(h[m - 1], m)
        /\ f[m] = IF m = 0 THEN <<>> ELSE Next1(f[m - 1], m)
    BY <1>5, <1>6, <2>3
  <2>5. m # 0 /\ h[m - 1] # f[m - 1]
    BY <2>3, <2>4
  <2>6. m - 1 \in D
    BY <1>1, <2>3, <2>5
  <2> HIDE DEF D
  <2> QED
    BY <2>2, <2>3, <2>6
<1>9. h[L] = f[L] /\ f[L] \in Seq(S)
  BY <1>1, <1>4, <1>8
<1> QED
  BY <1>7, <1>9

\* What a failing write leaves of a file is a file.
LEMMA TornTypes ==
  ASSUME NEW f \in File, NEW g \in TornFiles(f)
  PROVE  g \in File
<1>1. Erased \in File
  BY DEF Erased, File
<1>2. ASSUME NEW n \in 0..Len(f.recs), g = [f EXCEPT !.recs = SubSeq(f.recs, 1, n), !.torn = 1]
      PROVE  g \in File
  <2> HIDE DEF Record
  <2>1. f.recs \in Seq(Record)
    BY DEF File
  <2>2. SubSeq(f.recs, 1, n) \in Seq(Record)
    BY <2>1, SubSeqProperties
  <2> QED
    BY <1>2, <2>2 DEF File
<1> QED
  BY <1>1, <1>2 DEF TornFiles

\* A write of the ROM leaves files and flags in it.
LEMMA WriteTypes ==
  ASSUME TypeOK, NEW f \in File, NEW b \in [smc : {0, 1}, restore : {0, 1}], WriteRom(f, b)
  PROVE  /\ inband' \in File /\ bmcRegion' \in [smc : {0, 1}, restore : {0, 1}]
         /\ romFaults' \in 0..MaxRomFault
<1>1. romFaults' \in 0..MaxRomFault
  BY BiosCfgBoundsAssumption DEF WriteRom, RomFault, TypeOK
<1>2. inband \in File
  BY DEF TypeOK
<1>3. bmcRegion' \in [smc : {0, 1}, restore : {0, 1}]
  <2>1. bmcRegion' \in {bmcRegion, b, [smc |-> 0, restore |-> 1]}
    BY DEF WriteRom
  <2> QED
    BY <2>1 DEF TypeOK
<1>4. inband' \in {inband, f} \cup TornFiles(inband) \cup TornFiles(f)
  BY DEF WriteRom
<1>5. inband' \in File
  BY <1>2, <1>4, TornTypes
<1> QED
  BY <1>1, <1>3, <1>5

\* The file that arrives.
LEMMA ArriveTypes ==
  ASSUME TypeOK, NEW f \in Files, Arrive(f), pc' \in Step
  PROVE  TypeOK'
<1>1. f \in File /\ f \in Files \cup {None}
  BY BiosCfgAssumption
<1>2. bmcRegion \in [smc : {0, 1}, restore : {0, 1}]
  BY DEF TypeOK
<1>3. /\ inband' \in File /\ bmcRegion' \in [smc : {0, 1}, restore : {0, 1}]
      /\ romFaults' \in 0..MaxRomFault
  BY <1>1, <1>2, WriteTypes DEF Arrive
<1>4. files' \in 0..MaxFiles
  BY BiosCfgBoundsAssumption DEF Arrive, TypeOK
<1>5. goal' \in Files \cup {None}
  BY <1>1 DEF Arrive
<1> HIDE DEF File, Step
<1> QED
  BY <1>3, <1>4, <1>5 DEF TypeOK, Arrive, nvVars

\* The records of a file.
LEMMA RecordTypes ==
  ASSUME TypeOK, AtRecord
  PROVE  /\ rec \in Record /\ i \in 1..Len(inband.recs)
         /\ rec.var \in Var
         /\ rec.var = RaidCmd => rec.data \in Commands
         /\ Accepted(rec) => rec.var \in Var \ {RaidCmd} /\ rec.data \in Data
<1>1. inband.recs \in Seq(Record) /\ i \in Nat \ {0} /\ i <= Len(inband.recs)
  BY DEF TypeOK, File, AtRecord
<1>2. i \in 1..Len(inband.recs) /\ rec \in Record
  <2> HIDE DEF Record
  <2>1. Len(inband.recs) \in Nat
    BY <1>1
  <2>2. i \in 1..Len(inband.recs)
    BY <1>1, <2>1
  <2> QED
    BY <1>1, <2>2 DEF rec
<1> HIDE DEF rec, Commands
<1> QED
  BY <1>2, BiosCfgAssumption DEF Record, Accepted

\* Every step keeps the types.
LEMMA TypeStep ==
  ASSUME TypeOK, IInv, [Next]_vars
  PROVE  TypeOK'
<1> USE DEF nvVars, romVars, raidVars, fileVars, faultVars, Step
<1> HIDE DEF File, Commands
<1>a. /\ MaxFiles \in Nat /\ MaxNvFault \in Nat /\ MaxRomFault \in Nat
      /\ MaxRaidFault \in Nat /\ MaxCrash \in Nat /\ MaxLong \in Nat
  BY BiosCfgBoundsAssumption
<1>1. CASE SmcResetConfig
  BY <1>1, BiosCfgAssumption DEF SmcResetConfig, TypeOK
<1>2. CASE NoDownload \/ NoUpdate \/ EndOfRecords \/ TornRecord \/ Shutdown
  BY <1>2 DEF NoDownload, NoUpdate, EndOfRecords, TornRecord, Shutdown, TypeOK
<1>3. CASE DeleteLoadDefault
  BY <1>3, <1>a DEF DeleteLoadDefault, NvFault, TypeOK
<1>4. CASE StartUpdate
  BY <1>4 DEF StartUpdate, TypeOK
<1>5. CASE SetLoadDefault
  BY <1>5, <1>a DEF SetLoadDefault, NvFault, TypeOK
<1>6. CASE UpdateVariable
  <2>1. rec.var \in Var \ {RaidCmd} /\ rec.data \in Data
    BY <1>6, RecordTypes DEF UpdateVariable
  <2>2. nv' \in [Var \ {RaidCmd} -> Data \cup {None}]
    BY <1>6, <2>1 DEF UpdateVariable, TypeOK
  <2>3. nvFaults' \in 0..MaxNvFault /\ i' \in Nat \ {0}
    BY <1>6, <1>a DEF UpdateVariable, NvFault, TypeOK
  <2> QED
    BY <1>6, <2>2, <2>3 DEF UpdateVariable, TypeOK
<1>7. CASE CollectData
  <2>1. rec.data \in Commands
    BY <1>7, RecordTypes DEF CollectData
  <2>2. rec.data \in Commands /\ collected \in Seq(Commands)
    BY <2>1 DEF TypeOK
  <2>3. collected' \in Seq(Commands)
    <3>1. collected' = Append(collected, rec.data) \/ collected' = collected
      BY <1>7 DEF CollectData
    <3> QED
      BY <2>2, <3>1
  <2>4. i' \in Nat \ {0}
    BY <1>7 DEF CollectData, TypeOK
  <2> QED
    BY <1>7, <2>3, <2>4 DEF CollectData, TypeOK
<1>8. CASE SkipRecord
  BY <1>8 DEF SkipRecord, TypeOK
<1>9. CASE CombineBiosCfg
  BY <1>9 DEF CombineBiosCfg, TypeOK
<1>10. CASE CreateLongName
  BY <1>10, <1>a DEF CreateLongName, TypeOK
<1>11. CASE PowerLoss
  BY <1>11, <1>a DEF PowerLoss, TypeOK
<1>12. ASSUME NEW up \in {0, 1}, StartRaidDriver(up)
      PROVE  TypeOK'
  BY <1>12 DEF StartRaidDriver, TypeOK
<1>13. CASE ScanAgain
  BY <1>13 DEF ScanAgain, vars, TypeOK
<1>14. CASE OobLoadDefaultPreSetting
  <2> DEFINE b == [bmcRegion EXCEPT !.restore = 1]
  <2>1. b \in [smc : {0, 1}, restore : {0, 1}] /\ inband \in File
    BY DEF TypeOK
  <2>2. UNCHANGED <<inband, bmcRegion, romFaults>> \/ WriteRom(inband, b)
    BY <1>14 DEF OobLoadDefaultPreSetting
  <2> HIDE DEF b
  <2>3. /\ inband' \in File /\ bmcRegion' \in [smc : {0, 1}, restore : {0, 1}]
        /\ romFaults' \in 0..MaxRomFault
    <3>1. CASE UNCHANGED <<inband, bmcRegion, romFaults>>
      BY <3>1 DEF TypeOK
    <3>2. CASE WriteRom(inband, b)
      BY <2>1, <3>2, WriteTypes
    <3> QED
      BY <2>2, <3>1, <3>2
  <2>4. pc' \in Step
    BY <1>14 DEF OobLoadDefaultPreSetting
  <2> QED
    BY <1>14, <2>3, <2>4 DEF OobLoadDefaultPreSetting, TypeOK
<1>15. CASE HandleDataStart
  <2>1. arrays \in Seq(Array) /\ runs \in Nat /\ raidFaults \in 0..MaxRaidFault
    BY DEF TypeOK
  <2>2. arrays' \in Seq(Array) /\ runs' \in Nat /\ raidFaults' \in 0..MaxRaidFault
    <3>1. CASE collected = <<>>
      BY <1>15, <2>1, <3>1 DEF HandleDataStart
    <3>2. CASE collected # <<>>
      <4>1. PICK S : /\ arrays' = Without(arrays, S) /\ runs' = runs + 1
                     /\ \/ raidFaults' = raidFaults
                        \/ raidFaults < MaxRaidFault /\ raidFaults' = raidFaults + 1
        BY <1>15, <3>2 DEF HandleDataStart
      <4>2. arrays' \in Seq(Array)
        BY <2>1, <4>1, WithoutType
      <4>3. runs' \in Nat /\ raidFaults' \in 0..MaxRaidFault
        BY <1>a, <2>1, <4>1
      <4> QED
        BY <4>2, <4>3
    <3> QED
      BY <3>1, <3>2
  <2>3. collected' \in Seq(Commands) /\ pc' \in Step
    BY <1>15 DEF HandleDataStart
  <2> QED
    BY <1>15, <2>2, <2>3 DEF HandleDataStart, TypeOK
<1>16. CASE EraseRegion
  <2>1. Erased \in File /\ bmcRegion \in [smc : {0, 1}, restore : {0, 1}]
    BY DEF Erased, File, TypeOK
  <2>2. /\ inband' \in File /\ bmcRegion' \in [smc : {0, 1}, restore : {0, 1}]
        /\ romFaults' \in 0..MaxRomFault
    BY <1>16, <2>1, WriteTypes DEF EraseRegion
  <2> QED
    BY <1>16, <2>2 DEF EraseRegion, TypeOK
<1>17. ASSUME NEW f \in Files, DownloadBiosCfgFromBMC(f) \/ DownloadDataFromRAM(f)
      PROVE  TypeOK'
  <2>1. Arrive(f) /\ pc' \in {"driver", "os"}
    BY <1>17 DEF DownloadBiosCfgFromBMC, DownloadDataFromRAM
  <2> QED
    BY <2>1, ArriveTypes
<1>18. CASE UNCHANGED vars
  BY <1>18 DEF vars, TypeOK
<1> QED
  BY <1>1, <1>2, <1>3, <1>4, <1>5, <1>6, <1>7, <1>8, <1>9, <1>10, <1>11, <1>12, <1>13,
     <1>14, <1>15, <1>16, <1>17, <1>18 DEF Next, Bios, Environment

\* Every variable keeps its type, for any files and drives: no record of another size
\* gets into the NVRAM, and what a failing write leaves in the region is a file.
THEOREM TypeCorrect == Spec => []TypeOK
<1>1. ASSUME Init PROVE TypeOK
  <2>1. Erased \in File
    BY DEF Erased, File
  <2>2. Arrays \in Seq(Array) /\ Default \in [Var \ {RaidCmd} -> Data \cup {None}]
    BY BiosCfgAssumption
  <2>3. bmcRegion \in [smc : {0, 1}, restore : {0, 1}]
    BY <1>1 DEF Init
  <2> HIDE DEF File
  <2> QED
    BY <1>1, <2>1, <2>2, <2>3, BiosCfgBoundsAssumption DEF Init, TypeOK, Step
<1> QED
  BY <1>1, Invariance, TypeStep, PTL DEF Spec

-----------------------------------------------------------------------------
(* What a file does to the variables and to the drives.                    *)

\* A variable exists exactly if it has a default.
ExistsInv == \A v \in Var \ {RaidCmd} : nv[v] = None <=> Default[v] = None

\* The region holds the last file, what a failing write has left of it, or nothing.
Prefix ==
  /\ inband.flag = goal.flag /\ inband.torn = 1 /\ romFaults # 0
  /\ Len(inband.recs) <= Len(goal.recs)
  /\ \A n \in 1..Len(inband.recs) : inband.recs[n] = goal.recs[n]

RegionInv ==
  /\ goal # None => inband = goal \/ inband.flag = "idle" \/ Prefix
  /\ pc \in {"record", "handle"} => inband.flag = "update" /\ i <= Len(inband.recs) + 1
  /\ pc = "handle" /\ inband.torn = 0 => i = Len(inband.recs) + 1
  /\ pc \in {"setDefault", "preset"} => inband.flag = "default"
  /\ pc = "combine" => inband.flag = "idle"

\* The variable that asks for the defaults: the PEI phase has carried it out before it
\* is deleted, and a request for the defaults is erased only behind it.
DefaultInv ==
  /\ pc \in {"download", "driver", "unflag"} /\ loadDefault = 1 => nv = Default
  /\ nvFaults = 0 =>
       /\ pc \in {"update", "record", "handle", "combine", "os"} => loadDefault = 0
       /\ goal # None /\ goal.flag = "update" /\ (pc = "erase" \/ inband # goal) =>
            loadDefault = 0
       /\ goal # None /\ goal.flag = "default" =>
            /\ pc \in {"preset", "erase"} => loadDefault = 1
            /\ inband.flag = "idle" => loadDefault = 1 \/ nv = Default

\* Record n is the last of file f for variable v, among those before record j.
LastBefore(f, v, n, j) ==
  /\ n \in Sets(f, v) /\ n < j
  /\ \A m \in Sets(f, v) : m < j => m <= n

\* The records before j have taken effect.
AppliedBefore(j) ==
  \A v \in PlatformVar : \A n \in 1..Len(goal.recs) :
    Default[v] # None /\ LastBefore(goal, v, n, j) => nv[v] = goal.recs[n].data

\* The file has taken effect, as far as a torn file cannot be applied again.
AppliedAll ==
  \A v \in PlatformVar : \A n \in 1..Len(goal.recs) :
    /\ Default[v] # None /\ LastBefore(goal, v, n, Len(goal.recs) + 1)
    /\ romFaults = 0 \/ Sets(goal, v) = {n}
    => nv[v] = goal.recs[n].data

EffectInv ==
  /\ pc = "os" => smram = nv
  /\ nvFaults = 0 /\ goal # None /\ goal.flag = "update" =>
       /\ pc \in {"record", "handle"} /\ inband = goal => AppliedBefore(i)
       /\ pc = "erase" \/ inband # goal => AppliedAll

\* What the RAID driver has collected of the last file begins with its first record.
CollectedInv ==
  /\ pc \in {"unflag", "update"} => collected = <<>>
  /\ goal # None /\ romFaults = 0 /\ pc \in {"record", "handle"} =>
       \/ collected = <<>> /\ (raidUp = 1 =>
            \A n \in 1..Len(goal.recs) : n < i => goal.recs[n].var # RaidCmd)
       \/ /\ collected # <<>>
          /\ \E n \in 1..Len(goal.recs) :
               n < i /\ FirstCommands(goal, n) /\ Head(collected) = goal.recs[n].data

EInv == ExistsInv /\ RegionInv /\ DefaultInv /\ EffectInv /\ CollectedInv /\ ExactArrays

\* What a failing write leaves of a file is idle or begins like the file.
LEMMA TornIs ==
  ASSUME NEW f \in File, NEW g \in TornFiles(f)
  PROVE  \/ g.flag = "idle"
         \/ /\ g.flag = f.flag /\ g.torn = 1 /\ Len(g.recs) <= Len(f.recs)
            /\ \A n \in 1..Len(g.recs) : g.recs[n] = f.recs[n]
<1>1. CASE g = Erased
  BY <1>1 DEF Erased
<1>2. ASSUME NEW n \in 0..Len(f.recs), g = [f EXCEPT !.recs = SubSeq(f.recs, 1, n), !.torn = 1]
      PROVE  /\ g.flag = f.flag /\ g.torn = 1 /\ Len(g.recs) <= Len(f.recs)
             /\ \A m \in 1..Len(g.recs) : g.recs[m] = f.recs[m]
  <2> DEFINE s == f.recs
  <2>1. s \in Seq(Record) /\ f = [flag |-> f.flag, recs |-> s, torn |-> f.torn]
    BY DEF File
  <2>2. g.flag = f.flag /\ g.torn = 1 /\ g.recs = SubSeq(s, 1, n)
    BY <1>2, <2>1
  <2> HIDE DEF Record, s
  <2>3. Len(s) \in Nat /\ n \in 0..Len(s)
    BY <2>1 DEF s
  <2>4. Len(SubSeq(s, 1, n)) = n /\ \A m \in 1..n : SubSeq(s, 1, n)[m] = s[m]
    BY <2>1, <2>3, SubSeqProperties
  <2> QED
    BY <2>2, <2>3, <2>4 DEF s
<1> QED
  BY <1>1, <1>2 DEF TornFiles

\* The last file, in terms of the region.
GoalKept == goal # None => inband = goal \/ inband.flag = "idle" \/ Prefix

\* A write of the ROM behind the arrival of a file keeps the relation.
LEMMA RomLeaves ==
  ASSUME TypeOK, GoalKept, NEW f, NEW b, f \in {inband, Erased}, WriteRom(f, b), UNCHANGED goal
  PROVE  GoalKept' /\ romFaults' \in Nat /\ (romFaults' = 0 => romFaults = 0)
<1>1. romFaults \in Nat /\ inband \in File /\ Erased \in File
  BY DEF TypeOK, Erased, File
<1>2. romFaults' \in Nat /\ (romFaults' = 0 => romFaults = 0)
  BY <1>1 DEF WriteRom, RomFault
<1> SUFFICES GoalKept'
  BY <1>2
<1>3. CASE inband' = f /\ romFaults' = romFaults
  BY <1>3 DEF GoalKept, Prefix, Erased
<1>4. CASE romFaults' = romFaults + 1 /\ inband' \in {inband, f} \cup TornFiles(inband) \cup TornFiles(f)
  <2>1. romFaults' # 0
    BY <1>1, <1>4
  <2>2. CASE inband' = inband \/ inband' = Erased
    BY <2>1, <2>2 DEF GoalKept, Prefix, Erased
  <2>3. CASE inband' \in TornFiles(inband)
    <3>1. \/ inband'.flag = "idle"
          \/ /\ inband'.flag = inband.flag /\ inband'.torn = 1
             /\ Len(inband'.recs) <= Len(inband.recs)
             /\ \A n \in 1..Len(inband'.recs) : inband'.recs[n] = inband.recs[n]
      BY <1>1, <2>3, TornIs
    <3> SUFFICES ASSUME goal # None, inband'.flag # "idle" PROVE Prefix'
      BY DEF GoalKept
    <3>2. inband = goal \/ Prefix
      BY <3>1 DEF GoalKept
    <3>3. goal.flag = inband.flag /\ Len(inband.recs) <= Len(goal.recs)
          /\ \A n \in 1..Len(inband.recs) : inband.recs[n] = goal.recs[n]
      <4>1. Len(inband.recs) \in Nat
        BY <1>1 DEF File
      <4> QED
        BY <3>2, <4>1 DEF Prefix
    <3>4. Len(inband'.recs) \in Nat /\ Len(inband.recs) \in Nat /\ Len(goal.recs) \in Nat
      <4>1. inband' \in File
        BY <1>1, <2>3, TornTypes
      <4>2. goal \in File
        BY BiosCfgAssumption DEF TypeOK
      <4> QED
        BY <1>1, <4>1, <4>2 DEF File
    <3>5. Len(inband'.recs) <= Len(goal.recs)
      BY <3>1, <3>3, <3>4
    <3>6. ASSUME NEW n \in 1..Len(inband'.recs) PROVE inband'.recs[n] = goal.recs[n]
      <4>1. n \in 1..Len(inband.recs)
        BY <3>1, <3>4
      <4> QED
        BY <3>1, <3>3, <4>1
    <3> QED
      BY <2>1, <3>1, <3>3, <3>5, <3>6 DEF Prefix
  <2>4. CASE inband' \in TornFiles(f) /\ f = Erased
    <3>1. inband'.flag = "idle"
      BY <1>1, <2>4, TornIs DEF Erased
    <3> QED
      BY <3>1 DEF GoalKept
  <2> QED
    BY <1>4, <2>2, <2>3, <2>4
<1> QED
  BY <1>3, <1>4 DEF WriteRom, RomFault

\* A file that arrived undamaged is the one in the region.
LEMMA ArriveIs ==
  ASSUME TypeOK, NEW f \in Files, Arrive(f)
  PROVE  /\ goal' # None => inband' = goal'
         /\ seen' = arrays /\ runs' = 0 /\ romFaults' \in Nat /\ (romFaults' = 0 => romFaults = 0)
         /\ UNCHANGED <<nv, loadDefault, longNames, arrays, raidUp, collected, i, smram,
                        nvFaults, crashes>>
BY DEF Arrive, WriteRom, RomFault, TypeOK, nvVars

\* The region from step to step.
LEMMA RegionStep ==
  ASSUME TypeOK, IInv, RegionInv, [Next]_vars
  PROVE  RegionInv'
<1> USE DEF nvVars, romVars, raidVars, fileVars, faultVars
<1>a. GoalKept /\ i \in Nat /\ inband.recs \in Seq(Record) /\ inband.torn \in {0, 1}
      /\ inband.flag \in {"idle", "update", "default"}
  BY DEF RegionInv, GoalKept, TypeOK, File
<1>b. Len(inband.recs) \in Nat
  BY <1>a
<1>1. CASE SmcResetConfig \/ NoDownload \/ NoUpdate \/ Shutdown \/ DeleteLoadDefault
           \/ SetLoadDefault \/ CombineBiosCfg \/ CreateLongName \/ PowerLoss \/ HandleDataStart
  BY <1>1 DEF SmcResetConfig, NoDownload, NoUpdate, Shutdown, DeleteLoadDefault,
       SetLoadDefault, CombineBiosCfg, CreateLongName, PowerLoss, HandleDataStart,
       RegionInv, Prefix
<1>2. CASE StartUpdate
  BY <1>2, <1>a, <1>b DEF StartUpdate, RegionInv, Prefix
<1>3. CASE UpdateVariable \/ CollectData \/ SkipRecord
  <2>1. /\ pc = "record" /\ i <= Len(inband.recs) /\ i' = i + 1
        /\ UNCHANGED <<pc, inband, goal, romFaults>>
    BY <1>3 DEF UpdateVariable, CollectData, SkipRecord, AtRecord
  <2>2. i' <= Len(inband.recs) + 1
    BY <1>a, <1>b, <2>1
  <2> QED
    BY <2>1, <2>2 DEF RegionInv, Prefix
<1>4. CASE EndOfRecords \/ TornRecord
  <2>1. /\ pc = "record" /\ i > Len(inband.recs) /\ UNCHANGED <<inband, goal, romFaults, i>>
        /\ pc' \in {"dead", "reset", "handle"}
    BY <1>4 DEF EndOfRecords, TornRecord
  <2>2. i = Len(inband.recs) + 1
    BY <1>a, <1>b, <2>1 DEF RegionInv
  <2> QED
    BY <2>1, <2>2 DEF RegionInv, Prefix
<1>5. ASSUME NEW up \in {0, 1}, StartRaidDriver(up) PROVE RegionInv'
  BY <1>5 DEF StartRaidDriver, RegionInv, Prefix
<1>6. CASE ScanAgain \/ UNCHANGED vars
  BY <1>6 DEF ScanAgain, vars, RegionInv, Prefix
<1>7. CASE OobLoadDefaultPreSetting
  <2>1. pc' = "erase" /\ UNCHANGED goal
    BY <1>7 DEF OobLoadDefaultPreSetting
  <2>2. UNCHANGED <<inband, romFaults>> \/ WriteRom(inband, [bmcRegion EXCEPT !.restore = 1])
    BY <1>7 DEF OobLoadDefaultPreSetting
  <2>3. GoalKept'
    <3>1. CASE UNCHANGED <<inband, romFaults>>
      BY <1>a, <2>1, <3>1 DEF GoalKept, Prefix
    <3>2. CASE WriteRom(inband, [bmcRegion EXCEPT !.restore = 1])
      BY <1>a, <2>1, <3>2, RomLeaves
    <3> QED
      BY <2>2, <3>1, <3>2
  <2> QED
    BY <2>1, <2>3 DEF RegionInv, GoalKept
<1>8. CASE EraseRegion
  <2>1. pc' = "reset" /\ UNCHANGED goal /\ WriteRom(Erased, bmcRegion)
    BY <1>8 DEF EraseRegion
  <2>2. GoalKept'
    BY <1>a, <2>1, RomLeaves
  <2> QED
    BY <2>1, <2>2 DEF RegionInv, GoalKept
<1>9. ASSUME NEW f \in Files, DownloadBiosCfgFromBMC(f) \/ DownloadDataFromRAM(f)
      PROVE  RegionInv'
  <2>1. Arrive(f) /\ pc' \in {"driver", "os"}
    BY <1>9 DEF DownloadBiosCfgFromBMC, DownloadDataFromRAM
  <2> QED
    BY <2>1, ArriveIs DEF RegionInv
<1> QED
  BY <1>1, <1>2, <1>3, <1>4, <1>5, <1>6, <1>7, <1>8, <1>9 DEF Next, Bios, Environment

\* Variables are neither created nor deleted.
LEMMA ExistsStep ==
  ASSUME TypeOK, ExistsInv, [Next]_vars
  PROVE  ExistsInv'
<1> USE DEF nvVars, romVars, raidVars, fileVars, faultVars
<1>1. CASE SmcResetConfig
  BY <1>1 DEF SmcResetConfig, ExistsInv
<1>2. CASE UpdateVariable
  <2>1. /\ rec.var \in Var \ {RaidCmd} /\ rec.data \in Data /\ nv[rec.var] # None
        /\ nv' = nv \/ nv' = [nv EXCEPT ![rec.var] = rec.data]
    BY <1>2, RecordTypes DEF UpdateVariable, Accepted
  <2>2. rec.data # None /\ nv \in [Var \ {RaidCmd} -> Data \cup {None}]
    BY <2>1, BiosCfgAssumption DEF TypeOK
  <2> HIDE DEF rec
  <2> QED
    BY <2>1, <2>2 DEF ExistsInv
<1>3. CASE UNCHANGED nv
  BY <1>3 DEF ExistsInv
<1>4. SmcResetConfig \/ UpdateVariable \/ UNCHANGED nv
  BY DEF Next, Bios, Environment, vars, NoDownload, NoUpdate, Shutdown, DeleteLoadDefault,
     SetLoadDefault, CombineBiosCfg, CreateLongName, PowerLoss, HandleDataStart, StartUpdate,
     CollectData, SkipRecord, EndOfRecords, TornRecord, StartRaidDriver, ScanAgain,
     OobLoadDefaultPreSetting, EraseRegion, DownloadBiosCfgFromBMC, DownloadDataFromRAM, Arrive
<1> QED
  BY <1>1, <1>2, <1>3, <1>4

\* While a file is processed the last file is of the same kind.
LEMMA KindOf ==
  ASSUME TypeOK, RegionInv, goal # None
  PROVE  /\ pc \in {"setDefault", "preset"} => goal.flag = "default"
         /\ pc \in {"record", "handle"} => goal.flag = "update" /\ (inband = goal \/ Prefix)
         /\ inband.flag = "idle" /\ goal.flag # "idle" => inband # goal
         /\ goal \in File /\ goal.torn = 0 /\ goal.recs \in Seq(Record)
<1>1. goal \in File /\ goal.torn = 0
  BY BiosCfgAssumption DEF TypeOK
<1>2. goal.recs \in Seq(Record)
  BY <1>1 DEF File
<1> QED
  BY <1>1, <1>2 DEF RegionInv, Prefix

\* The request for the defaults from step to step.
LEMMA DefaultStep ==
  ASSUME TypeOK, IInv, RegionInv, DefaultInv, [Next]_vars
  PROVE  DefaultInv'
<1> USE DEF nvVars, romVars, raidVars, fileVars, faultVars
<1>a. /\ nvFaults \in Nat /\ romFaults \in Nat /\ loadDefault \in {0, 1}
      /\ nvFaults + 1 # 0
  BY DEF TypeOK
<1>1. CASE SmcResetConfig
  BY <1>1 DEF SmcResetConfig, DefaultInv
<1>2. CASE NoDownload \/ NoUpdate \/ Shutdown \/ CombineBiosCfg \/ CreateLongName \/ PowerLoss
  BY <1>2 DEF NoDownload, NoUpdate, Shutdown, CombineBiosCfg, CreateLongName, PowerLoss, DefaultInv
<1>3. CASE DeleteLoadDefault
  BY <1>3, <1>a DEF DeleteLoadDefault, NvFault, DefaultInv
<1>4. CASE StartUpdate
  BY <1>4 DEF StartUpdate, DefaultInv
<1>5. CASE SetLoadDefault
  <2>1. goal # None => goal.flag = "default"
    BY <1>5, KindOf DEF SetLoadDefault
  <2> QED
    BY <1>5, <1>a, <2>1 DEF SetLoadDefault, NvFault, DefaultInv
<1>6. CASE UpdateVariable
  <2>1. pc = "record" /\ UNCHANGED <<pc, loadDefault, inband, goal>>
        /\ (nvFaults' = 0 => nvFaults = 0)
    BY <1>6, <1>a DEF UpdateVariable, AtRecord, NvFault
  <2>2. goal # None => goal.flag = "update"
    BY <2>1, KindOf
  <2> QED
    BY <2>1, <2>2 DEF DefaultInv
<1>7. CASE CollectData \/ SkipRecord
  BY <1>7 DEF CollectData, SkipRecord, DefaultInv
<1>8. CASE EndOfRecords \/ TornRecord
  BY <1>8 DEF EndOfRecords, TornRecord, DefaultInv
<1>9. CASE HandleDataStart
  <2>1. pc = "handle" /\ pc' = "erase" /\ UNCHANGED <<nv, loadDefault, inband, goal, nvFaults>>
    BY <1>9 DEF HandleDataStart
  <2>2. goal # None => goal.flag = "update"
    BY <2>1, KindOf
  <2> QED
    BY <2>1, <2>2 DEF DefaultInv
<1>10. ASSUME NEW up \in {0, 1}, StartRaidDriver(up) PROVE DefaultInv'
  BY <1>10 DEF StartRaidDriver, DefaultInv
<1>11. CASE ScanAgain \/ UNCHANGED vars
  BY <1>11 DEF ScanAgain, vars, DefaultInv
<1>12. CASE OobLoadDefaultPreSetting
  <2>1. pc = "preset" /\ pc' = "erase" /\ UNCHANGED <<nv, loadDefault, goal, nvFaults>>
    BY <1>12 DEF OobLoadDefaultPreSetting
  <2>2. goal # None => goal.flag = "default"
    BY <2>1, KindOf
  <2> QED
    BY <2>1, <2>2 DEF DefaultInv
<1>13. CASE EraseRegion
  <2>1. pc = "erase" /\ pc' = "reset" /\ UNCHANGED <<nv, loadDefault, goal, nvFaults>>
    BY <1>13 DEF EraseRegion
  <2> QED
    BY <2>1 DEF DefaultInv
<1>14. ASSUME NEW f \in Files, DownloadBiosCfgFromBMC(f) \/ DownloadDataFromRAM(f)
      PROVE  DefaultInv'
  <2>1. /\ Arrive(f)
        /\ (pc = "download" /\ pc' = "driver") \/ (pc = "os" /\ pc' = "os")
    BY <1>14 DEF DownloadBiosCfgFromBMC, DownloadDataFromRAM
  <2>2. /\ goal' # None => inband' = goal'
        /\ UNCHANGED <<nv, loadDefault, nvFaults>>
    BY <2>1, ArriveIs
  <2> QED
    BY <2>1, <2>2 DEF DefaultInv
<1> QED
  BY <1>1, <1>2, <1>3, <1>4, <1>5, <1>6, <1>7, <1>8, <1>9, <1>10, <1>11, <1>12, <1>13, <1>14
     DEF Next, Bios, Environment

\* The effect so far only depends on the variables and on the last file.
LEMMA AppliedSame ==
  ASSUME UNCHANGED <<nv, goal>>, romFaults' = 0 => romFaults = 0
  PROVE  /\ AppliedAll => AppliedAll'
         /\ \A j : AppliedBefore(j) => (AppliedBefore(j))'
BY DEF AppliedAll, AppliedBefore, LastBefore, Sets

\* A record that is accepted takes effect; one that is not is no record for a listed
\* variable.
LEMMA RecordApplied ==
  ASSUME TypeOK, RegionInv, ExistsInv, goal # None, AtRecord, inband = goal, AppliedBefore(i),
         UNCHANGED goal,
         \/ Accepted(rec) /\ nv' = [nv EXCEPT ![rec.var] = rec.data]
         \/ ~Accepted(rec) /\ nv' = nv
  PROVE  \A j : j = i + 1 => (AppliedBefore(j))'
<1> DEFINE s == goal.recs
           r == s[i]
<1>1. s \in Seq(Record) /\ i \in 1..Len(s) /\ Len(s) \in Nat /\ rec = r
  BY KindOf, RecordTypes DEF rec
<1>2. nv \in [Var \ {RaidCmd} -> Data \cup {None}] /\ PlatformVar \subseteq Var \ {RaidCmd}
  BY BiosCfgAssumption DEF TypeOK
<1> SUFFICES ASSUME NEW v \in PlatformVar, NEW n \in 1..Len(s),
                    Default[v] # None, LastBefore(goal, v, n, i + 1)
             PROVE  nv'[v] = s[n].data
  BY DEF AppliedBefore, LastBefore, Sets
<1>3. /\ n \in Sets(goal, v) /\ n < i + 1
      /\ \A m \in Sets(goal, v) : m < i + 1 => m <= n
  BY DEF LastBefore
<1>4. CASE n = i
  <2>1. r.var = v /\ r.data # Misfit
    BY <1>3, <1>4 DEF Sets
  <2>2. nv[v] # None
    BY <1>2 DEF ExistsInv
  <2>3. Accepted(rec)
    BY <1>1, <2>1, <2>2 DEF Accepted
  <2>4. nv' = [nv EXCEPT ![v] = r.data]
    BY <1>1, <2>1, <2>3
  <2> QED
    BY <1>2, <1>4, <2>4
<1>5. CASE n # i
  <2>1. n < i
    BY <1>1, <1>3, <1>5
  <2>2. \A m \in Sets(goal, v) : m < i => m <= n
    BY <1>1, <1>3 DEF Sets
  <2>3. nv[v] = s[n].data
    BY <1>3, <2>1, <2>2 DEF AppliedBefore, LastBefore
  <2>4. ~(r.var = v /\ r.data # Misfit)
    <3>1. i \notin Sets(goal, v)
      BY <1>1, <1>3, <2>1
    <3> QED
      BY <1>1, <3>1 DEF Sets
  <2>5. Accepted(rec) => rec.var # v
    BY <1>1, <2>4 DEF Accepted
  <2>6. nv'[v] = nv[v]
    BY <1>2, <2>5
  <2> QED
    BY <2>3, <2>6
<1> QED
  BY <1>4, <1>5

\* A torn file that is applied again does no harm to a variable with one record.
LEMMA TornApplied ==
  ASSUME TypeOK, RegionInv, goal # None, AtRecord, Prefix, AppliedAll,
         UNCHANGED <<goal, romFaults>>,
         Accepted(rec), nv' = [nv EXCEPT ![rec.var] = rec.data]
  PROVE  AppliedAll'
<1>1. romFaults # 0 /\ i \in 1..Len(inband.recs) /\ Len(inband.recs) <= Len(goal.recs)
  BY RecordTypes DEF Prefix
<1>2. rec = goal.recs[i]
  BY <1>1 DEF rec, Prefix
<1>3. nv \in [Var \ {RaidCmd} -> Data \cup {None}] /\ PlatformVar \subseteq Var \ {RaidCmd}
  BY BiosCfgAssumption DEF TypeOK
<1>4. i \in 1..Len(goal.recs)
  <2>1. Len(inband.recs) \in Nat /\ Len(goal.recs) \in Nat
    BY KindOf DEF TypeOK, File
  <2> QED
    BY <1>1, <2>1
<1> SUFFICES ASSUME NEW v \in PlatformVar, NEW n \in 1..Len(goal.recs),
                    Default[v] # None, LastBefore(goal, v, n, Len(goal.recs) + 1),
                    Sets(goal, v) = {n}
             PROVE  nv'[v] = goal.recs[n].data
  BY <1>1 DEF AppliedAll, LastBefore, Sets
<1>5. nv[v] = goal.recs[n].data
  BY DEF AppliedAll
<1>6. CASE rec.var = v
  <2>1. i \in Sets(goal, v)
    BY <1>2, <1>4, <1>6 DEF Sets, Accepted
  <2>2. i = n
    BY <2>1
  <2> HIDE DEF rec
  <2> QED
    BY <1>2, <1>3, <1>6, <2>2
<1>7. CASE rec.var # v
  <2> HIDE DEF rec
  <2> QED
    BY <1>3, <1>5, <1>7
<1> QED
  BY <1>6, <1>7

\* The effect of the file from step to step.
LEMMA EffectStep ==
  ASSUME TypeOK, IInv, ExistsInv, RegionInv, DefaultInv, EffectInv, [Next]_vars
  PROVE  EffectInv'
<1> USE DEF nvVars, romVars, raidVars, fileVars, faultVars
<1>a. /\ nvFaults \in Nat /\ romFaults \in Nat /\ nvFaults + 1 # 0 /\ i \in Nat
      /\ loadDefault \in {0, 1}
  BY DEF TypeOK
<1>1. CASE SmcResetConfig
  <2>1. /\ pc' = "download" /\ UNCHANGED <<goal, inband, nvFaults, romFaults, loadDefault>>
        /\ loadDefault = 0 => nv' = nv
    BY <1>1 DEF SmcResetConfig
  <2>2. nvFaults = 0 /\ goal # None /\ goal.flag = "update" /\ inband # goal => nv' = nv /\ AppliedAll
    BY <2>1 DEF DefaultInv, EffectInv
  <2> QED
    BY <2>1, <2>2, AppliedSame DEF EffectInv
<1>2. CASE NoDownload \/ NoUpdate \/ Shutdown \/ CreateLongName \/ PowerLoss \/ DeleteLoadDefault
           \/ SetLoadDefault \/ \E up \in {0, 1} : StartRaidDriver(up)
  <2>1. /\ UNCHANGED <<nv, goal, inband, romFaults, smram>> /\ (nvFaults' = 0 => nvFaults = 0)
        /\ pc' \notin {"record", "handle", "erase"} /\ (pc' = "os" => pc = "os")
    BY <1>2, <1>a DEF NoDownload, NoUpdate, Shutdown, CreateLongName, PowerLoss,
         DeleteLoadDefault, SetLoadDefault, StartRaidDriver, NvFault
  <2> QED
    BY <2>1, AppliedSame DEF EffectInv
<1>3. CASE CombineBiosCfg
  <2>1. /\ UNCHANGED <<nv, goal, inband, romFaults, nvFaults>> /\ pc' = "os" /\ smram' = nv
    BY <1>3 DEF CombineBiosCfg
  <2> QED
    BY <2>1, AppliedSame DEF EffectInv
<1>4. CASE StartUpdate
  <2>1. /\ UNCHANGED <<nv, goal, inband, romFaults, nvFaults>> /\ pc' \in {"setDefault", "record"}
        /\ i' = 1
    BY <1>4 DEF StartUpdate
  <2>2. AppliedBefore(i)'
    <3>1. \A n \in 1..Len(goal.recs) : ~(n < 1)
      OBVIOUS
    <3> QED
      BY <2>1, <3>1 DEF AppliedBefore, LastBefore
  <2> QED
    BY <2>1, <2>2, AppliedSame DEF EffectInv
<1>5. CASE UpdateVariable \/ CollectData \/ SkipRecord
  <2>1. /\ AtRecord /\ i' = i + 1 /\ UNCHANGED <<pc, goal, inband, romFaults>>
        /\ pc = "record" /\ (nvFaults' = 0 => nvFaults = 0)
    BY <1>5, <1>a DEF UpdateVariable, CollectData, SkipRecord, AtRecord, NvFault
  <2>2. nvFaults' = 0 => \/ Accepted(rec) /\ nv' = [nv EXCEPT ![rec.var] = rec.data]
                         \/ ~Accepted(rec) /\ nv' = nv
    <3>1. rec.var = RaidCmd => ~Accepted(rec)
      BY BiosCfgAssumption DEF Accepted
    <3> QED
      BY <1>5, <1>a, <3>1 DEF UpdateVariable, CollectData, SkipRecord, NvFault
  <2> SUFFICES ASSUME nvFaults' = 0, goal # None, goal.flag = "update"
               PROVE  /\ inband = goal => AppliedBefore(i)'
                      /\ inband # goal => AppliedAll'
    BY <2>1 DEF EffectInv
  <2>3. CASE inband = goal
    <3>1. AppliedBefore(i)
      BY <2>1, <2>3 DEF EffectInv
    <3>2. PICK j : j = i + 1
      OBVIOUS
    <3>3. (AppliedBefore(j))'
      BY <2>1, <2>2, <2>3, <3>1, <3>2, RecordApplied
    <3>4. j = i'
      BY <2>1, <3>2
    <3> QED
      BY <2>3, <3>3, <3>4 DEF AppliedBefore, LastBefore
  <2>4. CASE inband # goal
    <3>1. AppliedAll /\ Prefix
      BY <2>1, <2>4, KindOf DEF EffectInv
    <3>2. CASE Accepted(rec)
      BY <2>1, <2>2, <2>4, <3>1, <3>2, TornApplied
    <3>3. CASE ~Accepted(rec)
      BY <2>1, <2>2, <2>4, <3>1, <3>3, AppliedSame
    <3> QED
      BY <3>2, <3>3
  <2> QED
    BY <2>3, <2>4
<1>6. CASE EndOfRecords \/ TornRecord
  <2>1. /\ pc = "record" /\ UNCHANGED <<nv, inband, goal, romFaults, nvFaults, i>>
        /\ pc' \in {"dead", "reset", "handle"}
    BY <1>6 DEF EndOfRecords, TornRecord
  <2>2. AppliedBefore(i) => AppliedBefore(i)'
    BY <2>1 DEF AppliedBefore, LastBefore, Sets
  <2> QED
    BY <2>1, <2>2, AppliedSame DEF EffectInv
<1>7. CASE HandleDataStart
  <2>1. /\ pc = "handle" /\ pc' = "erase"
        /\ UNCHANGED <<nv, inband, goal, romFaults, nvFaults>>
    BY <1>7 DEF HandleDataStart
  <2>2. ASSUME nvFaults = 0, goal # None, goal.flag = "update" PROVE AppliedAll
    <3>1. CASE inband # goal
      BY <2>2, <3>1 DEF EffectInv
    <3>2. CASE inband = goal
      <4>1. i = Len(goal.recs) + 1
        BY <2>1, <2>2, <3>2, KindOf DEF RegionInv
      <4>2. AppliedBefore(i)
        BY <2>1, <2>2, <3>2 DEF EffectInv
      <4> QED
        BY <4>1, <4>2 DEF AppliedBefore, AppliedAll
    <3> QED
      BY <3>1, <3>2
  <2> QED
    BY <2>1, <2>2, AppliedSame DEF EffectInv
<1>8. CASE ScanAgain \/ UNCHANGED vars
  <2>1. UNCHANGED <<pc, nv, inband, goal, romFaults, nvFaults, i, smram>>
    BY <1>8 DEF ScanAgain, vars
  <2>2. AppliedBefore(i) => AppliedBefore(i)'
    BY <2>1 DEF AppliedBefore, LastBefore, Sets
  <2> QED
    BY <2>1, <2>2, AppliedSame DEF EffectInv
<1>9. CASE OobLoadDefaultPreSetting
  <2>1. pc = "preset" /\ pc' = "erase" /\ UNCHANGED goal
    BY <1>9 DEF OobLoadDefaultPreSetting
  <2>2. goal # None => goal.flag = "default"
    BY <2>1, KindOf
  <2> QED
    BY <2>1, <2>2 DEF EffectInv
<1>10. CASE EraseRegion
  <2>1. pc = "erase" /\ pc' = "reset" /\ UNCHANGED <<nv, goal, nvFaults>>
    BY <1>10 DEF EraseRegion
  <2>2. romFaults' = 0 => romFaults = 0
    BY <1>10, <1>a DEF EraseRegion, WriteRom, RomFault
  <2> QED
    BY <2>1, <2>2, AppliedSame DEF EffectInv
<1>11. ASSUME NEW f \in Files, DownloadBiosCfgFromBMC(f) \/ DownloadDataFromRAM(f)
      PROVE  EffectInv'
  <2>1. /\ Arrive(f) /\ pc' \in {"driver", "os"} /\ (pc' = "os" => pc = "os")
    BY <1>11 DEF DownloadBiosCfgFromBMC, DownloadDataFromRAM
  <2>2. /\ goal' # None => inband' = goal'
        /\ UNCHANGED <<nv, smram>>
    BY <2>1, ArriveIs
  <2> QED
    BY <2>1, <2>2 DEF EffectInv
<1> QED
  BY <1>1, <1>2, <1>3, <1>4, <1>5, <1>6, <1>7, <1>8, <1>9, <1>10, <1>11
     DEF Next, Bios, Environment

\* What is collected from step to step.
LEMMA CollectedStep ==
  ASSUME TypeOK, IInv, RegionInv, CollectedInv, [Next]_vars
  PROVE  CollectedInv'
<1> USE DEF nvVars, romVars, raidVars, fileVars, faultVars
<1> HIDE DEF Commands
<1>a. romFaults \in Nat /\ raidUp \in {0, 1} /\ i \in Nat /\ collected \in Seq(Commands)
  BY DEF TypeOK
<1>1. CASE SmcResetConfig \/ NoDownload \/ NoUpdate \/ Shutdown \/ CreateLongName \/ PowerLoss
           \/ SetLoadDefault \/ CombineBiosCfg \/ OobLoadDefaultPreSetting \/ HandleDataStart
           \/ EraseRegion \/ \E f \in Files : DownloadBiosCfgFromBMC(f) \/ DownloadDataFromRAM(f)
  <2>1. pc' \notin {"unflag", "update", "record", "handle"}
    BY <1>1 DEF SmcResetConfig, NoDownload, NoUpdate, Shutdown, CreateLongName, PowerLoss,
         SetLoadDefault, CombineBiosCfg, OobLoadDefaultPreSetting, HandleDataStart,
         EraseRegion, DownloadBiosCfgFromBMC, DownloadDataFromRAM
  <2> QED
    BY <2>1 DEF CollectedInv
<1>2. CASE DeleteLoadDefault \/ \E up \in {0, 1} : StartRaidDriver(up)
  BY <1>2 DEF DeleteLoadDefault, StartRaidDriver, CollectedInv
<1>3. CASE StartUpdate
  <2>1. collected' = <<>> /\ i' = 1 /\ pc' \in {"setDefault", "record"}
    BY <1>3 DEF StartUpdate, CollectedInv
  <2>2. \A n \in 1..Len(goal'.recs) : ~(n < 1)
    OBVIOUS
  <2> QED
    BY <2>1, <2>2 DEF CollectedInv
<1>4. CASE UpdateVariable \/ CollectData \/ SkipRecord
  <2>1. /\ AtRecord /\ i' = i + 1 /\ UNCHANGED <<pc, goal, inband, romFaults, raidUp>>
        /\ pc = "record"
    BY <1>4 DEF UpdateVariable, CollectData, SkipRecord, AtRecord
  <2>2. /\ rec.var = RaidCmd =>
             collected' = IF raidUp = 1 THEN Append(collected, rec.data) ELSE collected
        /\ rec.var # RaidCmd => collected' = collected
    <3>1. rec.var = RaidCmd => ~Accepted(rec)
      BY BiosCfgAssumption DEF Accepted
    <3> QED
      BY <1>4, <3>1 DEF UpdateVariable, CollectData, SkipRecord
  <2> SUFFICES ASSUME goal # None, romFaults = 0
               PROVE  \/ collected' = <<>> /\ (raidUp = 1 =>
                           \A n \in 1..Len(goal.recs) : n < i + 1 => goal.recs[n].var # RaidCmd)
                      \/ /\ collected' # <<>>
                         /\ \E n \in 1..Len(goal.recs) :
                              /\ n < i + 1 /\ FirstCommands(goal, n)
                              /\ Head(collected') = goal.recs[n].data
    BY <2>1 DEF CollectedInv, FirstCommands
  <2>3. inband = goal
    BY <2>1, KindOf DEF Prefix
  <2>4. i \in 1..Len(goal.recs) /\ Len(goal.recs) \in Nat /\ rec = goal.recs[i]
    BY <2>1, <2>3, KindOf, RecordTypes DEF rec
  <2>5. \A n \in 1..Len(goal.recs) : n < i + 1 <=> n < i \/ n = i
    BY <2>4
  <2>6. CASE collected # <<>>
    <3>1. PICK n \in 1..Len(goal.recs) :
            n < i /\ FirstCommands(goal, n) /\ Head(collected) = goal.recs[n].data
      BY <2>1, <2>6 DEF CollectedInv
    <3>2. collected' # <<>> /\ Head(collected') = Head(collected)
      <4>1. CASE collected' = collected
        BY <2>6, <4>1
      <4>2. CASE rec.var = RaidCmd /\ collected' = Append(collected, rec.data)
        <5> DEFINE e == rec.data
        <5>1. e \in Commands /\ collected' = Append(collected, e)
          BY <2>1, <4>2, RecordTypes
        <5> HIDE DEF e
        <5> QED
          BY <1>a, <2>6, <5>1
      <4> QED
        BY <2>2, <4>1, <4>2
    <3> QED
      BY <2>5, <3>1, <3>2
  <2>7. CASE collected = <<>> /\ (rec.var # RaidCmd \/ raidUp = 0)
    <3>1. collected' = <<>>
      BY <1>a, <2>2, <2>7
    <3>2. raidUp = 1 => \A n \in 1..Len(goal.recs) : n < i => goal.recs[n].var # RaidCmd
      BY <2>1, <2>7 DEF CollectedInv
    <3> QED
      BY <2>4, <2>5, <2>7, <3>1, <3>2
  <2>8. CASE collected = <<>> /\ rec.var = RaidCmd /\ raidUp = 1
    <3>1. \A n \in 1..Len(goal.recs) : n < i => goal.recs[n].var # RaidCmd
      BY <2>1, <2>8 DEF CollectedInv
    <3>2. FirstCommands(goal, i)
      <4>1. \A m \in 1..(i - 1) : m \in 1..Len(goal.recs) /\ m < i
        BY <2>4
      <4> QED
        BY <2>4, <2>8, <3>1, <4>1 DEF FirstCommands
    <3>3. collected' # <<>> /\ Head(collected') = goal.recs[i].data
      <4> DEFINE e == rec.data
      <4>1. e \in Commands /\ collected' = Append(<<>>, e) /\ e = goal.recs[i].data
        BY <2>1, <2>2, <2>4, <2>8, RecordTypes
      <4> HIDE DEF e
      <4> QED
        BY <4>1
    <3>4. i < i + 1
      BY <2>4
    <3> QED
      BY <2>4, <3>2, <3>3, <3>4
  <2> QED
    BY <1>a, <2>6, <2>7, <2>8
<1>5. CASE EndOfRecords \/ TornRecord
  <2>1. /\ pc = "record" /\ UNCHANGED <<goal, romFaults, i, raidUp, collected>>
        /\ pc' \in {"dead", "reset", "handle"}
    BY <1>5 DEF EndOfRecords, TornRecord
  <2> QED
    BY <2>1 DEF CollectedInv, FirstCommands
<1>6. CASE ScanAgain \/ UNCHANGED vars
  <2>1. UNCHANGED <<pc, goal, romFaults, i, raidUp, collected>>
    BY <1>6 DEF ScanAgain, vars
  <2> QED
    BY <2>1 DEF CollectedInv, FirstCommands
<1> QED
  BY <1>1, <1>2, <1>3, <1>4, <1>5, <1>6 DEF Next, Bios, Environment

\* The drives that are left, from step to step.
LEMMA ArraysStep ==
  ASSUME TypeOK, IInv, RegionInv, CollectedInv, ExactArrays, [Next]_vars
  PROVE  ExactArrays'
<1> USE DEF nvVars, romVars, raidVars, fileVars, faultVars
<1>a. romFaults \in Nat /\ crashes \in Nat /\ runs \in Nat /\ raidUp \in {0, 1}
  BY DEF TypeOK
<1>1. CASE HandleDataStart
  <2>1. pc = "handle" /\ UNCHANGED <<goal, seen, romFaults, crashes>>
    BY <1>1 DEF HandleDataStart
  <2>2. CASE collected = <<>>
    <3>1. UNCHANGED <<arrays, runs, raidFaults>>
      BY <1>1, <2>2 DEF HandleDataStart
    <3> QED
      BY <2>1, <3>1 DEF ExactArrays, FirstCommands
  <2>3. CASE collected # <<>>
    <3> SUFFICES ASSUME goal # None, romFaults = 0, crashes = 0
                 PROVE  /\ runs' > 0
                        /\ \E n \in 1..Len(goal.recs) :
                             /\ FirstCommands(goal, n)
                             /\ \E S \in SUBSET Named(goal.recs[n].data) :
                                  /\ arrays' = Without(seen, S)
                                  /\ raidFaults' = 0 => Firsts(seen, goal.recs[n].data) \subseteq S
      BY <2>1 DEF ExactArrays, FirstCommands
    <3>1. runs = 0
      BY <1>a, <2>1 DEF IInv, BudgetInv, RequestInv
    <3>2. arrays = seen
      BY <3>1 DEF ExactArrays
    <3>3. PICK n \in 1..Len(goal.recs) : FirstCommands(goal, n) /\ Head(collected) = goal.recs[n].data
      BY <2>1, <2>3 DEF CollectedInv
    <3>4. PICK S \in SUBSET Named(Head(collected)) :
            /\ arrays' = Without(arrays, S) /\ runs' = runs + 1
            /\ \/ Firsts(arrays, Head(collected)) \subseteq S
               \/ raidFaults' = raidFaults + 1
      BY <1>1, <2>3 DEF HandleDataStart
    <3>5. runs' > 0
      BY <3>1, <3>4
    <3>6. raidFaults' = raidFaults + 1 => raidFaults' # 0
      BY DEF TypeOK
    <3>7. /\ S \in SUBSET Named(goal.recs[n].data) /\ arrays' = Without(seen, S)
          /\ raidFaults' = 0 => Firsts(seen, goal.recs[n].data) \subseteq S
      BY <3>2, <3>3, <3>4, <3>6, Zenon
    <3> QED
      BY <3>3, <3>5, <3>7
  <2> QED
    BY <2>2, <2>3
<1>2. ASSUME NEW f \in Files, DownloadBiosCfgFromBMC(f) \/ DownloadDataFromRAM(f)
      PROVE  ExactArrays'
  <2>1. seen' = arrays /\ runs' = 0 /\ arrays' = arrays
    BY <1>2, ArriveIs DEF DownloadBiosCfgFromBMC, DownloadDataFromRAM
  <2> QED
    BY <2>1 DEF ExactArrays
<1>3. CASE /\ UNCHANGED <<arrays, runs, raidFaults, goal, seen>>
           /\ romFaults' = 0 => romFaults = 0
           /\ crashes' = 0 => crashes = 0
  BY <1>3 DEF ExactArrays, FirstCommands
<1>4. \/ HandleDataStart
      \/ \E f \in Files : DownloadBiosCfgFromBMC(f) \/ DownloadDataFromRAM(f)
      \/ /\ UNCHANGED <<arrays, runs, raidFaults, goal, seen>>
         /\ romFaults' = 0 => romFaults = 0
         /\ crashes' = 0 => crashes = 0
  <2>1. CASE OobLoadDefaultPreSetting \/ EraseRegion \/ PowerLoss
    BY <1>a, <2>1 DEF OobLoadDefaultPreSetting, EraseRegion, PowerLoss, WriteRom, RomFault
  <2>2. CASE ~(OobLoadDefaultPreSetting \/ EraseRegion \/ PowerLoss)
    BY <2>2 DEF Next, Bios, Environment, vars, SmcResetConfig, NoDownload, NoUpdate, Shutdown,
       DeleteLoadDefault, SetLoadDefault, CombineBiosCfg, CreateLongName, StartUpdate,
       UpdateVariable, CollectData, SkipRecord, EndOfRecords, TornRecord, StartRaidDriver,
       ScanAgain
  <2> QED
    BY <2>1, <2>2
<1> QED
  BY <1>1, <1>2, <1>3, <1>4

\* Everything about the last file, in every state.
THEOREM EffectInvariance == Spec => []EInv
<1>1. ASSUME Init PROVE EInv
  <2>1. goal = None /\ pc = "os" /\ nv = Default /\ smram = Default /\ loadDefault = 0
    BY <1>1 DEF Init
  <2> QED
    BY <2>1 DEF EInv, ExistsInv, RegionInv, DefaultInv, EffectInv, CollectedInv, ExactArrays
<1>2. EInv /\ TypeOK /\ IInv /\ [Next]_vars => EInv'
  BY ExistsStep, RegionStep, DefaultStep, EffectStep, CollectedStep, ArraysStep DEF EInv
<1> QED
  BY <1>1, <1>2, Invariance, TypeCorrect, PTL DEF Spec

\* Without a fault of the region or of the power the commands of a file delete only
\* drives that had one of their numbers when the file arrived, and each command of the
\* first record deletes its first drive, for any menu and any commands.
THEOREM ArraysAreExact == Spec => []ExactArrays
<1>1. EInv => ExactArrays
  BY DEF EInv
<1> QED
  BY <1>1, EffectInvariance, PTL

\* The last of a variable's records.
LEMMA LastExists ==
  ASSUME NEW f \in File, NEW v, Sets(f, v) # {}
  PROVE  \E n \in Sets(f, v) : \A m \in Sets(f, v) : m <= n
<1> DEFINE L == Len(f.recs)
           I == {L - n : n \in Sets(f, v)}
<1>1. L \in Nat
  BY DEF File
<1>2. \A n \in Sets(f, v) : n \in 1..L /\ L - n \in Nat
  BY <1>1 DEF Sets
<1> HIDE DEF L
<1>3. I \in SUBSET Nat /\ I # {}
  BY <1>2
<1>4. PICK x \in I : \A y \in I : x <= y
  BY <1>3, MinIn
<1>5. PICK n \in Sets(f, v) : x = L - n
  BY <1>4
<1>6. ASSUME NEW m \in Sets(f, v) PROVE m <= n
  <2>1. L - n <= L - m
    BY <1>4, <1>5
  <2> QED
    BY <1>1, <1>2, <2>1
<1> QED
  BY <1>6

\* However often a file is applied and wherever the POST is interrupted, once its
\* request is gone the tools of the OS read the value of each variable's last record;
\* after a request for the defaults they read the defaults.
THEOREM FilesTakeEffect == Spec => []FileTakesEffect
<1>1. ASSUME TypeOK, EInv PROVE FileTakesEffect
  <2> SUFFICES ASSUME pc = "os", Consumed, nvFaults = 0 PROVE
        /\ goal.flag = "update" =>
             \A v \in {u \in PlatformVar : Default[u] # None /\ Sets(goal, u) # {}} :
               LET last == CHOOSE n \in Sets(goal, v) : \A m \in Sets(goal, v) : m <= n
               IN  romFaults = 0 \/ Sets(goal, v) = {last} =>
                     smram[v] = goal.recs[last].data
        /\ goal.flag = "default" => smram = Default
    BY DEF FileTakesEffect
  <2>1. goal # None /\ inband.flag = "idle" /\ smram = nv /\ goal \in File
    BY <1>1, KindOf DEF EInv, EffectInv, Consumed
  <2>2. ASSUME goal.flag = "default" PROVE smram = Default
    BY <1>1, <2>1, <2>2 DEF EInv, DefaultInv
  <2>3. ASSUME goal.flag = "update", NEW v \in PlatformVar, Default[v] # None, Sets(goal, v) # {},
               NEW last, last = CHOOSE n \in Sets(goal, v) : \A m \in Sets(goal, v) : m <= n,
               romFaults = 0 \/ Sets(goal, v) = {last}
        PROVE  smram[v] = goal.recs[last].data
    <3>1. AppliedAll
      BY <1>1, <2>1, <2>3, KindOf DEF EInv, EffectInv
    <3>2. last \in Sets(goal, v) /\ \A m \in Sets(goal, v) : m <= last
      BY <2>1, <2>3, LastExists
    <3>3. last \in 1..Len(goal.recs) /\ Len(goal.recs) \in Nat
      BY <2>1, <3>2 DEF Sets, File
    <3>4. LastBefore(goal, v, last, Len(goal.recs) + 1)
      BY <3>2, <3>3 DEF LastBefore
    <3>5. nv[v] = goal.recs[last].data
      BY <2>3, <3>1, <3>3, <3>4 DEF AppliedAll
    <3> QED
      BY <2>1, <3>5
  <2> QED
    BY <2>2, <2>3
<1> QED
  BY <1>1, TypeCorrect, EffectInvariance, PTL

-----------------------------------------------------------------------------
(* The loop of resets.                                                     *)

\* What can still happen before a request is gone: files and long names, power losses
\* and failing ROM writes within their bounds, the phases up to the reset, and the records.
PhasesLeft ==
  CASE pc \in {"os", "dead"} -> 9 [] pc \in {"off", "reset"} -> 8 [] pc = "download" -> 7
    [] pc = "driver" -> 6 [] pc = "unflag" -> 5 [] pc = "update" -> 4
    [] pc \in {"record", "setDefault"} -> 3 [] pc \in {"handle", "preset"} -> 2
    [] pc = "erase" -> 1 [] OTHER -> 0
RecordsLeft == IF pc = "record" THEN Len(inband.recs) + 1 - i ELSE 0

Left == <<(MaxFiles - files) + (MaxLong - longNames), MaxCrash - crashes, MaxRomFault - romFaults,
          PhasesLeft, RecordsLeft>>

Requested == inband.flag # "idle" /\ inband.torn = 0

\* The system resets itself after an update, and only the erased region keeps the next
\* POST from applying the file again. While the request of an undamaged file stays in the
\* region every step leaves less to do: of the numbers that are left, all of them
\* naturals, the first that changes is smaller. So the loop of resets goes round
\* once, and once more for each new file, power loss or failing ROM write.
LessLeft ==
  [][Requested /\ Requested' =>
       \E n \in 1..5 : /\ Left'[n] < Left[n] /\ \A m \in 1..5 : Left'[m] \in Nat
                       /\ \A m \in 1..(n - 1) : Left'[m] = Left[m]]_vars

\* Files and long names that may still come.
ArrivalsLeft == (MaxFiles - files) + (MaxLong - longNames)

\* The first number that changes is smaller.
Less ==
  \/ files' = files + 1 /\ longNames' = longNames
  \/ files' = files /\ longNames' = longNames + 1
  \/ UNCHANGED <<files, longNames>> /\ crashes' = crashes + 1
  \/ UNCHANGED <<files, longNames, crashes>> /\ romFaults' = romFaults + 1
  \/ UNCHANGED <<files, longNames, crashes, romFaults>> /\ PhasesLeft' < PhasesLeft
  \/ UNCHANGED <<files, longNames, crashes, romFaults>> /\ PhasesLeft' = PhasesLeft
       /\ RecordsLeft' < RecordsLeft

\* What is left to do is counted by naturals.
LEMMA LeftType ==
  ASSUME TypeOK, RegionInv
  PROVE  /\ ArrivalsLeft \in Nat /\ MaxCrash - crashes \in Nat /\ MaxRomFault - romFaults \in Nat
         /\ PhasesLeft \in Nat /\ RecordsLeft \in Nat
<1>1. ArrivalsLeft \in Nat /\ MaxCrash - crashes \in Nat /\ MaxRomFault - romFaults \in Nat
  BY BiosCfgBoundsAssumption DEF TypeOK, ArrivalsLeft
<1>2. PhasesLeft \in Nat
  BY DEF PhasesLeft
<1>3. RecordsLeft \in Nat
  <2>1. inband.recs \in Seq(Record)
    BY DEF TypeOK, File
  <2>2. Len(inband.recs) \in Nat /\ i \in Nat
    BY <2>1, LenProperties DEF TypeOK
  <2>3. pc = "record" => i <= Len(inband.recs) + 1
    BY DEF RegionInv
  <2> QED
    BY <2>2, <2>3 DEF RecordsLeft
<1> QED
  BY <1>1, <1>2, <1>3

\* Every step that finds and leaves the request of an undamaged file leaves less to do.
LEMMA EveryLess ==
  ASSUME TypeOK, RegionInv, Next, Requested, Requested', ~UNCHANGED vars
  PROVE  Less
<1> USE DEF fileVars, faultVars, nvVars
<1>1. CASE UpdateVariable \/ CollectData \/ SkipRecord
  <2>1. /\ pc = "record" /\ pc' = "record" /\ i <= Len(inband.recs) /\ i' = i + 1
        /\ inband' = inband /\ UNCHANGED <<files, longNames, crashes, romFaults>>
    BY <1>1 DEF UpdateVariable, CollectData, SkipRecord, AtRecord, romVars
  <2>2. inband.recs \in Seq(Record)
    BY DEF TypeOK, File
  <2>3. Len(inband.recs) \in Nat /\ i \in Nat
    BY <2>2, LenProperties DEF TypeOK
  <2>4. PhasesLeft' = PhasesLeft
    BY <2>1 DEF PhasesLeft
  <2>5. RecordsLeft = Len(inband.recs) + 1 - i /\ RecordsLeft' = Len(inband.recs) + 1 - (i + 1)
    BY <2>1 DEF RecordsLeft
  <2>6. \A m, n \in Nat : m + 1 - (n + 1) < m + 1 - n
    OBVIOUS
  <2>7. RecordsLeft' < RecordsLeft
    BY <2>3, <2>5, <2>6, Zenon
  <2> QED
    BY <2>1, <2>4, <2>7 DEF Less
<1>2. CASE SmcResetConfig \/ NoDownload \/ (\E up \in {0, 1} : StartRaidDriver(up)) \/ DeleteLoadDefault
  <2>1. UNCHANGED <<files, longNames, crashes, romFaults>> /\ PhasesLeft' < PhasesLeft
    BY <1>2 DEF SmcResetConfig, NoDownload, StartRaidDriver, DeleteLoadDefault, PhasesLeft
  <2> QED
    BY <2>1 DEF Less
<1>3. CASE StartUpdate \/ SetLoadDefault \/ EndOfRecords \/ HandleDataStart \/ Shutdown
  <2>1. UNCHANGED <<files, longNames, crashes, romFaults>> /\ PhasesLeft' < PhasesLeft
    BY <1>3 DEF StartUpdate, SetLoadDefault, EndOfRecords, HandleDataStart, Shutdown, PhasesLeft
  <2> QED
    BY <2>1 DEF Less
<1>4. CASE OobLoadDefaultPreSetting
  <2>1. /\ UNCHANGED <<files, longNames, crashes>> /\ pc = "preset" /\ pc' = "erase"
        /\ romFaults' = romFaults \/ romFaults' = romFaults + 1
    BY <1>4 DEF OobLoadDefaultPreSetting, WriteRom, RomFault
  <2>2. PhasesLeft' < PhasesLeft
    BY <2>1 DEF PhasesLeft
  <2> QED
    BY <2>1, <2>2 DEF Less
<1>5. CASE EraseRegion
  <2>1. UNCHANGED <<files, longNames, crashes>>
    BY <1>5 DEF EraseRegion
  <2>2. romFaults' = romFaults + 1
    BY <1>5 DEF EraseRegion, WriteRom, RomFault, Erased, Requested
  <2> QED
    BY <2>1, <2>2 DEF Less
<1>6. CASE NoUpdate \/ TornRecord \/ CombineBiosCfg \/ ScanAgain
  BY <1>6 DEF NoUpdate, TornRecord, CombineBiosCfg, ScanAgain, Requested, RegionInv
<1>7. CASE CreateLongName \/ PowerLoss
  BY <1>7 DEF CreateLongName, PowerLoss, Less
<1>8. ASSUME NEW f \in Files, DownloadBiosCfgFromBMC(f) \/ DownloadDataFromRAM(f) PROVE Less
  BY <1>8 DEF DownloadBiosCfgFromBMC, DownloadDataFromRAM, Arrive, Less
<1> QED
  BY <1>1, <1>2, <1>3, <1>4, <1>5, <1>6, <1>7, <1>8 DEF Next, Bios, Environment

\* While the request of an undamaged file stays in the region every step leaves less to
\* do, for any files, power losses and failing writes: the loop of resets cannot go
\* round without one of them.
THEOREM ResetsEnd == Spec => LessLeft
<1> DEFINE Lower == \E n \in 1..5 : /\ Left'[n] < Left[n] /\ \A m \in 1..5 : Left'[m] \in Nat
                                    /\ \A m \in 1..(n - 1) : Left'[m] = Left[m]
           Numbers == /\ ArrivalsLeft \in Nat /\ MaxCrash - crashes \in Nat
                      /\ MaxRomFault - romFaults \in Nat
                      /\ PhasesLeft \in Nat /\ RecordsLeft \in Nat
<1>1. EInv => RegionInv
  BY DEF EInv
<1>2. TypeOK /\ RegionInv => Numbers
  BY LeftType
<1>3. TypeOK' /\ RegionInv' => Numbers'
  BY <1>2, PTL
<1>4. TypeOK /\ TypeOK' /\ RegionInv /\ RegionInv' /\ [Next]_vars
        => [Requested /\ Requested' => Lower]_vars
  <2> SUFFICES ASSUME TypeOK, TypeOK', RegionInv, RegionInv', Next, Requested, Requested',
                      ~UNCHANGED vars
               PROVE  Lower
    OBVIOUS
  <2>1. Less
    BY EveryLess
  <2>2. /\ Left[1] = ArrivalsLeft /\ Left[2] = MaxCrash - crashes
        /\ Left[3] = MaxRomFault - romFaults /\ Left[4] = PhasesLeft /\ Left[5] = RecordsLeft
    BY DEF Left, ArrivalsLeft
  <2>3. /\ Left'[1] = ArrivalsLeft' /\ Left'[2] = MaxCrash - crashes'
        /\ Left'[3] = MaxRomFault - romFaults' /\ Left'[4] = PhasesLeft' /\ Left'[5] = RecordsLeft'
    BY DEF Left, ArrivalsLeft
  <2>4. \A m \in 1..5 : Left'[m] \in Nat
    BY <1>3, <2>3
  <2>5. /\ MaxFiles \in Nat /\ MaxLong \in Nat /\ MaxCrash \in Nat /\ MaxRomFault \in Nat
        /\ files \in Nat /\ longNames \in Nat /\ crashes \in Nat /\ romFaults \in Nat
    BY BiosCfgBoundsAssumption DEF TypeOK
  <2>6. /\ ArrivalsLeft = (MaxFiles - files) + (MaxLong - longNames)
        /\ ArrivalsLeft' = (MaxFiles - files') + (MaxLong - longNames')
    BY DEF ArrivalsLeft
  <2>7. \E n \in 1..5 : Left'[n] < Left[n] /\ \A m \in 1..(n - 1) : Left'[m] = Left[m]
    BY <2>1, <2>2, <2>3, <2>5, <2>6 DEF Less
  <2> QED
    BY <2>4, <2>7
<1> QED
  BY <1>1, <1>4, TypeCorrect, EffectInvariance, PTL DEF Spec, LessLeft
=============================================================================
