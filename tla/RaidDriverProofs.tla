-------------------------- MODULE RaidDriverProofs --------------------------
(***************************************************************************)
(* Proofs about RaidDriver for any number of cards, variables and files:   *)
(* the call-back of the form browser is the driver's exactly while a card  *)
(* is talked to; type correctness; the changes of a file reach the card    *)
(* they are for, each with the value of the file's first record; the       *)
(* settings of all cards are exported once and in order; and every step    *)
(* leaves less to do.                                                      *)
(***************************************************************************)
EXTENDS RaidDriver, SequenceTheorems, WellFoundedInduction, TLAPS

\* The functions of Download between the two calls that change the call-backs.
DownHooked == fn \in 6..12

\* The functions of HandleData between the first and the second, and between the
\* third and the fourth of these calls.
ChangeHooked == fn \in {5, 6, 8, 9}

\* Where the loops over the cards and their functions are.
LoopInv ==
  /\ pc \in Step
  /\ Process \in {"initial", "install", "download"}
  /\ hooked \in {0, 1}
  /\ pc = "down" => curr \in 0..Cards /\ fn \in 1..12
  /\ pc = "change" => curr \in 0..Cards /\ fn \in 1..9

\* How far the driver has come: a failed Download leaves the hook in place, and
\* nothing of the driver is called any more.
ProcessInv ==
  /\ pc = "start" => Process = "initial" /\ hooked = 0
  /\ pc = "down" => Process = "install"
  /\ pc = "change" => Process = "download"

HookInv ==
  /\ pc = "down" => (hooked = 1 <=> curr # 0 /\ DownHooked)
  /\ pc = "change" => (hooked = 1 <=> curr # 0 /\ ChangeHooked)
  /\ pc \in {"down", "change"} /\ curr # 0 /\ fn # 1 => hash = curr
  /\ pc \notin {"down", "change"} /\ Process = "download" => hooked = 0

\* The browser has been located once a card was handled.
BrowserInv ==
  /\ pc = "down" /\ curr = 0 => Browser2 = 1
  /\ Process = "download" => Browser2 = 1

IInv == LoopInv /\ ProcessInv /\ HookInv /\ BrowserInv

\* Both tables, function by function.
LEMMA Tables ==
  /\ Len(DownFunc) = 12 /\ Len(ChangeFunc) = 9
  /\ DownFunc[1] = "InitialLsiVarHashTable" /\ DownFunc[2] = "FreeLsiVarHashTable"
  /\ DownFunc[3] = "InitialFunc" /\ DownFunc[4] = "Form" /\ DownFunc[5] = "Hook"
  /\ DownFunc[6] = "AccessMenu" /\ DownFunc[7] = "ItemsQId" /\ DownFunc[8] = "Items"
  /\ DownFunc[9] = "ChRec" /\ DownFunc[10] = "SetVariableTable"
  /\ DownFunc[11] = "CreateVar" /\ DownFunc[12] = "Hook"
  /\ ChangeFunc[1] = "InitialLsiVarHashTable" /\ ChangeFunc[2] = "Check"
  /\ ChangeFunc[3] = "ToBuffer" /\ ChangeFunc[4] = "Hook" /\ ChangeFunc[5] = "Access"
  /\ ChangeFunc[6] = "Hook" /\ ChangeFunc[7] = "Hook" /\ ChangeFunc[8] = "Commands"
  /\ ChangeFunc[9] = "Hook"
BY DEF DownFunc, ChangeFunc

\* The loop over the functions of a card, and over the cards.
LEMMA AdvanceTo ==
  ASSUME Advance
  PROVE  /\ pc' = pc
         /\ pc = "down" => /\ fn' = IF fn < 12 THEN fn + 1 ELSE 1
                           /\ curr' = IF fn < 12 THEN curr ELSE NextCard
         /\ pc = "change" => /\ fn' = IF fn < 9 THEN fn + 1 ELSE 1
                             /\ curr' = IF fn < 9 THEN curr ELSE NextCard
<1> DEFINE L == Len(Table)
<1>1. (pc = "down" => L = 12) /\ (pc = "change" => L = 9)
  BY Tables DEF Table
<1>2. /\ fn' = IF fn < L THEN fn + 1 ELSE 1
      /\ curr' = IF fn < L THEN curr ELSE NextCard
      /\ pc' = pc
  BY Zenon DEF Advance
<1> HIDE DEF L
<1> QED
  BY <1>1, <1>2

\* The places of the calls that change the call-backs.
LEMMA HookAt ==
  ASSUME LoopInv, pc \in {"down", "change"}, curr # 0
  PROVE  /\ pc = "down" => (At("Hook") <=> fn \in {5, 12})
         /\ pc = "change" => (At("Hook") <=> fn \in {4, 6, 7, 9})
         /\ At("InitialLsiVarHashTable") <=> fn = 1
         /\ pc = "down" => (At("AccessMenu") => fn = 6) /\ ~At("Access") /\ ~At("Commands")
         /\ pc = "change" => (At("Access") => fn = 5) /\ (At("Commands") => fn = 8) /\ ~At("AccessMenu")
<1>1. CASE pc = "down"
  <2>1. \/ fn = 1 \/ fn = 2 \/ fn = 3 \/ fn = 4 \/ fn = 5 \/ fn = 6 \/ fn = 7 \/ fn = 8
        \/ fn = 9 \/ fn = 10 \/ fn = 11 \/ fn = 12
    BY <1>1 DEF LoopInv
  <2>2. \A f : At(f) <=> DownFunc[fn] = f
    BY <1>1 DEF At, Table
  <2> QED
    BY <1>1, <2>1, <2>2, Tables
<1>2. CASE pc = "change"
  <2>1. \/ fn = 1 \/ fn = 2 \/ fn = 3 \/ fn = 4 \/ fn = 5 \/ fn = 6 \/ fn = 7 \/ fn = 8
        \/ fn = 9
    BY <1>2 DEF LoopInv
  <2>2. \A f : At(f) <=> ChangeFunc[fn] = f
    BY <1>2 DEF At, Table
  <2> QED
    BY <1>2, <2>1, <2>2, Tables
<1> QED
  BY <1>1, <1>2

\* A function that leaves the call-backs and the hash tables alone, and that is
\* none of those which change them, keeps the invariant.
LEMMA AdvanceKeeps ==
  ASSUME IInv, Advance, pc \in {"down", "change"}, curr # 0, Process' = Process,
         ~At("Hook"), ~At("InitialLsiVarHashTable"), UNCHANGED <<Browser2, hooked, hash>>
  PROVE  IInv'
<1>1. pc' = pc /\ fn # 1
  BY HookAt DEF Advance, IInv
<1>2. fn' = fn + 1 /\ curr' = curr
  <2>1. CASE pc = "down"
    <3>1. fn \in 1..11
      BY <2>1, HookAt DEF IInv, LoopInv
    <3> QED
      BY <2>1, <3>1, AdvanceTo
  <2>2. CASE pc = "change"
    <3>1. fn \in 1..8
      BY <2>2, HookAt DEF IInv, LoopInv
    <3> QED
      BY <2>2, <3>1, AdvanceTo
  <2> QED
    BY <2>1, <2>2
<1>3. LoopInv' /\ ProcessInv' /\ BrowserInv'
  <2>1. CASE pc = "down"
    BY <1>1, <1>2, <2>1, HookAt DEF IInv, LoopInv, ProcessInv, BrowserInv
  <2>2. CASE pc = "change"
    BY <1>1, <1>2, <2>2, HookAt DEF IInv, LoopInv, ProcessInv, BrowserInv
  <2> QED
    BY <2>1, <2>2
<1>4. HookInv'
  <2>1. CASE pc = "down"
    BY <1>1, <1>2, <2>1, HookAt DEF IInv, LoopInv, HookInv, DownHooked
  <2>2. CASE pc = "change"
    BY <1>1, <1>2, <2>2, HookAt DEF IInv, LoopInv, HookInv, ChangeHooked
  <2> QED
    BY <2>1, <2>2
<1> QED
  BY <1>3, <1>4 DEF IInv

\* At the first function the hash tables of the card become the current ones.
LEMMA InitialKeeps ==
  ASSUME IInv, InitialLsiVarHashTable
  PROVE  IInv'
<1>1. pc \in {"down", "change"} /\ curr # 0
  BY DEF InitialLsiVarHashTable, At
<1>2. fn = 1
  BY <1>1, HookAt DEF InitialLsiVarHashTable, IInv
<1>3. fn' = 2 /\ curr' = curr /\ pc' = pc /\ hash' = curr /\ UNCHANGED <<Process, Browser2, hooked>>
  BY <1>1, <1>2, AdvanceTo DEF InitialLsiVarHashTable, driverVars
<1> QED
  BY <1>1, <1>2, <1>3 DEF IInv, LoopInv, ProcessInv, HookInv, BrowserInv, DownHooked, ChangeHooked

\* The call-backs change places at the end of a card's functions too, where the next
\* card is without the hook again.
LEMMA HookKeeps ==
  ASSUME IInv, SmcLsiHookBrowser2Protocol
  PROVE  IInv'
<1>1. pc \in {"down", "change"} /\ curr # 0 /\ pc' = pc /\ UNCHANGED <<Process, hash>> /\ Browser2' = 1
  BY DEF SmcLsiHookBrowser2Protocol, At, Advance
<1>2. hooked \in {0, 1} /\ hooked' = 1 - hooked
  BY DEF SmcLsiHookBrowser2Protocol, IInv, LoopInv
<1>3. curr \in 0..Cards /\ NextCard \in 0..Cards
  BY <1>1, RaidDriverAssumption DEF IInv, LoopInv, NextCard
<1>4. CASE pc = "down"
  <2>1. fn \in {5, 12}
    BY <1>1, <1>4, HookAt DEF SmcLsiHookBrowser2Protocol, IInv
  <2>2. CASE fn = 5
    <3>1. fn' = 6 /\ curr' = curr
      BY <1>4, <2>2, AdvanceTo DEF SmcLsiHookBrowser2Protocol
    <3> QED
      BY <1>1, <1>2, <1>3, <1>4, <2>2, <3>1 DEF IInv, LoopInv, ProcessInv, HookInv, BrowserInv, DownHooked
  <2>3. CASE fn = 12
    <3>1. fn' = 1 /\ curr' = NextCard
      BY <1>4, <2>3, AdvanceTo DEF SmcLsiHookBrowser2Protocol
    <3> QED
      BY <1>1, <1>2, <1>3, <1>4, <2>3, <3>1 DEF IInv, LoopInv, ProcessInv, HookInv, BrowserInv, DownHooked
  <2> QED
    BY <2>1, <2>2, <2>3
<1>5. CASE pc = "change"
  <2>1. fn \in {4, 6, 7, 9}
    BY <1>1, <1>5, HookAt DEF SmcLsiHookBrowser2Protocol, IInv
  <2>2. CASE fn # 9
    <3>1. fn' = fn + 1 /\ curr' = curr
      BY <1>5, <2>1, <2>2, AdvanceTo DEF SmcLsiHookBrowser2Protocol
    <3> QED
      BY <1>1, <1>2, <1>3, <1>5, <2>1, <2>2, <3>1 DEF IInv, LoopInv, ProcessInv, HookInv, BrowserInv, ChangeHooked
  <2>3. CASE fn = 9
    <3>1. fn' = 1 /\ curr' = NextCard
      BY <1>5, <2>3, AdvanceTo DEF SmcLsiHookBrowser2Protocol
    <3> QED
      BY <1>1, <1>2, <1>3, <1>5, <2>3, <3>1 DEF IInv, LoopInv, ProcessInv, HookInv, BrowserInv, ChangeHooked
  <2> QED
    BY <2>1, <2>2, <2>3
<1> QED
  BY <1>1, <1>4, <1>5

\* The name of a function at hand is that of one place of the table.
LEMMA OtherFunction ==
  ASSUME NEW f, At(f), f # "Hook", f # "InitialLsiVarHashTable"
  PROVE  ~At("Hook") /\ ~At("InitialLsiVarHashTable") /\ pc \in {"down", "change"} /\ curr # 0
BY DEF At

\* Only functions of Download fail.
LEMMA FailsAt ==
  ASSUME LoopInv,
         \/ At("InitialFunc") \/ At("Form") \/ At("ItemsQId") \/ At("Items") \/ At("ChRec")
         \/ At("SetVariableTable")
  PROVE  pc = "down"
<1> SUFFICES ASSUME pc = "change" PROVE FALSE
  BY DEF At
<1>1. \/ fn = 1 \/ fn = 2 \/ fn = 3 \/ fn = 4 \/ fn = 5 \/ fn = 6 \/ fn = 7 \/ fn = 8
      \/ fn = 9
  BY DEF LoopInv
<1>2. \A f : At(f) => ChangeFunc[fn] = f
  BY DEF At, Table
<1> QED
  BY <1>1, <1>2, Tables

\* A function that fails ends Download: Process is not DRIVER_DOWNLOAD, and nothing
\* unhooks the browser.
LEMMA FailureKeeps ==
  ASSUME IInv, pc = "down", pc' = "update", UNCHANGED driverVars
  PROVE  IInv'
BY DEF IInv, LoopInv, ProcessInv, HookInv, BrowserInv, driverVars, Step

\* Outside the loops over the cards only Process and the hook count.
LEMMA OutsideKeeps ==
  ASSUME IInv, pc \notin {"off", "start", "down", "change"}, UNCHANGED <<Process, Browser2, hooked>>,
         pc' \in {"update", "combine", "load", "os", "reset"}
  PROVE  IInv'
BY DEF IInv, LoopInv, ProcessInv, HookInv, BrowserInv, Step

\* Every step of the driver keeps the invariant.
LEMMA DriverStep ==
  ASSUME IInv, Driver
  PROVE  IInv'
<1> USE DEF driverVars
<1>1. CASE FreeLsiVarHashTable
  <2>1. At("FreeLsiVarHashTable") /\ Advance /\ UNCHANGED <<Process, Browser2, hooked, hash>>
    BY <1>1 DEF FreeLsiVarHashTable
  <2> QED
    BY <2>1, AdvanceKeeps, OtherFunction
<1>2. CASE SmcLsiRaidOOB_InitialFunc
  <2>1. At("InitialFunc") /\ Advance /\ UNCHANGED <<Process, Browser2, hooked, hash>>
    BY <1>2 DEF SmcLsiRaidOOB_InitialFunc
  <2> QED
    BY <2>1, AdvanceKeeps, OtherFunction
<1>3. CASE SmcLsiRaidOOB_CollectInformation_Form
  <2>1. At("Form") /\ Advance /\ UNCHANGED <<Process, Browser2, hooked, hash>>
    BY <1>3 DEF SmcLsiRaidOOB_CollectInformation_Form
  <2> QED
    BY <2>1, AdvanceKeeps, OtherFunction
<1>4. CASE SmcLsiCallbackAccessMenu
  <2>1. At("AccessMenu") /\ Advance /\ UNCHANGED <<Process, Browser2, hooked, hash>>
    BY <1>4 DEF SmcLsiCallbackAccessMenu
  <2> QED
    BY <2>1, AdvanceKeeps, OtherFunction
<1>5. CASE SmcLsiRaidOOB_CollectInformation_ChRec
  <2>1. At("ChRec") /\ Advance /\ UNCHANGED <<Process, Browser2, hooked, hash>>
    BY <1>5 DEF SmcLsiRaidOOB_CollectInformation_ChRec
  <2> QED
    BY <2>1, AdvanceKeeps, OtherFunction
<1>6. CASE SmcLsiSetSmcLsiVariableTable
  <2>1. At("SetVariableTable") /\ Advance /\ UNCHANGED <<Process, Browser2, hooked, hash>>
    BY <1>6 DEF SmcLsiSetSmcLsiVariableTable
  <2> QED
    BY <2>1, AdvanceKeeps, OtherFunction
<1>7. CASE SmcLsiCreateSmcRaidVarAndItems
  <2>1. At("CreateVar") /\ Advance /\ UNCHANGED <<Process, Browser2, hooked, hash>>
    BY <1>7 DEF SmcLsiCreateSmcRaidVarAndItems
  <2> QED
    BY <2>1, AdvanceKeeps, OtherFunction
<1>8. CASE CheckChangeableItemsInChangedVar
  <2>1. At("Check") /\ Advance /\ UNCHANGED <<Process, Browser2, hooked, hash>>
    BY <1>8 DEF CheckChangeableItemsInChangedVar
  <2> QED
    BY <2>1, AdvanceKeeps, OtherFunction
<1>9. CASE ChangedVarToOOBVarBuffer
  <2>1. At("ToBuffer") /\ Advance /\ UNCHANGED <<Process, Browser2, hooked, hash>>
    BY <1>9 DEF ChangedVarToOOBVarBuffer
  <2> QED
    BY <2>1, AdvanceKeeps, OtherFunction
<1>10. CASE AccessRAIDRecordtoChangeSetting
  <2>1. At("Access") /\ Advance /\ UNCHANGED <<Process, Browser2, hooked, hash>>
    BY <1>10 DEF AccessRAIDRecordtoChangeSetting
  <2> QED
    BY <2>1, AdvanceKeeps, OtherFunction
<1>11. CASE HandleRaidCfgCmdString
  <2>1. At("Commands") /\ Advance /\ UNCHANGED <<Process, Browser2, hooked, hash>>
    BY <1>11 DEF HandleRaidCfgCmdString
  <2> QED
    BY <2>1, AdvanceKeeps, OtherFunction
<1>12. CASE InitialItemsQIdTable
  <2>1. Advance /\ UNCHANGED <<Process, Browser2, hooked, hash>> /\ (At("ItemsQId") \/ At("Items"))
    BY <1>12 DEF InitialItemsQIdTable
  <2> QED
    BY <2>1, AdvanceKeeps, OtherFunction
<1>13. CASE InitialLsiVarHashTable
  BY <1>13, InitialKeeps
<1>14. CASE SmcLsiHookBrowser2Protocol
  BY <1>14, HookKeeps
<1>15. CASE StartLoadError
  BY <1>15 DEF StartLoadError, IInv, LoopInv, ProcessInv, HookInv, BrowserInv, Step
<1>16. CASE StartInstallFails
  BY <1>16 DEF StartInstallFails, IInv, LoopInv, ProcessInv, HookInv, BrowserInv, Step
<1>17. CASE SmcLsiOOBSetupDriverStart
  <2>1. /\ pc = "start" /\ pc' = "down" /\ Process' = "install" /\ curr' = 1 /\ fn' = 1
        /\ UNCHANGED <<Browser2, hooked>>
    BY <1>17 DEF SmcLsiOOBSetupDriverStart
  <2> QED
    BY <2>1, RaidDriverAssumption DEF IInv, LoopInv, ProcessInv, HookInv, BrowserInv, DownHooked, Step
<1>18. CASE FunctionFails
  <2>1. pc = "down"
    BY <1>18, FailsAt DEF FunctionFails, IInv
  <2> QED
    BY <1>18, <2>1, FailureKeeps DEF FunctionFails, FuncFails
<1>19. CASE HookFails
  <2>1. pc \in {"down", "change"}
    BY <1>19 DEF HookFails, At
  <2>2. CASE pc = "down"
    BY <1>19, <2>2, FailureKeeps DEF HookFails, FuncFails
  <2>3. pc # "change"
    BY <1>19 DEF HookFails, IInv, ProcessInv, BrowserInv
  <2> QED
    BY <2>1, <2>2, <2>3
<1>20. CASE SetVariableTableFails
  <2>1. pc = "down"
    BY <1>20, FailsAt DEF SetVariableTableFails, IInv
  <2> QED
    BY <1>20, <2>1, FailureKeeps DEF SetVariableTableFails
<1>21. CASE SmcLsiOOBSetupDriverDownload
  <2>1. /\ pc = "down" /\ curr = 0 /\ pc' = "update" /\ Process' = "download"
        /\ UNCHANGED <<Browser2, hooked>>
    BY <1>21 DEF SmcLsiOOBSetupDriverDownload
  <2> QED
    BY <2>1 DEF IInv, LoopInv, ProcessInv, HookInv, BrowserInv, Step
<1>22. CASE HandleDataStart
  <2>1. /\ pc = "update" /\ Process = "download" /\ pc' = "change" /\ curr' = 1 /\ fn' = 1
        /\ UNCHANGED <<Process, Browser2, hooked>>
    BY <1>22 DEF HandleDataStart
  <2> QED
    BY <2>1, RaidDriverAssumption DEF IInv, LoopInv, ProcessInv, HookInv, BrowserInv, ChangeHooked, Step
<1>23. CASE SmcLsiRaidLib_HandleData
  <2>1. pc = "change" /\ curr = 0 /\ pc' = "reset" /\ UNCHANGED <<Process, Browser2, hooked>>
    BY <1>23 DEF SmcLsiRaidLib_HandleData
  <2> QED
    BY <2>1 DEF IInv, LoopInv, ProcessInv, HookInv, BrowserInv, Step
<1>24. CASE SmcLsiRaidLib_CollectData
  BY <1>24, OutsideKeeps DEF SmcLsiRaidLib_CollectData
<1>25. CASE NoFile
  BY <1>25, OutsideKeeps DEF NoFile
<1>26. CASE HandleNothing
  BY <1>26, OutsideKeeps DEF HandleNothing
<1>27. CASE SmcLsiRaidLib_ParseNvData
  BY <1>27, OutsideKeeps DEF SmcLsiRaidLib_ParseNvData
<1>28. CASE ParseNvDataEnds
  BY <1>28, OutsideKeeps DEF ParseNvDataEnds
<1>29. CASE SmcLsiOOBSetupDriverLoadResource
  BY <1>29, OutsideKeeps DEF SmcLsiOOBSetupDriverLoadResource
<1> QED
  BY <1>1, <1>2, <1>3, <1>4, <1>5, <1>6, <1>7, <1>8, <1>9, <1>10,
     <1>11, <1>12, <1>13, <1>14, <1>15, <1>16, <1>17, <1>18, <1>19, <1>20,
     <1>21, <1>22, <1>23, <1>24, <1>25, <1>26, <1>27, <1>28, <1>29 DEF Driver

\* The invariant holds at the start and in every step.
THEOREM Invariance == Spec => []IInv
<1>1. Init => IInv
  BY DEF Init, IInv, LoopInv, ProcessInv, HookInv, BrowserInv, Step
<1>2. ASSUME IInv, [Next]_vars PROVE IInv'
  <2>1. CASE Driver
    BY <1>2, <2>1, DriverStep
  <2>2. ASSUME NEW f \in Files \cup {<<>>}, SmcLsiRaidOOBSetupEntry(f) PROVE IInv'
    BY <2>2 DEF SmcLsiRaidOOBSetupEntry, IInv, LoopInv, ProcessInv, HookInv, BrowserInv, Step
  <2>3. CASE UNCHANGED vars
    BY <1>2, <2>3 DEF vars, driverVars, loopVars, IInv, LoopInv, ProcessInv, HookInv, BrowserInv, DownHooked, ChangeHooked
  <2> QED
    BY <1>2, <2>1, <2>2, <2>3 DEF Next
<1> QED
  BY <1>1, <1>2, PTL DEF Spec

\* Whenever the driver talks to a card, the hook is in place and finds its tables.
LEMMA BalancedInv ==
  ASSUME IInv
  PROVE  HookBalanced
<1>1. ASSUME Talking PROVE hooked = 1 /\ hash = curr
  <2>1. pc \in {"down", "change"} /\ curr # 0
    BY <1>1 DEF Talking, At
  <2>2. CASE pc = "down"
    BY <1>1, <2>1, <2>2, HookAt DEF Talking, IInv, HookInv, DownHooked
  <2>3. CASE pc = "change"
    BY <1>1, <2>1, <2>3, HookAt DEF Talking, IInv, HookInv, ChangeHooked
  <2> QED
    BY <2>1, <2>2, <2>3
<1> QED
  BY <1>1 DEF HookBalanced, IInv, HookInv

\* Whenever the driver talks to a card, the browser's call-backs are its own and find
\* the variables of this card; and the browser has its call-backs again when the
\* POST is over, unless Download has failed. For any number of cards.
THEOREM HooksAreBalanced == Spec => []HookBalanced
BY Invariance, BalancedInv, PTL

-----------------------------------------------------------------------------
(* What the cards and the driver hold, function by function.               *)

\* The value of store x before the file is applied, and what the file asks for.
Before(c, x) == IF x = CmdVar THEN NoCmd ELSE atStart[c][x]
Asked(c, x)  == IF Named(c, x) THEN file[FirstInFile(c, x)].data ELSE Before(c, x)

\* The stores that the file changes.
Changes(c) == {x \in SetupVar : Asked(c, x) # Before(c, x)}

\* Card c after Download.
Ready(c) ==
  /\ setupVars[c] = SetupVarsOf(c)
  /\ c \notin bad =>
       /\ stores[c] = LsiVar
       /\ \A x \in LsiVar : buffer[c][x] = atStart[c][x]
       /\ setupVars[c] # <<>> => buffer[c][CmdVar] = NoCmd

\* Until HandleData nothing but the tables of the cards changes.
QuietInv ==
  pc \in {"start", "down", "update"} =>
    /\ setting = atStart /\ handled = Blank(NoCmd) /\ accessed = Blank({})
    /\ pc # "update" => changed = Blank(<<>>) /\ i = 1
    /\ pc = "start" => setupVars = Blank(<<>>)

\* Download at card c.
Reading(c) ==
  /\ fn <= 10 => setupVars[c] = <<>>
  /\ fn = 11 => setupVars[c] = VarsOf[c]
  /\ fn = 12 => setupVars[c] = SetupVarsOf(c)
  /\ c \notin bad =>
       /\ fn >= 5 => stores[c] = LsiVar
       /\ fn >= 7 => \A x \in LsiVar : buffer[c][x] = atStart[c][x]
       /\ fn = 12 /\ setupVars[c] # <<>> => buffer[c][CmdVar] = NoCmd

\* The cards behind and before the one at hand.
DownInv ==
  pc = "down" => \A c \in Card :
    /\ curr = 0 \/ c < curr => Ready(c)
    /\ c = curr => Reading(c)
    /\ curr # 0 /\ curr < c => setupVars[c] = <<>>

\* n is the place of the first record of store x in list s.
FirstAt(s, x, n) ==
  /\ n \in 1..Len(s) /\ s[n].var = x
  /\ \A m \in 1..Len(s) : s[m].var = x => n <= m

\* The first record of the file for store x of card c is the first that was
\* collected, once the loop over the records has passed it.
CollectedOf(c, x) ==
  IF Named(c, x) /\ FirstInFile(c, x) < i
  THEN \E n \in 1..Len(changed[c]) :
         FirstAt(changed[c], x, n) /\ changed[c][n].data = file[FirstInFile(c, x)].data
  ELSE \A n \in 1..Len(changed[c]) : changed[c][n].var # x

Unmarked(c) == \A n \in 1..Len(changed[c]) : changed[c][n].updated = 0

CollectInv ==
  (pc \in {"update", "change"} /\ Process = "download") =>
    /\ \A c \in Card : \A x \in SetupVar : CollectedOf(c, x)
    /\ pc = "update" =>
         /\ \A c \in Card : Ready(c) /\ Unmarked(c)
         /\ SmcLsiHaveNvData = 0 => changed = Blank(<<>>)
    /\ pc = "change" => i > Len(file)

\* A card before HandleData.
Untouched(c) ==
  /\ Ready(c) /\ Unmarked(c) /\ accessed[c] = {}
  /\ setting[c] = atStart[c] /\ handled[c] = NoCmd

SettingDone(c) ==
  \A x \in LsiVar :
    setting[c][x] = IF x \in Applied /\ Named(c, x)
                    THEN file[FirstInFile(c, x)].data ELSE atStart[c][x]

\* HandleData at card c.
Changing(c) ==
  /\ fn <= 2 => Untouched(c)
  /\ fn \in 3..5 => setting[c] = atStart[c]
  /\ fn \in 3..8 => handled[c] = NoCmd
  /\ fn = 3 => Ready(c)
  /\ fn >= 3 /\ c \notin bad => stores[c] = LsiVar /\ accessed[c] = Changes(c) \cap Applied
  /\ fn = 3 /\ c \notin bad => \A n \in 1..Len(changed[c]) :
       changed[c][n].updated = 1 <=>
         changed[c][n].var \in Changes(c) /\ FirstAt(changed[c], changed[c][n].var, n)
  /\ fn >= 4 /\ c \notin bad =>
       /\ \A x \in LsiVar : buffer[c][x] = Asked(c, x)
       /\ Named(c, CmdVar) => buffer[c][CmdVar] = Asked(c, CmdVar)
  /\ fn >= 6 /\ c \notin bad => SettingDone(c)
  /\ fn = 9 /\ c \notin bad => handled[c] = Asked(c, CmdVar)

\* A card behind HandleData.
Changed(c) == c \notin bad => SettingDone(c) /\ handled[c] = Asked(c, CmdVar)

ChangeInv ==
  pc = "change" => \A c \in Card :
    /\ curr = 0 \/ c < curr => Changed(c)
    /\ c = curr => Changing(c)
    /\ curr # 0 /\ curr < c => Untouched(c)

DataInv == QuietInv /\ DownInv /\ CollectInv /\ ChangeInv /\ ChangesReachTheirCard

-----------------------------------------------------------------------------
(* Types.                                                                  *)

\* The records collected for a card.
ChangedRecord == [var : SetupVar, data : Value, updated : {0, 1}]

\* A non-empty set of numbers has its minimum.
LEMMA MinIn ==
  ASSUME NEW I \in SUBSET Nat, I # {}
  PROVE  Min(I) \in I /\ \A y \in I : Min(I) <= y
<1>1. PICK x \in I : \A y \in I : ~(<<y, x>> \in OpToRel(<, Nat))
  BY NatLessThanWellFounded, WFMin
<1>2. ASSUME NEW y \in I PROVE x <= y
  <2>1. <<y, x>> \notin {ss \in Nat \X Nat : ss[1] < ss[2]}
    BY <1>1, Zenon DEF OpToRel
  <2> QED
    BY <2>1
<1> QED
  BY <1>2 DEF Min

\* Where the loops over the functions and the cards go on.
LEMMA AdvanceTypes ==
  ASSUME TypeOK, IInv, Advance, NEW f, At(f)
  PROVE  /\ pc' \in Step /\ fn' \in 1..Len(DownFunc) /\ curr' \in 0..Cards /\ curr \in Card
         /\ fn # 1 => hash = curr
<1>1. curr \in 0..Cards /\ Cards \in Nat /\ pc \in {"down", "change"} /\ curr # 0
  BY RaidDriverAssumption DEF TypeOK, At
<1>2. NextCard \in 0..Cards /\ curr \in Card
  BY <1>1 DEF NextCard, Card
<1>3. CASE pc = "down"
  <2>1. fn \in 1..12
    BY <1>3 DEF IInv, LoopInv
  <2> QED
    BY <1>1, <1>2, <1>3, <2>1, AdvanceTo, Tables DEF Step, IInv, HookInv
<1>4. CASE pc = "change"
  <2>1. fn \in 1..9
    BY <1>4 DEF IInv, LoopInv
  <2> QED
    BY <1>1, <1>2, <1>4, <2>1, AdvanceTo, Tables DEF Step, IInv, HookInv
<1> QED
  BY <1>1, <1>3, <1>4

\* Check marks records and changes nothing else of them.
LEMMA CheckMarks ==
  ASSUME TypeOK, curr \in Card, CheckChangeableItemsInChangedVar
  PROVE  /\ changed' \in [Card -> Seq(ChangedRecord)]
         /\ \A c \in Card : c # curr => changed'[c] = changed[c]
         /\ Len(changed'[curr]) = Len(changed[curr])
         /\ \A n \in 1..Len(changed[curr]) :
              /\ changed'[curr][n].var = changed[curr][n].var
              /\ changed'[curr][n].data = changed[curr][n].data
              /\ changed'[curr][n].updated = IF Marked(n) THEN 1 ELSE 0
<1> DEFINE s == changed[curr]
           u(n) == IF Marked(n) THEN 1 ELSE 0
           t == [n \in 1..Len(s) |-> [s[n] EXCEPT !.updated = u(n)]]
<1>1. s \in Seq(ChangedRecord) /\ Len(s) \in Nat /\ changed \in [Card -> Seq(ChangedRecord)]
  <2>1. changed \in [Card -> Seq(ChangedRecord)]
    BY DEF TypeOK, ChangedRecord
  <2> QED
    BY <2>1
<1>2. changed' = [changed EXCEPT ![curr] = t]
  BY Zenon DEF CheckChangeableItemsInChangedVar
<1>3. \A n \in 1..Len(s) : u(n) \in {0, 1}
  OBVIOUS
<1>4. \A n \in 1..Len(s) : s[n] \in ChangedRecord
  BY <1>1
<1> HIDE DEF s, u
<1>5. \A n \in 1..Len(s) : /\ t[n] \in ChangedRecord /\ t[n].var = s[n].var /\ t[n].data = s[n].data
                           /\ t[n].updated = u(n)
  BY <1>3, <1>4 DEF ChangedRecord
<1>6. t \in Seq(ChangedRecord) /\ Len(t) = Len(s)
  <2>1. DOMAIN t = 1..Len(s)
    OBVIOUS
  <2> HIDE DEF t
  <2>2. t = [n \in 1..Len(s) |-> t[n]]
    BY <2>1 DEF t
  <2> QED
    BY <1>1, <1>5, <2>1, <2>2
<1> HIDE DEF t
<1>7. changed' \in [Card -> Seq(ChangedRecord)] /\ changed'[curr] = t /\ \A c \in Card : c # curr => changed'[c] = changed[c]
  BY <1>1, <1>2, <1>6
<1> QED
  BY <1>5, <1>6, <1>7 DEF s, u

\* What ParseNvData finds next is a list of a card's variables.
LEMMA NextListType ==
  ASSUME TypeOK, NEW c
  PROVE  /\ NextList(c).list \in Seq(Card \X SetupVar)
         /\ NextList(c).next \in 0..Cards
<1> DEFINE full == {d \in Card : d >= c /\ setupVars[d] # <<>>}
           d == CHOOSE d \in full : \A e \in full : d <= e
           l == [n \in 1..Len(setupVars[d]) |-> <<d, setupVars[d][n]>>]
<1>1. Cards \in Nat /\ setupVars \in [Card -> Seq(SetupVar)]
  BY RaidDriverAssumption DEF TypeOK
<1>2. CASE full = {}
  <2>1. NextList(c) = [list |-> <<>>, next |-> 0]
    BY <1>2 DEF NextList
  <2> QED
    BY <1>1, <2>1
<1>3. CASE full # {}
  <2>1. full \in SUBSET Nat
    BY <1>1 DEF Card
  <2>2. Min(full) \in full /\ \A e \in full : Min(full) <= e
    BY <1>3, <2>1, MinIn
  <2>3. d \in full
    BY <2>2
  <2>4. NextList(c) = [list |-> l, next |-> IF d < Cards THEN d + 1 ELSE 0]
    BY <1>3 DEF NextList
  <2>5. d \in Card
    BY <2>3
  <2> HIDE DEF d
  <2>6. setupVars[d] \in Seq(SetupVar)
    BY <1>1, <2>5
  <2>7. l \in Seq(Card \X SetupVar)
    BY <2>5, <2>6
  <2> HIDE DEF l
  <2>8. (IF d < Cards THEN d + 1 ELSE 0) \in 0..Cards
    BY <1>1, <2>5 DEF Card
  <2> QED
    BY <2>4, <2>7, <2>8
<1> QED
  BY <1>2, <1>3

\* The first record of a store is looked up among the collected records.
LEMMA FirstIs ==
  ASSUME NEW x, changed[curr] \in Seq(ChangedRecord)
  PROVE  /\ (\A n \in 1..Len(changed[curr]) : changed[curr][n].var # x) => First(x) = 0
         /\ \A n : FirstAt(changed[curr], x, n) => First(x) = n
         /\ (\E n \in 1..Len(changed[curr]) : changed[curr][n].var = x) => FirstAt(changed[curr], x, First(x))
<1> DEFINE I == {n \in 1..Len(changed[curr]) : changed[curr][n].var = x}
<1>1. First(x) = IF I # {} THEN Min(I) ELSE 0
  BY DEF First, SelectInSeq
<1>2. I \in SUBSET Nat
  OBVIOUS
<1>3. I # {} => Min(I) \in I /\ \A n \in I : Min(I) <= n
  BY <1>2, MinIn
<1>4. ASSUME NEW n, FirstAt(changed[curr], x, n) PROVE First(x) = n
  <2>1. n \in I /\ \A m \in I : n <= m
    BY <1>4 DEF FirstAt
  <2>2. Min(I) <= n /\ n <= Min(I) /\ Min(I) \in Nat /\ n \in Nat
    BY <1>2, <1>3, <2>1
  <2> QED
    BY <1>1, <2>1, <2>2
<1>5. ASSUME NEW n \in 1..Len(changed[curr]), changed[curr][n].var = x
      PROVE  FirstAt(changed[curr], x, First(x))
  <2>1. First(x) \in I /\ \A m \in I : First(x) <= m
    BY <1>1, <1>3, <1>5
  <2> QED
    BY <2>1 DEF FirstAt
<1> QED
  BY <1>1, <1>4, <1>5

\* So it is one of them.
LEMMA FirstIn ==
  ASSUME TypeOK, curr \in Card, NEW n \in 1..Len(changed[curr])
  PROVE  First(changed[curr][n].var) \in 1..Len(changed[curr])
<1>1. changed[curr] \in Seq(ChangedRecord)
  BY DEF TypeOK, ChangedRecord
<1> QED
  BY <1>1, FirstIs DEF FirstAt

\* The card that is talked to is the card of the current hash tables.
LEMMA TalkingTo ==
  ASSUME TypeOK, IInv, At("Access") \/ At("Commands") \/ At("AccessMenu"), curr \in Card
  PROVE  hash \in Card /\ hash = curr /\ hooked = 1
<1>1. HookBalanced
  BY BalancedInv
<1> QED
  BY <1>1 DEF HookBalanced, Talking

\* Every function of the tables keeps the types.
LEMMA FunctionTypes ==
  ASSUME TypeOK, IInv,
         \/ FreeLsiVarHashTable
         \/ SmcLsiRaidOOB_InitialFunc
         \/ SmcLsiRaidOOB_CollectInformation_Form
         \/ SmcLsiCallbackAccessMenu
         \/ SmcLsiRaidOOB_CollectInformation_ChRec
         \/ SmcLsiSetSmcLsiVariableTable
         \/ SmcLsiCreateSmcRaidVarAndItems
         \/ CheckChangeableItemsInChangedVar
         \/ ChangedVarToOOBVarBuffer
         \/ AccessRAIDRecordtoChangeSetting
         \/ HandleRaidCfgCmdString
         \/ InitialItemsQIdTable
         \/ InitialLsiVarHashTable
         \/ SmcLsiHookBrowser2Protocol
  PROVE  TypeOK'
<1>a. MaxFault \in Nat /\ MaxPost \in Nat
  BY RaidDriverBoundsAssumption
<1>1. CASE FreeLsiVarHashTable
  <2>1. Advance /\ (At("FreeLsiVarHashTable"))
    BY <1>1 DEF FreeLsiVarHashTable
  <2>2. pc' \in Step /\ fn' \in 1..Len(DownFunc)' /\ curr' \in 0..Cards /\ curr \in Card
    BY <2>1, AdvanceTypes DEF DownFunc
  <2>3. stores' \in [Card -> SUBSET LsiVar]
    BY <1>1, <2>2 DEF FreeLsiVarHashTable, TypeOK
  <2> QED
    BY <1>1, <2>2, <2>3 DEF FreeLsiVarHashTable, TypeOK, driverVars, cardVars, fileVars, historyVars
<1>2. CASE SmcLsiRaidOOB_InitialFunc
  <2>1. Advance /\ (At("InitialFunc"))
    BY <1>2 DEF SmcLsiRaidOOB_InitialFunc
  <2>2. pc' \in Step /\ fn' \in 1..Len(DownFunc)' /\ curr' \in 0..Cards /\ curr \in Card
    BY <2>1, AdvanceTypes DEF DownFunc
  <2> QED
    BY <1>2, <2>2 DEF SmcLsiRaidOOB_InitialFunc, TypeOK, driverVars, cardVars, fileVars, historyVars
<1>3. CASE SmcLsiRaidOOB_CollectInformation_Form
  <2>1. Advance /\ (At("Form"))
    BY <1>3 DEF SmcLsiRaidOOB_CollectInformation_Form
  <2>2. pc' \in Step /\ fn' \in 1..Len(DownFunc)' /\ curr' \in 0..Cards /\ curr \in Card
    BY <2>1, AdvanceTypes DEF DownFunc
  <2>3. stores' \in [Card -> SUBSET LsiVar]
    BY <1>3, <2>2 DEF SmcLsiRaidOOB_CollectInformation_Form, TypeOK
  <2>4. bad' \subseteq Card /\ faults' \in 0..MaxFault
    BY <1>3, <1>a, <2>2 DEF SmcLsiRaidOOB_CollectInformation_Form, TypeOK, Fault
  <2> QED
    BY <1>3, <2>2, <2>3, <2>4 DEF SmcLsiRaidOOB_CollectInformation_Form, TypeOK, driverVars, cardVars, fileVars, historyVars
<1>4. CASE SmcLsiCallbackAccessMenu
  <2>1. Advance /\ (At("AccessMenu"))
    BY <1>4 DEF SmcLsiCallbackAccessMenu
  <2>2. pc' \in Step /\ fn' \in 1..Len(DownFunc)' /\ curr' \in 0..Cards /\ curr \in Card
    BY <2>1, AdvanceTypes DEF DownFunc
  <2>3. buffer' \in Buffer
    <3> DEFINE new == [x \in SetupVar |-> IF x \in LsiVar /\ CallbackWrites(x)
                                           THEN setting[curr][x] ELSE buffer[hash][x]]
    <3>1. buffer' = buffer \/ buffer' = [buffer EXCEPT ![hash] = new]
      BY <1>4, Zenon DEF SmcLsiCallbackAccessMenu
    <3>2. hash \in Card
      BY <2>1, <2>2, TalkingTo
    <3>3. \A x \in LsiVar : setting[curr][x] \in Value
      BY <2>2 DEF TypeOK, Setting
    <3>4. \A x \in SetupVar : buffer[hash][x] \in Value
      BY <3>2 DEF TypeOK, Buffer
    <3>5. new \in [SetupVar -> Value]
      BY <3>3, <3>4
    <3> HIDE DEF new
    <3> QED
      BY <3>1, <3>5 DEF TypeOK, Buffer
  <2>4. bad' \subseteq Card /\ faults' \in 0..MaxFault
    <3>1. \/ UNCHANGED <<bad, faults>>
          \/ faults < MaxFault /\ faults' = faults + 1 /\ bad' = bad \cup {curr}
      BY <1>4 DEF SmcLsiCallbackAccessMenu, Fault
    <3>2. bad \subseteq Card /\ faults \in 0..MaxFault
      BY DEF TypeOK
    <3>3. bad' \subseteq Card
      BY <2>2, <3>1, <3>2
    <3>4. faults' \in 0..MaxFault
      BY <1>a, <3>1, <3>2
    <3> QED
      BY <3>3, <3>4
  <2> QED
    BY <1>4, <2>2, <2>3, <2>4 DEF SmcLsiCallbackAccessMenu, TypeOK, driverVars, cardVars, fileVars, historyVars
<1>5. CASE SmcLsiRaidOOB_CollectInformation_ChRec
  <2>1. Advance /\ (At("ChRec"))
    BY <1>5 DEF SmcLsiRaidOOB_CollectInformation_ChRec
  <2>2. pc' \in Step /\ fn' \in 1..Len(DownFunc)' /\ curr' \in 0..Cards /\ curr \in Card
    BY <2>1, AdvanceTypes DEF DownFunc
  <2>3. accessed' \in [Card -> SUBSET LsiVar]
    BY <1>5, <2>2 DEF SmcLsiRaidOOB_CollectInformation_ChRec, TypeOK
  <2> QED
    BY <1>5, <2>2, <2>3 DEF SmcLsiRaidOOB_CollectInformation_ChRec, TypeOK, driverVars, cardVars, fileVars, historyVars
<1>6. CASE SmcLsiSetSmcLsiVariableTable
  <2>1. Advance /\ (At("SetVariableTable"))
    BY <1>6 DEF SmcLsiSetSmcLsiVariableTable
  <2>2. pc' \in Step /\ fn' \in 1..Len(DownFunc)' /\ curr' \in 0..Cards /\ curr \in Card
    BY <2>1, AdvanceTypes DEF DownFunc
  <2>3. setupVars' \in [Card -> Seq(SetupVar)]
    <3>1. VarsOf[curr] \in Seq(SetupVar)
      <4>1. VarsOf[curr] \in Seq(LsiVar)
        BY <2>2, RaidDriverAssumption
      <4> QED
        BY <4>1 DEF SetupVar
    <3> QED
      BY <1>6, <3>1 DEF SmcLsiSetSmcLsiVariableTable, TypeOK
  <2> QED
    BY <1>6, <2>2, <2>3 DEF SmcLsiSetSmcLsiVariableTable, TypeOK, driverVars, cardVars, fileVars, historyVars
<1>7. CASE SmcLsiCreateSmcRaidVarAndItems
  <2>1. Advance /\ (At("CreateVar"))
    BY <1>7 DEF SmcLsiCreateSmcRaidVarAndItems
  <2>2. pc' \in Step /\ fn' \in 1..Len(DownFunc)' /\ curr' \in 0..Cards /\ curr \in Card
    BY <2>1, AdvanceTypes DEF DownFunc
  <2>3. setupVars' \in [Card -> Seq(SetupVar)]
    <3>1. setupVars[curr] \in Seq(SetupVar) /\ CmdVar \in SetupVar
      BY <2>2 DEF TypeOK, SetupVar
    <3>2. Append(setupVars[curr], CmdVar) \in Seq(SetupVar)
      BY <3>1
    <3>3. \/ setupVars' = setupVars
          \/ setupVars' = [setupVars EXCEPT ![curr] = Append(setupVars[curr], CmdVar)]
      BY <1>7 DEF SmcLsiCreateSmcRaidVarAndItems
    <3> QED
      BY <2>2, <3>2, <3>3 DEF TypeOK
  <2>4. buffer' \in Buffer
    <3>1. buffer' = buffer \/ buffer' = [buffer EXCEPT ![hash][CmdVar] = NoCmd]
      BY <1>7 DEF SmcLsiCreateSmcRaidVarAndItems
    <3>2. buffer \in [Card -> [SetupVar -> Value]] /\ CmdVar \in SetupVar /\ NoCmd \in Value
      BY RaidDriverAssumption DEF TypeOK, Buffer, SetupVar
    <3> QED
      BY <3>1, <3>2 DEF Buffer
  <2> QED
    BY <1>7, <2>2, <2>3, <2>4 DEF SmcLsiCreateSmcRaidVarAndItems, TypeOK, driverVars, cardVars, fileVars, historyVars
<1>8. CASE CheckChangeableItemsInChangedVar
  <2>1. Advance /\ (At("Check"))
    BY <1>8 DEF CheckChangeableItemsInChangedVar
  <2>2. pc' \in Step /\ fn' \in 1..Len(DownFunc)' /\ curr' \in 0..Cards /\ curr \in Card
    BY <2>1, AdvanceTypes DEF DownFunc
  <2>3. changed' \in [Card -> Seq([var : SetupVar, data : Value, updated : {0, 1}])]
    BY <1>8, <2>2, CheckMarks DEF CheckChangeableItemsInChangedVar, ChangedRecord
  <2>4. accessed' \in [Card -> SUBSET LsiVar]
    BY <1>8, <2>2, RaidDriverAssumption DEF CheckChangeableItemsInChangedVar, TypeOK
  <2> QED
    BY <1>8, <2>2, <2>3, <2>4 DEF CheckChangeableItemsInChangedVar, TypeOK, driverVars, cardVars, fileVars, historyVars
<1>9. CASE ChangedVarToOOBVarBuffer
  <2>1. Advance /\ (At("ToBuffer"))
    BY <1>9 DEF ChangedVarToOOBVarBuffer
  <2>2. pc' \in Step /\ fn' \in 1..Len(DownFunc)' /\ curr' \in 0..Cards /\ curr \in Card
    BY <2>1, AdvanceTypes DEF DownFunc
  <2>3. buffer' \in Buffer
    <3> DEFINE new == [x \in SetupVar |->
          IF \E n \in 1..Len(changed[curr]) :
               changed[curr][n].var = x /\ changed[curr][n].updated = 1
          THEN changed[curr][First(x)].data ELSE buffer[curr][x]]
    <3>1. buffer' = buffer \/ buffer' = [buffer EXCEPT ![curr] = new]
      BY <1>9 DEF ChangedVarToOOBVarBuffer
    <3>2. ASSUME NEW x \in SetupVar PROVE new[x] \in Value
      <4>1. ASSUME NEW n \in 1..Len(changed[curr]), changed[curr][n].var = x
            PROVE  changed[curr][First(x)].data \in Value
        <5>1. First(x) \in 1..Len(changed[curr])
          BY <2>2, <4>1, FirstIn
        <5>2. changed[curr] \in Seq(ChangedRecord)
          BY <2>2 DEF TypeOK, ChangedRecord
        <5>3. changed[curr][First(x)] \in ChangedRecord
          BY <5>1, <5>2
        <5> QED
          BY <5>3 DEF ChangedRecord
      <4> QED
        BY <2>2, <4>1 DEF TypeOK, Buffer
    <3>3. new \in [SetupVar -> Value]
      BY <3>2
    <3> HIDE DEF new
    <3> QED
      BY <2>2, <3>1, <3>3 DEF TypeOK, Buffer
  <2> QED
    BY <1>9, <2>2, <2>3 DEF ChangedVarToOOBVarBuffer, TypeOK, driverVars, cardVars, fileVars, historyVars
<1>10. CASE AccessRAIDRecordtoChangeSetting
  <2>1. Advance /\ (At("Access"))
    BY <1>10 DEF AccessRAIDRecordtoChangeSetting
  <2>2. pc' \in Step /\ fn' \in 1..Len(DownFunc)' /\ curr' \in 0..Cards /\ curr \in Card
    BY <2>1, AdvanceTypes DEF DownFunc
  <2>3. setting' \in Setting
    <3>1. buffer[hash] \in [SetupVar -> Value] /\ setting[curr] \in [LsiVar -> Value]
      <4>1. hash \in Card
        BY <2>1, <2>2, TalkingTo
      <4> QED
        BY <2>2, <4>1 DEF TypeOK, Buffer, Setting
    <3> DEFINE new == [x \in LsiVar |-> IF x \in accessed[curr] /\ CallbackWrites(x)
                               THEN buffer[hash][x] ELSE setting[curr][x]]
    <3>2. new \in [LsiVar -> Value]
      BY <3>1 DEF SetupVar
    <3>3. setting' = setting \/ setting' = [setting EXCEPT ![curr] = new]
      BY <1>10, Zenon DEF AccessRAIDRecordtoChangeSetting
    <3> HIDE DEF new
    <3> QED
      BY <2>2, <3>2, <3>3 DEF TypeOK, Setting
  <2>4. bad' \subseteq Card /\ faults' \in 0..MaxFault
    <3>1. \/ UNCHANGED <<bad, faults>>
          \/ faults < MaxFault /\ faults' = faults + 1 /\ bad' = bad \cup {curr}
      BY <1>10 DEF AccessRAIDRecordtoChangeSetting, Fault
    <3>2. bad \subseteq Card /\ faults \in 0..MaxFault
      BY DEF TypeOK
    <3>3. bad' \subseteq Card
      BY <2>2, <3>1, <3>2
    <3>4. faults' \in 0..MaxFault
      BY <1>a, <3>1, <3>2
    <3> QED
      BY <3>3, <3>4
  <2> QED
    BY <1>10, <2>2, <2>3, <2>4 DEF AccessRAIDRecordtoChangeSetting, TypeOK, driverVars, cardVars, fileVars, historyVars
<1>11. CASE HandleRaidCfgCmdString
  <2>1. Advance /\ (At("Commands"))
    BY <1>11 DEF HandleRaidCfgCmdString
  <2>2. pc' \in Step /\ fn' \in 1..Len(DownFunc)' /\ curr' \in 0..Cards /\ curr \in Card
    BY <2>1, AdvanceTypes DEF DownFunc
  <2>3. handled' \in [Card -> Value]
    <3>1. buffer[hash][CmdVar] \in Value
      <4>1. hash \in Card
        BY <2>1, <2>2, TalkingTo
      <4> QED
        BY <4>1 DEF TypeOK, Buffer, SetupVar
    <3> QED
      BY <1>11, <2>2, <3>1 DEF HandleRaidCfgCmdString, TypeOK
  <2> QED
    BY <1>11, <2>2, <2>3 DEF HandleRaidCfgCmdString, TypeOK, driverVars, cardVars, fileVars, historyVars
<1>12. CASE InitialItemsQIdTable
  <2>1. Advance /\ (At("ItemsQId") \/ At("Items"))
    BY <1>12 DEF InitialItemsQIdTable
  <2>2. pc' \in Step /\ fn' \in 1..Len(DownFunc)' /\ curr' \in 0..Cards /\ curr \in Card
    BY <2>1, AdvanceTypes DEF DownFunc
  <2> QED
    BY <1>12, <2>2 DEF InitialItemsQIdTable, TypeOK, driverVars, cardVars, fileVars, historyVars
<1>13. CASE InitialLsiVarHashTable
  <2>1. Advance /\ (At("InitialLsiVarHashTable"))
    BY <1>13 DEF InitialLsiVarHashTable
  <2>2. pc' \in Step /\ fn' \in 1..Len(DownFunc)' /\ curr' \in 0..Cards /\ curr \in Card
    BY <2>1, AdvanceTypes DEF DownFunc
  <2>3. hash' \in 0..Cards
    BY <1>13, <2>2 DEF InitialLsiVarHashTable, TypeOK, Card
  <2> QED
    BY <1>13, <2>2, <2>3 DEF InitialLsiVarHashTable, TypeOK, driverVars, cardVars, fileVars, historyVars
<1>14. CASE SmcLsiHookBrowser2Protocol
  <2>1. Advance /\ (At("Hook"))
    BY <1>14 DEF SmcLsiHookBrowser2Protocol
  <2>2. pc' \in Step /\ fn' \in 1..Len(DownFunc)' /\ curr' \in 0..Cards /\ curr \in Card
    BY <2>1, AdvanceTypes DEF DownFunc
  <2>3. Browser2' \in {0, 1} /\ hooked' \in {0, 1}
    BY <1>14, <2>2 DEF SmcLsiHookBrowser2Protocol, TypeOK
  <2> QED
    BY <1>14, <2>2, <2>3 DEF SmcLsiHookBrowser2Protocol, TypeOK, driverVars, cardVars, fileVars, historyVars
<1> QED
  BY <1>1, <1>2, <1>3, <1>4, <1>5, <1>6, <1>7, <1>8, <1>9, <1>10, <1>11, <1>12, <1>13, <1>14

\* What ParseNvData continues with.
LEMMA WalkType ==
  ASSUME TypeOK
  PROVE  Walk.list \in Seq(Card \X SetupVar) /\ Walk.next \in 0..Cards
<1>1. iter.left \in Seq(Card \X SetupVar) /\ curr \in 0..Cards /\ Cards \in Nat
  BY RaidDriverAssumption DEF TypeOK
<1>2. /\ [list |-> <<>>, next |-> 0].list \in Seq(Card \X SetupVar)
      /\ [list |-> <<>>, next |-> 0].next \in 0..Cards
  BY <1>1
<1>3. /\ [list |-> iter.left, next |-> curr].list \in Seq(Card \X SetupVar)
      /\ [list |-> iter.left, next |-> curr].next \in 0..Cards
  BY <1>1
<1>4. \/ Walk = [list |-> <<>>, next |-> 0]
      \/ Walk = [list |-> iter.left, next |-> curr]
      \/ Walk = NextList(IF iter.renew = 1 THEN 1 ELSE curr)
  BY DEF Walk
<1> QED
  BY <1>2, <1>3, <1>4, NextListType

\* The steps before, between and behind the tables keep the types.
LEMMA OtherTypes ==
  ASSUME TypeOK, IInv, Driver,
         ~SmcLsiRaidLib_CollectData, ~SmcLsiRaidLib_ParseNvData
  PROVE  TypeOK'
<1>b. MaxFault \in Nat /\ Cards \in Nat /\ Cards # 0 /\ Len(DownFunc) = 12 /\ Len(DownFunc)' = 12
  BY RaidDriverBoundsAssumption, RaidDriverAssumption, Tables DEF DownFunc
<1>a. 1 \in 1..Len(DownFunc)' /\ 0 \in 0..Cards /\ 1 \in 0..Cards /\ Len(DownFunc)' = Len(DownFunc)
  BY <1>b
<1>f. ASSUME Fault PROVE faults' \in 0..MaxFault
  <2>1. faults \in 0..MaxFault
    BY DEF TypeOK
  <2> QED
    BY <1>b, <1>f, <2>1 DEF Fault
<1>1. CASE StartLoadError
  <2>1. faults' \in 0..MaxFault
    BY <1>1, <1>f DEF StartLoadError
  <2> QED
    BY <1>1, <1>a, <2>1 DEF StartLoadError, TypeOK, Step, driverVars, loopVars, cardVars, fileVars
<1>2. CASE StartInstallFails
  <2>1. faults' \in 0..MaxFault
    BY <1>2, <1>f DEF StartInstallFails
  <2> QED
    BY <1>2, <1>a, <2>1 DEF StartInstallFails, TypeOK, Step, loopVars, cardVars, fileVars
<1>3. CASE SmcLsiOOBSetupDriverStart
  BY <1>3, <1>a DEF SmcLsiOOBSetupDriverStart, TypeOK, Step, cardVars, fileVars, historyVars
<1>4. CASE FunctionFails \/ HookFails
  <2>1. FuncFails /\ curr # 0
    BY <1>4 DEF FunctionFails, HookFails, At
  <2>2. bad' \subseteq Card
    BY <2>1, <1>b DEF FuncFails, TypeOK, Card
  <2>3. faults' \in 0..MaxFault
    BY <2>1, <1>f DEF FuncFails
  <2> QED
    BY <1>a, <2>1, <2>2, <2>3 DEF FuncFails, TypeOK, Step, driverVars, cardVars, fileVars
<1>5. CASE SetVariableTableFails
  BY <1>5, <1>a DEF SetVariableTableFails, TypeOK, Step, driverVars, cardVars, fileVars, historyVars
<1>6. CASE SmcLsiOOBSetupDriverDownload
  BY <1>6, <1>a DEF SmcLsiOOBSetupDriverDownload, TypeOK, Step, loopVars, cardVars, fileVars, historyVars
<1>7. CASE NoFile
  BY <1>7, <1>a DEF NoFile, TypeOK, Step, driverVars, loopVars, cardVars, fileVars, historyVars
<1>8. CASE HandleDataStart
  BY <1>8, <1>a DEF HandleDataStart, TypeOK, Step, driverVars, cardVars, fileVars, historyVars
<1>9. CASE HandleNothing
  BY <1>9, <1>a DEF HandleNothing, TypeOK, Step, driverVars, loopVars, cardVars, fileVars, historyVars
<1>10. CASE SmcLsiRaidLib_HandleData
  BY <1>10, <1>a DEF SmcLsiRaidLib_HandleData, TypeOK, Step, loopVars, cardVars, fileVars, historyVars
<1>11. CASE ParseNvDataEnds
  <2>1. iter' \in [renew : {0, 1}, left : Seq(Card \X SetupVar)]
    BY <1>11 DEF ParseNvDataEnds, TypeOK
  <2>2. curr' \in 0..Cards
    BY <1>11, <1>a DEF ParseNvDataEnds, TypeOK
  <2> QED
    BY <1>11, <1>a, <2>1, <2>2 DEF ParseNvDataEnds, TypeOK, Step, driverVars, cardVars, fileVars, historyVars
<1>12. CASE SmcLsiOOBSetupDriverLoadResource
  <2>1. curr' \in 0..Cards /\ hash' \in 0..Cards
    BY <1>12, <1>b DEF SmcLsiOOBSetupDriverLoadResource, TypeOK, Card
  <2> QED
    BY <1>12, <1>a, <2>1 DEF SmcLsiOOBSetupDriverLoadResource, TypeOK, Step, driverVars, cardVars, fileVars, historyVars
<1> QED
  BY <1>1, <1>2, <1>3, <1>4, <1>5, <1>6, <1>7, <1>8, <1>9, <1>10, <1>11, <1>12, FunctionTypes DEF Driver

\* A record of the file.
LEMMA FileType ==
  ASSUME TypeOK
  PROVE  file \in Seq(Record) /\ Len(file) \in Nat /\ \A m \in 1..Len(file) : file[m] \in Record
<1>1. file \in Seq(Record)
  <2>1. file \in Files \cup {<<>>}
    BY DEF TypeOK
  <2>2. Files \subseteq Seq(Record) /\ <<>> \in Seq(Record)
    BY RaidDriverAssumption
  <2> QED
    BY <2>1, <2>2
<1> QED
  BY <1>1

\* CollectData appends one record to the list of one card.
LEMMA CollectStep ==
  ASSUME TypeOK, SmcLsiRaidLib_CollectData
  PROVE  LET r == file[i]
         IN  /\ r \in Record /\ i \in 1..Len(file)
             /\ Collectable(r) =>
                  /\ changed' = [changed EXCEPT ![r.card] =
                       Append(changed[r.card], [var |-> r.var, data |-> r.data, updated |-> 0])]
                  /\ [var |-> r.var, data |-> r.data, updated |-> 0] \in ChangedRecord
                  /\ SmcLsiHaveNvData' = 1
             /\ ~Collectable(r) => UNCHANGED <<changed, SmcLsiHaveNvData>>
<1>1. i \in 1..Len(file)
  BY FileType DEF TypeOK, SmcLsiRaidLib_CollectData
<1>2. file[i] \in Record
  BY <1>1, FileType
<1>3. Collectable(file[i]) => file[i].data \in Value /\ file[i].var \in SetupVar
  BY <1>2 DEF Collectable, Record
<1> QED
  BY <1>1, <1>2, <1>3 DEF SmcLsiRaidLib_CollectData, ChangedRecord

\* Every step keeps the types.
LEMMA TypeStep ==
  ASSUME TypeOK, IInv, [Next]_vars
  PROVE  TypeOK'
<1>a. /\ MaxFault \in Nat /\ MaxPost \in Nat /\ Cards \in Nat /\ Cards # 0
      /\ Len(DownFunc) = 12 /\ Len(DownFunc)' = 12
  BY RaidDriverBoundsAssumption, RaidDriverAssumption, Tables DEF DownFunc
<1>1. CASE SmcLsiRaidLib_CollectData
  <2>1. changed' \in [Card -> Seq([var : SetupVar, data : Value, updated : {0, 1}])]
    <3> DEFINE r == file[i]
               e == [var |-> r.var, data |-> r.data, updated |-> 0]
    <3>1. /\ r \in Record
          /\ Collectable(r) => /\ changed' = [changed EXCEPT ![r.card] = Append(changed[r.card], e)]
                               /\ e \in ChangedRecord
          /\ ~Collectable(r) => changed' = changed
      BY <1>1, CollectStep
    <3> HIDE DEF r, e
    <3>2. r.card \in Card /\ changed \in [Card -> Seq(ChangedRecord)]
      BY <3>1 DEF Record, TypeOK, ChangedRecord
    <3>3. changed[r.card] \in Seq(ChangedRecord)
      BY <3>2
    <3>4. e \in ChangedRecord => Append(changed[r.card], e) \in Seq(ChangedRecord)
      BY <3>3
    <3>5. changed' \in [Card -> Seq(ChangedRecord)]
      BY <3>1, <3>2, <3>4
    <3> QED
      BY <3>5 DEF ChangedRecord
  <2>2. SmcLsiHaveNvData' \in {0, 1} /\ i' \in Nat \ {0}
    BY <1>1 DEF SmcLsiRaidLib_CollectData, TypeOK
  <2> QED
    BY <1>1, <1>a, <2>1, <2>2 DEF SmcLsiRaidLib_CollectData, TypeOK, loopVars, historyVars
<1>2. CASE SmcLsiRaidLib_ParseNvData
  <2> DEFINE v == Head(Walk.list)
             e == [card |-> v[1], var |-> v[2], data |-> buffer[v[1]][v[2]]]
  <2>1. Walk.list \in Seq(Card \X SetupVar) /\ Walk.list # <<>> /\ Walk.next \in 0..Cards
    BY <1>2, WalkType DEF SmcLsiRaidLib_ParseNvData
  <2>2. v \in Card \X SetupVar /\ Tail(Walk.list) \in Seq(Card \X SetupVar)
    BY <2>1
  <2>3. iter' \in [renew : {0, 1}, left : Seq(Card \X SetupVar)] /\ curr' \in 0..Cards
    BY <1>2, <2>1, <2>2 DEF SmcLsiRaidLib_ParseNvData
  <2>4. exported' = Append(exported, e)
    BY <1>2 DEF SmcLsiRaidLib_ParseNvData
  <2> HIDE DEF v
  <2>5. e \in [card : Card, var : SetupVar, data : Value]
    BY <2>2 DEF TypeOK, Buffer
  <2>6. exported' \in Seq([card : Card, var : SetupVar, data : Value])
    BY <2>4, <2>5 DEF TypeOK
  <2> QED
    BY <1>2, <1>a, <2>3, <2>6 DEF SmcLsiRaidLib_ParseNvData, TypeOK, driverVars, cardVars, fileVars
<1>3. ASSUME NEW f \in Files \cup {<<>>}, SmcLsiRaidOOBSetupEntry(f) PROVE TypeOK'
  <2>1. /\ stores' \in [Card -> SUBSET LsiVar] /\ setupVars' \in [Card -> Seq(SetupVar)]
        /\ changed' \in [Card -> Seq([var : SetupVar, data : Value, updated : {0, 1}])]
        /\ accessed' \in [Card -> SUBSET LsiVar]
    BY <1>3 DEF SmcLsiRaidOOBSetupEntry, Blank
  <2>2. buffer' \in Buffer /\ handled' \in [Card -> Value]
    BY <1>3, RaidDriverAssumption DEF SmcLsiRaidOOBSetupEntry, Blank, Buffer
  <2>3. posts' \in 0..MaxPost
    BY <1>3, <1>a DEF SmcLsiRaidOOBSetupEntry, TypeOK
  <2>4. iter' \in [renew : {0, 1}, left : Seq(Card \X SetupVar)]
    BY <1>3 DEF SmcLsiRaidOOBSetupEntry
  <2>5. exported' \in Seq([card : Card, var : SetupVar, data : Value])
    BY <1>3 DEF SmcLsiRaidOOBSetupEntry
  <2>6. /\ pc' \in Step /\ fn' \in 1..Len(DownFunc)' /\ curr' \in 0..Cards /\ hash' \in 0..Cards
        /\ i' \in Nat \ {0}
    BY <1>3, <1>a DEF SmcLsiRaidOOBSetupEntry, Step
  <2> QED
    BY <1>3, <2>1, <2>2, <2>3, <2>4, <2>5, <2>6 DEF SmcLsiRaidOOBSetupEntry, TypeOK
<1>4. CASE UNCHANGED vars
  BY <1>a, <1>4 DEF TypeOK, vars, driverVars, loopVars, cardVars, fileVars, historyVars
<1> QED
  BY <1>1, <1>2, <1>3, <1>4, OtherTypes DEF Next

\* Every variable of the driver keeps its type, for any number of cards, variables,
\* files and failures.
THEOREM TypeCorrect == Spec => []TypeOK
<1>1. Init => TypeOK
  <2>1. ASSUME Init PROVE TypeOK
    <3>1. /\ stores \in [Card -> SUBSET LsiVar] /\ setupVars \in [Card -> Seq(SetupVar)]
          /\ changed \in [Card -> Seq([var : SetupVar, data : Value, updated : {0, 1}])]
          /\ accessed \in [Card -> SUBSET LsiVar]
      BY <2>1 DEF Init, Blank
    <3>2. buffer \in Buffer /\ handled \in [Card -> Value]
      BY <2>1, RaidDriverAssumption DEF Init, Blank, Buffer
    <3>3. iter \in [renew : {0, 1}, left : Seq(Card \X SetupVar)]
      BY <2>1 DEF Init
    <3>4. exported \in Seq([card : Card, var : SetupVar, data : Value])
      BY <2>1 DEF Init
    <3>5. setting \in Setting /\ atStart \in Setting
      BY <2>1 DEF Init, Setting
    <3>6. /\ MaxFault \in Nat /\ MaxPost \in Nat /\ Cards \in Nat /\ Len(DownFunc) = 12
      BY RaidDriverBoundsAssumption, RaidDriverAssumption, Tables
    <3>7. /\ pc \in Step /\ fn \in 1..Len(DownFunc) /\ curr \in 0..Cards /\ hash \in 0..Cards
          /\ i \in Nat \ {0} /\ posts \in 0..MaxPost /\ faults \in 0..MaxFault
      BY <2>1, <3>6 DEF Init, Step
    <3> QED
      BY <2>1, <3>1, <3>2, <3>3, <3>4, <3>5, <3>7 DEF Init, TypeOK
  <2> QED
    BY <2>1
<1> QED
  BY <1>1, Invariance, TypeStep, PTL DEF Spec

-----------------------------------------------------------------------------
(* The changes reach their card.                                           *)

\* The first record of the file for a store of a card.
LEMMA FileFirst ==
  ASSUME TypeOK, NEW c, NEW x
  PROVE  /\ FirstInFile(c, x) \in 0..Len(file)
         /\ FirstInFile(c, x) # 0 =>
              LET r == file[FirstInFile(c, x)] IN r.card = c /\ r.var = x /\ r.data # Misfit
         /\ \A m \in 1..Len(file) :
              file[m].card = c /\ file[m].var = x /\ file[m].data # Misfit =>
                FirstInFile(c, x) # 0 /\ FirstInFile(c, x) <= m
<1> DEFINE I == {m \in 1..Len(file) : file[m].card = c /\ file[m].var = x /\ file[m].data # Misfit}
<1>1. FirstInFile(c, x) = IF I # {} THEN Min(I) ELSE 0
  BY DEF FirstInFile, SelectInSeq
<1>2. I \in SUBSET Nat /\ Len(file) \in Nat
  BY FileType
<1>3. I # {} => Min(I) \in I /\ \A m \in I : Min(I) <= m
  BY <1>2, MinIn
<1>4. CASE I = {}
  BY <1>1, <1>2, <1>4
<1>5. CASE I # {}
  <2>1. FirstInFile(c, x) \in I /\ \A m \in I : FirstInFile(c, x) <= m
    BY <1>1, <1>3, <1>5
  <2> HIDE DEF I
  <2>2. FirstInFile(c, x) \in 1..Len(file)
    BY <2>1 DEF I
  <2> QED
    BY <1>2, <2>1, <2>2 DEF I
<1> QED
  BY <1>4, <1>5

\* What a file asks for depends on the file alone.
LEMMA FileSame ==
  ASSUME file' = file
  PROVE  \A c, x : /\ FirstInFile(c, x)' = FirstInFile(c, x)
                   /\ Named(c, x)' <=> Named(c, x)
<1>1. \A c, x : FirstInFile(c, x)' = FirstInFile(c, x)
  BY DEF FirstInFile, SelectInSeq
<1>2. \A c : SetupVarsOf(c)' = SetupVarsOf(c)
  BY DEF SetupVarsOf
<1> QED
  BY <1>1, <1>2 DEF Named, ToSet

LEMMA AskedSame ==
  ASSUME file' = file, atStart' = atStart
  PROVE  \A c, x : Before(c, x)' = Before(c, x) /\ Asked(c, x)' = Asked(c, x)
BY FileSame DEF Before, Asked

LEMMA ChangesSame ==
  ASSUME file' = file, atStart' = atStart
  PROVE  \A c : Changes(c)' = Changes(c)
BY AskedSame DEF Changes

\* Only a set-up variable is named, and never one of a card without any.
LEMMA NamedIn ==
  ASSUME NEW c \in Card, NEW x, Named(c, x)
  PROVE  x \in SetupVar /\ SetupVarsOf(c) # <<>> /\ x \in ToSet(SetupVarsOf(c)) /\ FirstInFile(c, x) # 0
<1>1. VarsOf[c] \in Seq(LsiVar)
  BY RaidDriverAssumption
<1>2. SetupVarsOf(c) \in Seq(SetupVar)
  <2>1. VarsOf[c] \in Seq(SetupVar) /\ CmdVar \in SetupVar
    BY <1>1 DEF SetupVar
  <2> QED
    BY <2>1 DEF SetupVarsOf
<1>3. PICK n \in DOMAIN SetupVarsOf(c) : x = SetupVarsOf(c)[n]
  BY DEF Named, ToSet
<1> QED
  BY <1>2, <1>3 DEF Named

\* A card whose tables stay as they are stays ready.
LEMMA ReadySame ==
  ASSUME NEW c, Ready(c), setupVars'[c] = setupVars[c], stores'[c] = stores[c],
         buffer'[c] = buffer[c], atStart'[c] = atStart[c], bad \subseteq bad'
  PROVE  Ready(c)'
BY DEF Ready, SetupVarsOf

-----------------------------------------------------------------------------
(* Download.                                                               *)

\* A function for card curr leaves the other cards alone.
LEMMA DownKeeps ==
  ASSUME TypeOK, IInv, DataInv, pc = "down", curr \in Card, curr' = curr, pc' = pc,
         atStart' = atStart, bad \subseteq bad',
         \A c \in Card : c # curr =>
           setupVars'[c] = setupVars[c] /\ stores'[c] = stores[c] /\ buffer'[c] = buffer[c],
         Reading(curr)'
  PROVE  DownInv'
<1>1. ASSUME NEW c \in Card, c < curr PROVE Ready(c)'
  <2>1. Ready(c) /\ c # curr
    BY <1>1 DEF DataInv, DownInv, Card
  <2> QED
    BY <2>1, ReadySame
<1>3. curr # 0
  BY DEF Card
<1>2. ASSUME NEW c \in Card, curr < c PROVE setupVars'[c] = <<>>
  <2>1. c # curr
    BY <1>2 DEF Card
  <2>2. setupVars[c] = <<>>
    BY <1>2, <1>3 DEF DataInv, DownInv
  <2> QED
    BY <2>1, <2>2
<1> QED
  BY <1>1, <1>2, <1>3 DEF DownInv

\* Nothing else happens in Download.
LEMMA DownQuiet ==
  ASSUME DataInv, DownInv', pc = "down", pc' = "down",
         UNCHANGED <<setting, atStart, handled, accessed, changed, i>>
  PROVE  DataInv'
BY DEF DataInv, QuietInv, CollectInv, ChangeInv, ChangesReachTheirCard, Blank

\* Where a function of Download is, and where the next one.
LEMMA DownAt ==
  ASSUME TypeOK, IInv, Advance, pc = "down", curr # 0, NEW k \in 1..11, fn = k
  PROVE  curr \in Card /\ curr' = curr /\ fn' = k + 1 /\ pc' = "down" /\ (k # 1 => hash = curr)
<1>1. curr \in Card
  BY RaidDriverAssumption DEF TypeOK, Card
<1> QED
  BY <1>1, AdvanceTo DEF IInv, HookInv

\* The places of the functions in the tables.
LEMMA Places ==
  ASSUME LoopInv
  PROVE  /\ At("FreeLsiVarHashTable") => pc = "down" /\ fn = 2
         /\ At("InitialFunc") => pc = "down" /\ fn = 3
         /\ At("Form") => pc = "down" /\ fn = 4
         /\ At("AccessMenu") => pc = "down" /\ fn = 6
         /\ At("ItemsQId") => pc = "down" /\ fn = 7
         /\ At("Items") => pc = "down" /\ fn = 8
         /\ At("ChRec") => pc = "down" /\ fn = 9
         /\ At("SetVariableTable") => pc = "down" /\ fn = 10
         /\ At("CreateVar") => pc = "down" /\ fn = 11
         /\ At("Check") => pc = "change" /\ fn = 2
         /\ At("ToBuffer") => pc = "change" /\ fn = 3
         /\ At("Access") => pc = "change" /\ fn = 5
         /\ At("Commands") => pc = "change" /\ fn = 8
<1>1. CASE pc = "down"
  <2>1. \/ fn = 1 \/ fn = 2 \/ fn = 3 \/ fn = 4 \/ fn = 5 \/ fn = 6 \/ fn = 7 \/ fn = 8
        \/ fn = 9 \/ fn = 10 \/ fn = 11 \/ fn = 12
    BY <1>1 DEF LoopInv
  <2>2. \A f : At(f) => DownFunc[fn] = f
    BY <1>1 DEF At, Table
  <2> QED
    BY <1>1, <2>1, <2>2, Tables
<1>2. CASE pc = "change"
  <2>1. \/ fn = 1 \/ fn = 2 \/ fn = 3 \/ fn = 4 \/ fn = 5 \/ fn = 6 \/ fn = 7 \/ fn = 8
        \/ fn = 9
    BY <1>2 DEF LoopInv
  <2>2. \A f : At(f) => ChangeFunc[fn] = f
    BY <1>2 DEF At, Table
  <2> QED
    BY <1>2, <2>1, <2>2, Tables
<1> QED
  BY <1>1, <1>2 DEF At

\* The functions that read the tables of a card, one after the other.
LEMMA DownFunctions ==
  ASSUME TypeOK, IInv, DataInv, pc = "down",
         \/ InitialLsiVarHashTable \/ FreeLsiVarHashTable \/ SmcLsiRaidOOB_InitialFunc
         \/ SmcLsiRaidOOB_CollectInformation_Form \/ SmcLsiCallbackAccessMenu
         \/ InitialItemsQIdTable \/ SmcLsiRaidOOB_CollectInformation_ChRec
         \/ SmcLsiSetSmcLsiVariableTable \/ SmcLsiCreateSmcRaidVarAndItems
         \/ SmcLsiHookBrowser2Protocol
  PROVE  DataInv'
<1> USE DEF driverVars, cardVars, fileVars, historyVars
<1>r. curr # 0 => curr \in Card /\ Reading(curr)
  BY RaidDriverAssumption DEF TypeOK, DataInv, DownInv, Card
<1>t. /\ stores \in [Card -> SUBSET LsiVar] /\ buffer \in [Card -> [SetupVar -> Value]]
      /\ setupVars \in [Card -> Seq(SetupVar)] /\ LsiVar \subseteq SetupVar /\ CmdVar \in SetupVar
      /\ CmdVar \notin LsiVar
  BY RaidDriverAssumption DEF TypeOK, Buffer, SetupVar
<1>1. CASE InitialLsiVarHashTable
  <2>1. Advance /\ curr # 0 /\ fn = 1 /\ UNCHANGED <<cardVars, setting, atStart, handled, bad, i>>
    BY <1>1, HookAt DEF InitialLsiVarHashTable, IInv, At
  <2>2. curr' = curr /\ fn' = 2 /\ pc' = "down" /\ curr \in Card
    BY <2>1, DownAt
  <2>3. Reading(curr)'
    BY <1>r, <2>1, <2>2 DEF Reading, SetupVarsOf
  <2> QED
    BY <2>1, <2>2, <2>3, DownKeeps, DownQuiet
<1>2. CASE FreeLsiVarHashTable
  <2>1. /\ Advance /\ curr # 0 /\ fn = 2 /\ UNCHANGED <<buffer, setupVars, changed, accessed, setting, atStart, handled, bad, i>>
        /\ stores' = [stores EXCEPT ![hash] = {}]
    BY <1>2, Places DEF FreeLsiVarHashTable, IInv, At
  <2>2. curr' = curr /\ fn' = 3 /\ pc' = "down" /\ curr \in Card /\ hash = curr
    BY <2>1, DownAt
  <2>3. Reading(curr)'
    BY <1>r, <2>1, <2>2 DEF Reading, SetupVarsOf
  <2>4. \A c \in Card : c # curr => stores'[c] = stores[c]
    BY <1>t, <2>1, <2>2
  <2> QED
    BY <2>1, <2>2, <2>3, <2>4, DownKeeps, DownQuiet
<1>3. CASE SmcLsiRaidOOB_InitialFunc
  <2>1. Advance /\ curr # 0 /\ fn = 3 /\ UNCHANGED <<cardVars, setting, atStart, handled, bad, i>>
    BY <1>3, Places DEF SmcLsiRaidOOB_InitialFunc, IInv, At
  <2>2. curr' = curr /\ fn' = 4 /\ pc' = "down" /\ curr \in Card
    BY <2>1, DownAt
  <2>3. Reading(curr)'
    BY <1>r, <2>1, <2>2 DEF Reading, SetupVarsOf
  <2> QED
    BY <2>1, <2>2, <2>3, DownKeeps, DownQuiet
<1>4. CASE SmcLsiRaidOOB_CollectInformation_Form
  <2>1. /\ Advance /\ curr # 0 /\ fn = 4
        /\ UNCHANGED <<buffer, setupVars, changed, accessed, setting, atStart, handled, i>>
    BY <1>4, Places DEF SmcLsiRaidOOB_CollectInformation_Form, IInv, At
  <2>2. curr' = curr /\ fn' = 5 /\ pc' = "down" /\ curr \in Card /\ hash = curr
    BY <2>1, DownAt
  <2>3. \/ stores' = [stores EXCEPT ![hash] = LsiVar] /\ bad' = bad
        \/ bad' = bad \cup {curr} /\ \E some \in SUBSET LsiVar : stores' = [stores EXCEPT ![hash] = some]
    BY <1>4 DEF SmcLsiRaidOOB_CollectInformation_Form
  <2>4. bad \subseteq bad' /\ (curr \in bad' \/ stores'[curr] = LsiVar)
    BY <1>t, <2>2, <2>3
  <2>5. \A c \in Card : c # curr => stores'[c] = stores[c]
    BY <1>t, <2>2, <2>3
  <2>6. Reading(curr)'
    BY <1>r, <2>1, <2>2, <2>4 DEF Reading, SetupVarsOf
  <2> QED
    BY <2>1, <2>2, <2>4, <2>5, <2>6, DownKeeps, DownQuiet
<1>5. CASE SmcLsiCallbackAccessMenu
  <2>1. /\ Advance /\ curr # 0 /\ fn = 6 /\ At("AccessMenu")
        /\ UNCHANGED <<stores, setupVars, changed, accessed, setting, atStart, handled, i>>
    BY <1>5, Places DEF SmcLsiCallbackAccessMenu, IInv, At
  <2>2. curr' = curr /\ fn' = 7 /\ pc' = "down" /\ curr \in Card /\ hash = curr /\ hooked = 1
    BY <2>1, DownAt, TalkingTo
  <2> DEFINE new == [x \in SetupVar |-> IF x \in LsiVar /\ CallbackWrites(x)
                                        THEN setting[curr][x] ELSE buffer[hash][x]]
  <2>3. \/ buffer' = [buffer EXCEPT ![hash] = new] /\ bad' = bad
        \/ bad' = bad \cup {curr} /\ buffer' = buffer
    BY <1>5, Zenon DEF SmcLsiCallbackAccessMenu
  <2>4. curr \notin bad => \A x \in LsiVar : new[x] = atStart[curr][x]
    <3>1. curr \notin bad => stores[curr] = LsiVar
      BY <1>r, <2>1 DEF Reading
    <3>2. setting = atStart
      BY DEF DataInv, QuietInv
    <3> QED
      BY <1>t, <2>2, <3>1, <3>2 DEF CallbackWrites
  <2> HIDE DEF new
  <2>5. bad \subseteq bad' /\ (curr \notin bad' => \A x \in LsiVar : buffer'[curr][x] = atStart[curr][x])
    BY <1>t, <2>2, <2>3, <2>4
  <2>6. \A c \in Card : c # curr => buffer'[c] = buffer[c]
    BY <1>t, <2>2, <2>3
  <2>7. Reading(curr)'
    BY <1>r, <2>1, <2>2, <2>5 DEF Reading, SetupVarsOf
  <2> QED
    BY <2>1, <2>2, <2>5, <2>6, <2>7, DownKeeps, DownQuiet
<1>6. CASE InitialItemsQIdTable
  <2>1. Advance /\ curr # 0 /\ fn \in {7, 8} /\ UNCHANGED <<cardVars, setting, atStart, handled, bad, i>>
    BY <1>6, Places DEF InitialItemsQIdTable, IInv, At
  <2>2. curr' = curr /\ fn' = fn + 1 /\ pc' = "down" /\ curr \in Card
    BY <2>1, DownAt
  <2>3. Reading(curr)'
    BY <1>r, <2>1, <2>2 DEF Reading, SetupVarsOf
  <2> QED
    BY <2>1, <2>2, <2>3, DownKeeps, DownQuiet
<1>7. CASE SmcLsiRaidOOB_CollectInformation_ChRec
  <2>1. /\ Advance /\ curr # 0 /\ fn = 9
        /\ UNCHANGED <<stores, buffer, setupVars, changed, setting, atStart, handled, bad, i>>
        /\ accessed' = [accessed EXCEPT ![curr] = {}]
    BY <1>7, Places DEF SmcLsiRaidOOB_CollectInformation_ChRec, IInv, At
  <2>2. curr' = curr /\ fn' = 10 /\ pc' = "down" /\ curr \in Card
    BY <2>1, DownAt
  <2>3. accessed' = accessed
    BY <2>1, <2>2 DEF DataInv, QuietInv, Blank
  <2>4. Reading(curr)'
    BY <1>r, <2>1, <2>2 DEF Reading, SetupVarsOf
  <2> QED
    BY <2>1, <2>2, <2>3, <2>4, DownKeeps, DownQuiet
<1>8. CASE SmcLsiSetSmcLsiVariableTable
  <2>1. /\ Advance /\ curr # 0 /\ fn = 10
        /\ UNCHANGED <<stores, buffer, changed, accessed, setting, atStart, handled, bad, i>>
        /\ setupVars' = [setupVars EXCEPT ![curr] = VarsOf[curr]]
    BY <1>8, Places DEF SmcLsiSetSmcLsiVariableTable, IInv, At
  <2>2. curr' = curr /\ fn' = 11 /\ pc' = "down" /\ curr \in Card
    BY <2>1, DownAt
  <2>3. setupVars'[curr] = VarsOf[curr] /\ \A c \in Card : c # curr => setupVars'[c] = setupVars[c]
    BY <1>t, <2>1, <2>2
  <2>4. Reading(curr)'
    BY <1>r, <2>1, <2>2, <2>3 DEF Reading, SetupVarsOf
  <2> QED
    BY <2>1, <2>2, <2>3, <2>4, DownKeeps, DownQuiet
<1>9. CASE SmcLsiCreateSmcRaidVarAndItems
  <2>1. /\ Advance /\ curr # 0 /\ fn = 11
        /\ UNCHANGED <<stores, changed, accessed, setting, atStart, handled, bad, i>>
        /\ IF setupVars[curr] = <<>> THEN UNCHANGED <<setupVars, buffer>>
           ELSE /\ setupVars' = [setupVars EXCEPT ![curr] = Append(setupVars[curr], CmdVar)]
                /\ buffer' = [buffer EXCEPT ![hash][CmdVar] = NoCmd]
    BY <1>9, Places DEF SmcLsiCreateSmcRaidVarAndItems, IInv, At
  <2>2. curr' = curr /\ fn' = 12 /\ pc' = "down" /\ curr \in Card /\ hash = curr
    BY <2>1, DownAt
  <2>3. setupVars[curr] = VarsOf[curr]
    BY <1>r, <2>1 DEF Reading
  <2>4. setupVars'[curr] = SetupVarsOf(curr)
    BY <1>t, <2>1, <2>2, <2>3 DEF SetupVarsOf
  <2>5. setupVars'[curr] # <<>> => buffer'[curr][CmdVar] = NoCmd
    BY <1>t, <2>1, <2>2
  <2>6. \A c \in Card : c # curr => setupVars'[c] = setupVars[c] /\ buffer'[c] = buffer[c]
    BY <1>t, <2>1, <2>2
  <2>7. \A x \in LsiVar : buffer'[curr][x] = buffer[curr][x]
    BY <1>t, <2>1, <2>2
  <2>8. Reading(curr)'
    BY <1>r, <2>1, <2>2, <2>4, <2>5, <2>7 DEF Reading, SetupVarsOf
  <2> QED
    BY <2>1, <2>2, <2>6, <2>8, DownKeeps, DownQuiet
<1>10. CASE SmcLsiHookBrowser2Protocol
  <2>1. /\ Advance /\ curr # 0 /\ fn \in {5, 12} /\ UNCHANGED <<cardVars, setting, atStart, handled, bad, i>>
    BY <1>10, HookAt DEF SmcLsiHookBrowser2Protocol, IInv, At
  <2>2. CASE fn = 5
    <3>1. curr' = curr /\ fn' = 6 /\ pc' = "down" /\ curr \in Card
      BY <2>1, <2>2, DownAt
    <3>2. Reading(curr)'
      BY <1>r, <2>1, <2>2, <3>1 DEF Reading, SetupVarsOf
    <3> QED
      BY <2>1, <3>1, <3>2, DownKeeps, DownQuiet
  <2>3. CASE fn = 12
    <3>1. fn' = 1 /\ pc' = "down" /\ curr' = NextCard
      BY <2>1, <2>3, AdvanceTo
    <3>2. DownInv'
      <4>1. ASSUME NEW c \in Card, c <= curr PROVE Ready(c)'
        <5>1. Ready(c)
          <6>1. CASE c = curr
            BY <1>r, <2>1, <2>3, <6>1 DEF Reading, Ready
          <6>2. CASE c < curr
            BY <6>2 DEF DataInv, DownInv
          <6> QED
            BY <1>r, <2>1, <4>1, <6>1, <6>2 DEF Card
        <5> QED
          BY <2>1, <5>1, ReadySame
      <4>2. ASSUME NEW c \in Card, curr < c PROVE setupVars'[c] = <<>>
        BY <2>1, <4>2 DEF DataInv, DownInv
      <4>3. curr \in Card /\ Cards \in Nat
        BY <1>r, <2>1, RaidDriverAssumption
      <4>4. CASE curr < Cards
        <5>1. curr' = curr + 1
          BY <3>1, <4>4 DEF NextCard
        <5>2. ASSUME NEW c \in Card PROVE /\ c < curr' => c <= curr
                                          /\ c >= curr' => curr < c
          BY <4>3, <5>1 DEF Card
        <5>3. \A c \in Card : c = curr' => Reading(c)'
          <6>1. ASSUME NEW c \in Card, c = curr' PROVE setupVars'[c] = <<>>
            BY <4>2, <4>3, <5>1, <6>1 DEF Card
          <6> QED
            BY <3>1, <6>1 DEF Reading
        <5>4. ASSUME NEW c \in Card, curr' < c PROVE setupVars'[c] = <<>>
          BY <4>2, <4>3, <5>1, <5>4 DEF Card
        <5>5. curr' # 0
          BY <4>3, <5>1 DEF Card
        <5> QED
          BY <4>1, <5>2, <5>3, <5>4, <5>5 DEF DownInv
      <4>5. CASE ~(curr < Cards)
        <5>1. curr' = 0 /\ \A c \in Card : c <= curr /\ c # 0
          BY <3>1, <4>3, <4>5 DEF NextCard, Card
        <5> QED
          BY <4>1, <5>1 DEF DownInv
      <4> QED
        BY <4>4, <4>5
    <3> QED
      BY <2>1, <3>1, <3>2, DownQuiet
  <2> QED
    BY <2>1, <2>2, <2>3
<1> QED
  BY <1>1, <1>2, <1>3, <1>4, <1>5, <1>6, <1>7, <1>8, <1>9, <1>10

-----------------------------------------------------------------------------
(* UpdateBiosCfgToSystem.                                                  *)

\* A record that is collected is the first of its store, or comes behind it.
LEMMA CollectKeeps ==
  ASSUME TypeOK, IInv, DataInv, SmcLsiRaidLib_CollectData, Process = "download",
         NEW c \in Card, NEW x \in SetupVar
  PROVE  CollectedOf(c, x)'
<1> DEFINE r == file[i]
           e == [var |-> r.var, data |-> r.data, updated |-> 0]
           F == FirstInFile(c, x)
           s == changed[c]
<1>1. /\ r \in Record /\ i \in 1..Len(file)
      /\ Collectable(r) => /\ changed' = [changed EXCEPT ![r.card] = Append(changed[r.card], e)]
                           /\ e \in ChangedRecord
      /\ ~Collectable(r) => changed' = changed
  BY CollectStep
<1>2. i' = i + 1 /\ file' = file /\ i \in Nat /\ pc = "update" /\ Len(file) \in Nat
  BY FileType DEF SmcLsiRaidLib_CollectData, TypeOK
<1>3. CollectedOf(c, x) /\ Ready(r.card)
  <2>1. r.card \in Card
    BY <1>1 DEF Record
  <2> QED
    BY <1>2, <2>1 DEF DataInv, CollectInv
<1>4. /\ F \in 0..Len(file)
      /\ F # 0 => file[F].card = c /\ file[F].var = x /\ file[F].data # Misfit
      /\ r.card = c /\ r.var = x /\ r.data # Misfit => F # 0 /\ F <= i
  BY <1>1, FileFirst
<1>5. changed \in [Card -> Seq(ChangedRecord)] /\ s \in Seq(ChangedRecord) /\ Len(s) \in Nat
  <2>1. changed \in [Card -> Seq(ChangedRecord)]
    BY DEF TypeOK, ChangedRecord
  <2> QED
    BY <2>1
<1>6. Collectable(r) <=> r.var \in ToSet(SetupVarsOf(r.card)) /\ r.data # Misfit
  BY <1>3 DEF Collectable, Ready
<1>7. Named(c, x)' <=> Named(c, x)
  BY <1>2, FileSame
<1>8. FirstInFile(c, x)' = F
  BY <1>2, FileSame
<1>9. Named(c, x) <=> x \in ToSet(SetupVarsOf(c)) /\ F # 0
  BY DEF Named
<1> HIDE DEF F, e
<1>10. CASE Collectable(r) /\ r.card = c
  <2>1. changed'[c] = Append(s, e) /\ e \in ChangedRecord /\ e.var = r.var /\ e.data = r.data
    <3>1. e.var = r.var /\ e.data = r.data
      BY DEF e
    <3> QED
      BY <1>1, <1>5, <1>10, <3>1
  <2> HIDE DEF r, s
  <2> DEFINE t == Append(s, e)
  <2>2. Len(t) = Len(s) + 1 /\ t[Len(s) + 1] = e /\ \A n \in 1..Len(s) : t[n] = s[n]
    BY <1>5, <2>1
  <2>3. CASE r.var # x
    <3>1. F # i
      BY <1>4, <2>3, <1>1 DEF r
    <3>2. F < i' <=> F < i
      BY <1>2, <1>4, <3>1
    <3>3. ASSUME NEW n \in 1..Len(t), t[n].var = x PROVE n \in 1..Len(s)
      BY <1>5, <2>1, <2>2, <2>3, <3>3
    <3>4. CASE Named(c, x) /\ F < i
      <4>1. PICK n \in 1..Len(s) : FirstAt(s, x, n) /\ s[n].data = file[F].data
        BY <1>3, <3>4 DEF CollectedOf, s, F
      <4>2. FirstAt(t, x, n) /\ t[n].data = file[F].data /\ n \in 1..Len(t)
        BY <1>5, <2>2, <3>3, <4>1 DEF FirstAt
      <4> QED
        BY <1>2, <1>7, <1>8, <2>1, <3>2, <3>4, <4>2 DEF CollectedOf, FirstAt
    <3>5. CASE ~(Named(c, x) /\ F < i)
      <4>1. \A n \in 1..Len(s) : s[n].var # x
        BY <1>3, <3>5 DEF CollectedOf, s, F
      <4>2. \A n \in 1..Len(t) : t[n].var # x
        BY <2>2, <3>3, <4>1
      <4> QED
        BY <1>7, <1>8, <2>1, <3>2, <3>5, <4>2 DEF CollectedOf
    <3> QED
      BY <3>4, <3>5
  <2>4. CASE r.var = x
    <3>1. F # 0 /\ F <= i /\ Named(c, x) /\ F < i'
      BY <1>2, <1>4, <1>6, <1>9, <1>10, <2>4
    <3>2. CASE F < i
      <4>1. PICK n \in 1..Len(s) : FirstAt(s, x, n) /\ s[n].data = file[F].data
        BY <1>3, <3>1, <3>2 DEF CollectedOf, s, F
      <4>2. FirstAt(t, x, n) /\ t[n].data = file[F].data /\ n \in 1..Len(t)
        BY <1>5, <2>2, <4>1 DEF FirstAt
      <4> QED
        BY <1>2, <1>7, <1>8, <2>1, <3>1, <4>2 DEF CollectedOf, FirstAt
    <3>3. CASE F = i
      <4>1. \A n \in 1..Len(s) : s[n].var # x
        BY <1>2, <1>3, <3>3 DEF CollectedOf, s, F
      <4>2. FirstAt(t, x, Len(s) + 1) /\ t[Len(s) + 1].data = file[F].data /\ Len(s) + 1 \in 1..Len(t)
        <5>1. t[Len(s) + 1].var = x /\ t[Len(s) + 1].data = file[F].data
          BY <2>1, <2>2, <2>4, <3>3 DEF r
        <5> HIDE DEF t
        <5>2. ASSUME NEW m \in 1..Len(t), t[m].var = x PROVE Len(s) + 1 <= m
          BY <1>5, <2>2, <4>1, <5>2
        <5> QED
          BY <1>5, <2>2, <5>1, <5>2 DEF FirstAt
      <4> QED
        BY <1>2, <1>7, <1>8, <2>1, <3>1, <4>2 DEF CollectedOf, FirstAt
    <3> QED
      BY <1>2, <1>4, <3>1, <3>2, <3>3
  <2> QED
    BY <2>3, <2>4
<1>11. CASE ~(Collectable(r) /\ r.card = c)
  <2>1. changed'[c] = s
    BY <1>1, <1>5, <1>11 DEF Record
  <2>2. Named(c, x) => F # i
    BY <1>4, <1>6, <1>9, <1>11
  <2>3. Named(c, x) /\ F < i' <=> Named(c, x) /\ F < i
    BY <1>2, <1>4, <2>2
  <2>4. CASE Named(c, x) /\ F < i
    BY <1>2, <1>3, <1>7, <1>8, <2>1, <2>3, <2>4 DEF CollectedOf, FirstAt, F
  <2>5. CASE ~(Named(c, x) /\ F < i)
    BY <1>3, <1>7, <1>8, <2>1, <2>3, <2>5 DEF CollectedOf, F
  <2> QED
    BY <2>4, <2>5
<1> QED
  BY <1>10, <1>11

\* A record is collected, or passed over.
LEMMA CollectInvariant ==
  ASSUME TypeOK, IInv, DataInv, SmcLsiRaidLib_CollectData
  PROVE  DataInv'
<1>1. /\ pc = "update" /\ pc' = "update" /\ UNCHANGED <<Process, file, setting, atStart, handled, accessed>>
      /\ UNCHANGED <<setupVars, stores, buffer, bad>>
  BY DEF SmcLsiRaidLib_CollectData, historyVars
<1>2. QuietInv' /\ DownInv' /\ ChangeInv' /\ ChangesReachTheirCard'
  BY <1>1 DEF DataInv, QuietInv, DownInv, ChangeInv, ChangesReachTheirCard, Blank
<1>3. CASE Process = "download"
  <2>1. \A c \in Card : Ready(c)'
    BY <1>1, <1>3, ReadySame DEF DataInv, CollectInv
  <2>2. \A c \in Card : Unmarked(c)'
    <3> DEFINE r == file[i]
               e == [var |-> r.var, data |-> r.data, updated |-> 0]
    <3>1. /\ r \in Record
          /\ Collectable(r) => /\ changed' = [changed EXCEPT ![r.card] = Append(changed[r.card], e)]
                               /\ e \in ChangedRecord
          /\ ~Collectable(r) => changed' = changed
      BY CollectStep
    <3>2. e.updated = 0 /\ r.card \in Card
      BY <3>1 DEF Record
    <3>3. changed \in [Card -> Seq(ChangedRecord)]
      BY DEF TypeOK, ChangedRecord
    <3> HIDE DEF e, r
    <3>4. ASSUME NEW c \in Card PROVE Unmarked(c)'
      <4>1. Unmarked(c)
        BY <1>1, <1>3 DEF DataInv, CollectInv
      <4>2. CASE changed'[c] = changed[c]
        BY <4>1, <4>2 DEF Unmarked
      <4>3. CASE changed'[c] = Append(changed[c], e) /\ e \in ChangedRecord
        <5>1. changed[c] \in Seq(ChangedRecord)
          BY <3>3
        <5>2. \A n \in 1..Len(Append(changed[c], e)) : Append(changed[c], e)[n].updated = 0
          BY <3>2, <4>1, <4>3, <5>1 DEF Unmarked
        <5> QED
          BY <4>3, <5>2 DEF Unmarked
      <4> QED
        BY <3>1, <3>2, <3>3, <4>2, <4>3
    <3> QED
      BY <3>4
  <2>3. SmcLsiHaveNvData' = 0 => changed' = Blank(<<>>)
    BY <1>1, <1>3, CollectStep DEF DataInv, CollectInv
  <2>4. \A c \in Card : \A x \in SetupVar : CollectedOf(c, x)'
    BY <1>3, CollectKeeps
  <2>5. CollectInv'
    BY <1>1, <2>1, <2>2, <2>3, <2>4 DEF CollectInv, Blank
  <2> QED
    BY <1>2, <2>5 DEF DataInv
<1>4. CASE Process # "download"
  BY <1>1, <1>2, <1>4 DEF DataInv, CollectInv
<1> QED
  BY <1>3, <1>4

-----------------------------------------------------------------------------
(* HandleData.                                                             *)

\* Behind the last record, what was collected for a card is what the file asks.
LEMMA FirstAsked ==
  ASSUME TypeOK, DataInv, pc = "change", Process = "download", curr \in Card,
         NEW x \in SetupVar
  PROVE  /\ Named(curr, x) =>
              /\ First(x) # 0 /\ FirstAt(changed[curr], x, First(x))
              /\ changed[curr][First(x)].data = Asked(curr, x)
         /\ ~Named(curr, x) => First(x) = 0 /\ \A n \in 1..Len(changed[curr]) : changed[curr][n].var # x
<1>1. CollectedOf(curr, x) /\ i > Len(file)
  BY DEF DataInv, CollectInv
<1>2. changed[curr] \in Seq(ChangedRecord)
  BY DEF TypeOK, ChangedRecord
<1>3. FirstInFile(curr, x) < i
  <2>1. FirstInFile(curr, x) \in 0..Len(file) /\ Len(file) \in Nat /\ i \in Nat
    BY FileFirst, FileType DEF TypeOK
  <2> QED
    BY <1>1, <2>1
<1>4. CASE Named(curr, x)
  <2>1. PICK n \in 1..Len(changed[curr]) :
          FirstAt(changed[curr], x, n) /\ changed[curr][n].data = file[FirstInFile(curr, x)].data
    BY <1>1, <1>3, <1>4 DEF CollectedOf
  <2>2. First(x) = n /\ n # 0
    BY <1>2, <2>1, FirstIs
  <2> QED
    BY <1>4, <2>1, <2>2 DEF Asked
<1>5. CASE ~Named(curr, x)
  <2>1. \A n \in 1..Len(changed[curr]) : changed[curr][n].var # x
    BY <1>1, <1>5 DEF CollectedOf
  <2> QED
    BY <1>2, <1>5, <2>1, FirstIs
<1> QED
  BY <1>4, <1>5

\* Check finds the stores that the file changes.
LEMMA DifferingIs ==
  ASSUME TypeOK, DataInv, pc = "change", Process = "download", curr \in Card, hash = curr,
         Ready(curr), curr \notin bad
  PROVE  Differing = Changes(curr)
<1>1. ASSUME NEW x \in SetupVar, Named(curr, x) PROVE buffer[curr][x] = Before(curr, x)
  <2>1. setupVars[curr] # <<>>
    BY <1>1, NamedIn DEF Ready
  <2> QED
    BY <1>1, <2>1 DEF Ready, Before, SetupVar
<1>2. ASSUME NEW x \in Differing PROVE x \in Changes(curr)
  <2>1. x \in ToSet(setupVars[curr]) /\ First(x) # 0 /\ changed[curr][First(x)].data # buffer[hash][x]
    BY <1>2 DEF Differing
  <2>2. x \in SetupVar
    BY <2>1 DEF TypeOK, ToSet
  <2>3. Named(curr, x)
    BY <2>1, <2>2, FirstAsked
  <2> QED
    BY <1>1, <2>1, <2>2, <2>3, FirstAsked DEF Changes
<1>3. ASSUME NEW x \in Changes(curr) PROVE x \in Differing
  <2>1. x \in SetupVar /\ Asked(curr, x) # Before(curr, x)
    BY <1>3 DEF Changes
  <2>2. Named(curr, x)
    BY <2>1 DEF Asked
  <2>3. x \in ToSet(setupVars[curr])
    BY <2>2, NamedIn DEF Ready
  <2> QED
    BY <1>1, <2>1, <2>2, <2>3, FirstAsked DEF Differing
<1> QED
  BY <1>2, <1>3

\* A card that is left alone stays as it is.
LEMMA CardSame ==
  ASSUME NEW c, file' = file, atStart' = atStart, bad \subseteq bad',
         setupVars'[c] = setupVars[c], stores'[c] = stores[c], buffer'[c] = buffer[c],
         changed'[c] = changed[c], accessed'[c] = accessed[c], setting'[c] = setting[c],
         handled'[c] = handled[c]
  PROVE  /\ Untouched(c) => Untouched(c)'
         /\ Changed(c) => Changed(c)'
<1>1. Untouched(c) => Untouched(c)'
  BY ReadySame DEF Untouched, Unmarked
<1>2. SettingDone(c) => SettingDone(c)'
  BY FileSame DEF SettingDone
<1> QED
  BY <1>1, <1>2, AskedSame DEF Changed

\* A function for card curr leaves the other cards alone.
LEMMA ChangeKeeps ==
  ASSUME TypeOK, DataInv, pc = "change", Process = "download", NEW k \in Card, k = curr, k = curr', pc' = pc,
         UNCHANGED <<file, i, atStart, Process, setupVars, stores>>, bad \subseteq bad',
         \A c \in Card : c # curr =>
           /\ buffer'[c] = buffer[c] /\ changed'[c] = changed[c] /\ accessed'[c] = accessed[c]
           /\ setting'[c] = setting[c] /\ handled'[c] = handled[c],
         Len(changed'[curr]) = Len(changed[curr]),
         \A n \in 1..Len(changed[curr]) : /\ changed'[curr][n].var = changed[curr][n].var
                                          /\ changed'[curr][n].data = changed[curr][n].data,
         Changing(k)'
  PROVE  DataInv'
<1>1. QuietInv' /\ DownInv' /\ ChangesReachTheirCard'
  BY DEF QuietInv, DownInv, ChangesReachTheirCard
<1>2. CollectInv'
  <2>1. ASSUME NEW c \in Card, NEW x \in SetupVar PROVE CollectedOf(c, x)'
    <3>1. CollectedOf(c, x)
      BY DEF DataInv, CollectInv
    <3>2. /\ Len(changed'[c]) = Len(changed[c])
          /\ \A n \in 1..Len(changed[c]) : /\ changed'[c][n].var = changed[c][n].var
                                           /\ changed'[c][n].data = changed[c][n].data
      BY DEF Card
    <3>3. \A n : FirstAt(changed[c], x, n) => FirstAt(changed[c], x, n)'
      BY <3>2 DEF FirstAt
    <3>4. FirstInFile(c, x)' = FirstInFile(c, x) /\ (Named(c, x)' <=> Named(c, x))
      BY FileSame
    <3> QED
      BY <3>1, <3>2, <3>3, <3>4 DEF CollectedOf
  <2> QED
    BY <2>1 DEF DataInv, CollectInv
<1>3. ChangeInv'
  <2>1. ASSUME NEW c \in Card, c < curr PROVE Changed(c)'
    <3>1. Changed(c) /\ c # curr
      BY <2>1 DEF DataInv, ChangeInv, Card
    <3> QED
      BY <3>1, CardSame
  <2>2. ASSUME NEW c \in Card, curr < c PROVE Untouched(c)'
    <3>1. curr # 0 /\ c # curr
      BY <2>2 DEF Card
    <3>2. Untouched(c)
      BY <2>2, <3>1 DEF DataInv, ChangeInv
    <3> QED
      BY <3>1, <3>2, CardSame
  <2>3. curr # 0
    BY DEF Card
  <2> QED
    BY <2>1, <2>2, <2>3 DEF ChangeInv
<1> QED
  BY <1>1, <1>2, <1>3 DEF DataInv

LEMMA ChangeAt ==
  ASSUME TypeOK, IInv, Advance, pc = "change", curr # 0, NEW k \in 1..8, fn = k
  PROVE  curr \in Card /\ curr' = curr /\ fn' = k + 1 /\ pc' = "change" /\ (k # 1 => hash = curr)
<1>1. curr \in Card
  BY RaidDriverAssumption DEF TypeOK, Card
<1> QED
  BY <1>1, AdvanceTo DEF IInv, HookInv

\* The card at hand, when a function leaves it alone.
LEMMA ChangingSame ==
  ASSUME NEW c, Changing(c), fn \in Nat, fn' = fn + 1, fn \notin {2, 3, 5, 8}, fn <= 8,
         UNCHANGED <<file, atStart, bad, setupVars, stores, buffer, changed, accessed, setting, handled>>
  PROVE  Changing(c)'
<1>1. (Untouched(c) => Untouched(c)') /\ (SettingDone(c) => SettingDone(c)')
  BY CardSame, FileSame DEF SettingDone
<1>2. Changes(c)' = Changes(c) /\ (Named(c, CmdVar)' <=> Named(c, CmdVar)) /\ \A x : Asked(c, x)' = Asked(c, x)
  BY ChangesSame, FileSame, AskedSame
<1>4. CASE fn <= 1
  BY <1>1, <1>4 DEF Changing
<1>5. CASE fn \in {4, 6, 7}
  <2>1. fn' \in {5, 7, 8} /\ (fn' = 5 <=> fn = 4)
    BY <1>5
  <2>2. CASE fn = 4
    BY <1>2, <2>1, <2>2 DEF Changing
  <2>3. CASE fn \in {6, 7}
    BY <1>1, <1>2, <2>1, <2>3 DEF Changing
  <2> QED
    BY <1>5, <2>2, <2>3
<1> QED
  BY <1>4, <1>5

\* The functions that change a card, one after the other.
LEMMA ChangeFunctions ==
  ASSUME TypeOK, IInv, DataInv, pc = "change",
         \/ InitialLsiVarHashTable \/ CheckChangeableItemsInChangedVar
         \/ ChangedVarToOOBVarBuffer \/ AccessRAIDRecordtoChangeSetting
         \/ HandleRaidCfgCmdString \/ SmcLsiHookBrowser2Protocol
  PROVE  DataInv'
<1> USE DEF driverVars, cardVars, fileVars, historyVars
<1>p. Process = "download" /\ fn \in 1..9 /\ curr # 0
  BY DEF IInv, ProcessInv, LoopInv, At, InitialLsiVarHashTable, CheckChangeableItemsInChangedVar,
         ChangedVarToOOBVarBuffer, AccessRAIDRecordtoChangeSetting, HandleRaidCfgCmdString,
         SmcLsiHookBrowser2Protocol
<1>k. PICK k \in Card : k = curr
  BY <1>p, RaidDriverAssumption DEF TypeOK, Card
<1>r. Changing(k)
  BY <1>k DEF DataInv, ChangeInv
<1>t. /\ buffer \in [Card -> [SetupVar -> Value]] /\ setting \in [Card -> [LsiVar -> Value]]
      /\ changed \in [Card -> Seq(ChangedRecord)] /\ accessed \in [Card -> SUBSET LsiVar]
      /\ handled \in [Card -> Value] /\ LsiVar \subseteq SetupVar /\ CmdVar \in SetupVar
      /\ CmdVar \notin LsiVar /\ Applied \subseteq LsiVar
  BY RaidDriverAssumption DEF TypeOK, Buffer, Setting, SetupVar, ChangedRecord
<1>1. CASE InitialLsiVarHashTable
  <2>1. Advance /\ fn = 1 /\ UNCHANGED <<cardVars, setting, atStart, handled, bad, i, file, Process>>
    BY <1>1, <1>p, HookAt DEF InitialLsiVarHashTable, IInv, At
  <2>2. k = curr' /\ fn' = 2 /\ pc' = "change"
    BY <1>k, <1>p, <2>1, ChangeAt
  <2>3. Changing(k)'
    BY <1>r, <2>1, <2>2, ChangingSame
  <2> QED
    BY <1>k, <1>p, <2>1, <2>2, <2>3, ChangeKeeps
<1>2. CASE CheckChangeableItemsInChangedVar
  <2>1. /\ Advance /\ fn = 2
        /\ UNCHANGED <<stores, buffer, setupVars, setting, atStart, handled, bad, i, file, Process>>
        /\ accessed' = [accessed EXCEPT ![curr] = accessed[curr] \cup (Differing \cap Applied)]
    BY <1>2, Places DEF CheckChangeableItemsInChangedVar, IInv
  <2>2. k = curr' /\ fn' = 3 /\ pc' = "change" /\ hash = curr
    BY <1>k, <1>p, <2>1, ChangeAt
  <2>3. Untouched(k)
    BY <1>r, <2>1 DEF Changing
  <2>4. k \notin bad => Differing = Changes(k)
    BY <1>k, <1>p, <2>2, <2>3, DifferingIs DEF Untouched
  <2>5. /\ \A c \in Card : c # k => changed'[c] = changed[c] /\ accessed'[c] = accessed[c]
        /\ Len(changed'[k]) = Len(changed[k])
        /\ \A n \in 1..Len(changed[k]) :
             /\ changed'[k][n].var = changed[k][n].var
             /\ changed'[k][n].data = changed[k][n].data
             /\ changed'[k][n].updated = IF Marked(n) THEN 1 ELSE 0
    BY <1>2, <1>k, <1>t, <2>1, CheckMarks
  <2>6. accessed'[k] = Differing \cap Applied
    BY <1>k, <1>t, <2>1, <2>3 DEF Untouched
  <2>7. \A n, x : FirstAt(changed'[k], x, n) <=> FirstAt(changed[k], x, n)
    BY <2>5 DEF FirstAt
  <2>8. ASSUME NEW n \in 1..Len(changed[k]), k \notin bad
        PROVE  changed'[k][n].updated = 1 <=>
                 changed[k][n].var \in Changes(k) /\ FirstAt(changed[k], changed[k][n].var, n)
    <3>1. changed[k][n].updated = 0
      BY <2>3 DEF Untouched, Unmarked
    <3>2. changed[curr] \in Seq(ChangedRecord)
      BY <1>k, <1>t
    <3>3. n = First(changed[k][n].var) <=> FirstAt(changed[k], changed[k][n].var, n)
      BY <1>k, <3>2, FirstIs
    <3>4. Marked(n) <=> changed[k][n].var \in Changes(k) /\ n = First(changed[k][n].var)
      BY <1>k, <2>4, <2>8, <3>1 DEF Marked
    <3> QED
      BY <2>5, <3>3, <3>4
  <2>9. Ready(k)'
    BY <2>1, <2>3, ReadySame DEF Untouched
  <2>10. Changes(k)' = Changes(k)
    BY <2>1, ChangesSame
  <2>12. k \notin bad' => \A n \in 1..Len(changed'[k]) :
           changed'[k][n].updated = 1 <=>
             changed'[k][n].var \in Changes(k)' /\ FirstAt(changed'[k], changed'[k][n].var, n)
    BY <2>1, <2>5, <2>7, <2>8, <2>10
  <2>13. k \notin bad' => stores'[k] = LsiVar /\ accessed'[k] = Changes(k)' \cap Applied
    BY <2>1, <2>3, <2>4, <2>6, <2>10 DEF Untouched, Ready
  <2>14. setting'[k] = atStart'[k] /\ handled'[k] = NoCmd
    BY <2>1, <2>3 DEF Untouched
  <2>15. Changing(k)'
    BY <2>2, <2>9, <2>12, <2>13, <2>14 DEF Changing
  <2> QED
    BY <1>k, <1>p, <2>1, <2>2, <2>5, <2>15, ChangeKeeps
<1>3. CASE ChangedVarToOOBVarBuffer
  <2> DEFINE m(x) == \E n \in 1..Len(changed[curr]) :
                       changed[curr][n].var = x /\ changed[curr][n].updated = 1
             new == [x \in SetupVar |-> IF m(x) THEN changed[curr][First(x)].data ELSE buffer[curr][x]]
  <2>1. /\ Advance /\ fn = 3
        /\ UNCHANGED <<stores, setupVars, changed, accessed, setting, atStart, handled, bad, i, file, Process>>
        /\ hash = curr => buffer' = [buffer EXCEPT ![curr] = new]
    <3>1. hash = curr => buffer' = [buffer EXCEPT ![curr] = new]
      BY <1>3, Zenon DEF ChangedVarToOOBVarBuffer
    <3> QED
      BY <1>3, <3>1, Places DEF ChangedVarToOOBVarBuffer, IInv
  <2>2. k = curr' /\ fn' = 4 /\ pc' = "change" /\ hash = curr
    BY <1>k, <1>p, <2>1, ChangeAt
  <2>3. /\ Ready(k) /\ setting[k] = atStart[k] /\ handled[k] = NoCmd
        /\ k \notin bad => stores[k] = LsiVar /\ accessed[k] = Changes(k) \cap Applied
        /\ k \notin bad => \A n \in 1..Len(changed[k]) :
             changed[k][n].updated = 1 <=>
               changed[k][n].var \in Changes(k) /\ FirstAt(changed[k], changed[k][n].var, n)
    BY <1>r, <2>1 DEF Changing
  <2>4. ASSUME NEW x \in SetupVar, k \notin bad PROVE m(x) <=> x \in Changes(k)
    <3>1. ASSUME x \in Changes(k) PROVE m(x)
      <4>1. Named(k, x)
        BY <3>1 DEF Changes, Asked
      <4>2. FirstAt(changed[k], x, First(x))
        BY <1>k, <1>p, <4>1, FirstAsked
      <4> QED
        BY <1>k, <2>3, <2>4, <3>1, <4>2 DEF FirstAt
    <3> QED
      BY <1>k, <2>3, <2>4, <3>1
  <2> HIDE DEF m
  <2>5. ASSUME NEW x \in SetupVar, k \notin bad, x \in LsiVar \/ Named(k, x)
        PROVE  new[x] = Asked(k, x)
    <3>1. CASE x \in Changes(k)
      <4>1. Named(k, x)
        BY <3>1 DEF Changes, Asked
      <4>2. changed[curr][First(x)].data = Asked(k, x)
        BY <1>k, <1>p, <4>1, FirstAsked
      <4> QED
        BY <2>4, <2>5, <3>1, <4>2
    <3>2. CASE x \notin Changes(k)
      <4>1. Asked(k, x) = Before(k, x)
        BY <3>2 DEF Changes
      <4>2. Named(k, x) => setupVars[k] # <<>>
        BY <2>3, NamedIn DEF Ready
      <4>3. buffer[k][x] = Before(k, x)
        BY <1>t, <2>3, <2>5, <4>2 DEF Ready, Before, SetupVar
      <4> QED
        BY <1>k, <2>4, <2>5, <3>2, <4>1, <4>3
    <3> QED
      BY <3>1, <3>2
  <2>6. new = [x \in SetupVar |-> new[x]]
    OBVIOUS
  <2> HIDE DEF new
  <2>7. buffer'[k] = new /\ \A c \in Card : c # k => buffer'[c] = buffer[c]
    BY <1>k, <1>t, <2>1, <2>2
  <2>8. /\ \A x : Asked(k, x)' = Asked(k, x)
        /\ Changes(k)' = Changes(k) /\ (Named(k, CmdVar)' <=> Named(k, CmdVar))
    BY <2>1, AskedSame, ChangesSame, FileSame
  <2>9. k \notin bad => /\ \A x \in LsiVar : buffer'[k][x] = Asked(k, x)
                        /\ Named(k, CmdVar) => buffer'[k][CmdVar] = Asked(k, CmdVar)
    BY <1>t, <2>5, <2>7
  <2>10. Changing(k)'
    BY <2>1, <2>2, <2>3, <2>8, <2>9 DEF Changing
  <2> QED
    BY <1>k, <1>p, <2>1, <2>2, <2>7, <2>10, ChangeKeeps
<1>4. CASE AccessRAIDRecordtoChangeSetting
  <2> DEFINE new == [x \in LsiVar |-> IF x \in accessed[curr] /\ CallbackWrites(x)
                                      THEN buffer[hash][x] ELSE setting[curr][x]]
  <2>1. /\ Advance /\ fn = 5 /\ At("Access")
        /\ UNCHANGED <<cardVars, atStart, handled, i, file, Process>>
    BY <1>4, Places DEF AccessRAIDRecordtoChangeSetting, IInv
  <2>2. k = curr' /\ fn' = 6 /\ pc' = "change" /\ hash = curr /\ hooked = 1
    BY <1>k, <1>p, <2>1, ChangeAt, TalkingTo
  <2>3. \/ setting' = [setting EXCEPT ![curr] = new] /\ bad' = bad
        \/ setting' = setting /\ bad' = bad \cup {curr}
    BY <1>4, Zenon DEF AccessRAIDRecordtoChangeSetting
  <2>4. /\ setting[k] = atStart[k] /\ handled[k] = NoCmd
        /\ k \notin bad => stores[k] = LsiVar /\ accessed[k] = Changes(k) \cap Applied
        /\ k \notin bad => \A x \in LsiVar : buffer[k][x] = Asked(k, x)
        /\ k \notin bad /\ Named(k, CmdVar) => buffer[k][CmdVar] = Asked(k, CmdVar)
    BY <1>r, <2>1 DEF Changing
  <2>5. ASSUME NEW x \in LsiVar, k \notin bad
        PROVE  new[x] = IF x \in Applied /\ Named(k, x) THEN file[FirstInFile(k, x)].data ELSE atStart[k][x]
    <3>1. new[x] = IF x \in Changes(k) /\ x \in Applied THEN Asked(k, x) ELSE atStart[k][x]
      BY <1>k, <2>2, <2>4, <2>5 DEF CallbackWrites
    <3>2. Before(k, x) = atStart[k][x] /\ x \in SetupVar
      BY <1>t DEF Before
    <3>3. Named(k, x) => Asked(k, x) = file[FirstInFile(k, x)].data
      BY DEF Asked
    <3>4. x \in Changes(k) <=> Asked(k, x) # Before(k, x)
      BY <3>2 DEF Changes
    <3>5. ~Named(k, x) => Asked(k, x) = Before(k, x)
      BY DEF Asked
    <3> QED
      BY <3>1, <3>2, <3>3, <3>4, <3>5
  <2> HIDE DEF new
  <2>6. bad \subseteq bad' /\ (k \notin bad' => k \notin bad /\ setting'[k] = new)
    BY <1>k, <1>t, <2>3
  <2>7. \A c \in Card : c # k => setting'[c] = setting[c]
    BY <1>k, <1>t, <2>3
  <2>8. /\ \A x : Asked(k, x)' = Asked(k, x)
        /\ \A x : (Named(k, x)' <=> Named(k, x)) /\ FirstInFile(k, x)' = FirstInFile(k, x)
        /\ Changes(k)' = Changes(k)
    BY <2>1, AskedSame, ChangesSame, FileSame
  <2>9. k \notin bad' => SettingDone(k)'
    BY <2>1, <2>5, <2>6, <2>8 DEF SettingDone
  <2>10. Changing(k)'
    BY <2>1, <2>2, <2>4, <2>6, <2>8, <2>9 DEF Changing
  <2> QED
    BY <1>k, <1>p, <2>1, <2>2, <2>6, <2>7, <2>10, ChangeKeeps
<1>5. CASE HandleRaidCfgCmdString
  <2>1. /\ Advance /\ fn = 8 /\ At("Commands")
        /\ UNCHANGED <<cardVars, setting, atStart, bad, i, file, Process>>
        /\ handled' = [handled EXCEPT ![curr] =
             IF hooked = 1 /\ First(CmdVar) # 0 THEN buffer[hash][CmdVar] ELSE handled[curr]]
    BY <1>5, Places DEF HandleRaidCfgCmdString, IInv
  <2>2. k = curr' /\ fn' = 9 /\ pc' = "change" /\ hash = curr /\ hooked = 1
    BY <1>k, <1>p, <2>1, ChangeAt, TalkingTo
  <2>3. /\ handled[k] = NoCmd
        /\ k \notin bad =>
             /\ stores[k] = LsiVar /\ accessed[k] = Changes(k) \cap Applied /\ SettingDone(k)
             /\ \A x \in LsiVar : buffer[k][x] = Asked(k, x)
             /\ Named(k, CmdVar) => buffer[k][CmdVar] = Asked(k, CmdVar)
    BY <1>r, <2>1 DEF Changing
  <2>4. First(CmdVar) # 0 <=> Named(k, CmdVar)
    BY <1>k, <1>p, <1>t, FirstAsked
  <2>5. ~Named(k, CmdVar) => Asked(k, CmdVar) = NoCmd
    BY DEF Asked, Before
  <2>6. k \notin bad => handled'[k] = Asked(k, CmdVar)
    BY <1>k, <1>t, <2>1, <2>2, <2>3, <2>4, <2>5
  <2>7. \A c \in Card : c # k => handled'[c] = handled[c]
    BY <1>k, <1>t, <2>1
  <2>8. /\ \A x : Asked(k, x)' = Asked(k, x)
        /\ \A x : (Named(k, x)' <=> Named(k, x)) /\ FirstInFile(k, x)' = FirstInFile(k, x)
        /\ Changes(k)' = Changes(k)
    BY <2>1, AskedSame, ChangesSame, FileSame
  <2>9. SettingDone(k) => SettingDone(k)'
    BY <2>1, <2>8 DEF SettingDone
  <2>10. Changing(k)'
    BY <2>1, <2>2, <2>3, <2>6, <2>8, <2>9 DEF Changing
  <2> QED
    BY <1>k, <1>p, <2>1, <2>2, <2>7, <2>10, ChangeKeeps
<1>6. CASE SmcLsiHookBrowser2Protocol
  <2>1. Advance /\ fn \in {4, 6, 7, 9} /\ UNCHANGED <<cardVars, setting, atStart, handled, bad, i, file, Process>>
    BY <1>6, <1>p, HookAt DEF SmcLsiHookBrowser2Protocol, IInv, At
  <2>2. CASE fn # 9
    <3>1. k = curr' /\ fn' = fn + 1 /\ pc' = "change"
      BY <1>k, <1>p, <2>1, <2>2, ChangeAt
    <3>2. Changing(k)'
      BY <1>r, <2>1, <2>2, <3>1, ChangingSame
    <3> QED
      BY <1>k, <1>p, <2>1, <3>1, <3>2, ChangeKeeps
  <2>3. CASE fn = 9
    <3>1. fn' = 1 /\ pc' = "change" /\ curr' = NextCard /\ Cards \in Nat
      BY <2>1, <2>3, AdvanceTo, RaidDriverAssumption
    <3>2. \A c : (Untouched(c) => Untouched(c)') /\ (Changed(c) => Changed(c)')
      BY <2>1, CardSame
    <3>3. ASSUME NEW c \in Card, c <= k PROVE Changed(c)'
      <4>1. CASE c = k
        BY <1>r, <2>3, <3>2, <4>1 DEF Changing, Changed
      <4>2. CASE c < k
        BY <1>k, <3>2, <4>2 DEF DataInv, ChangeInv
      <4> QED
        BY <3>3, <4>1, <4>2 DEF Card
    <3>4. ASSUME NEW c \in Card, k < c PROVE Untouched(c)'
      BY <1>k, <1>p, <3>2, <3>4 DEF DataInv, ChangeInv
    <3>5. ChangeInv'
      <4>1. CASE k < Cards
        <5>1. curr' = k + 1 /\ curr' # 0
          BY <1>k, <3>1, <4>1 DEF NextCard, Card
        <5>2. ASSUME NEW c \in Card PROVE /\ c < curr' => c <= k
                                          /\ c = curr' \/ curr' < c => k < c
          BY <5>1 DEF Card
        <5>3. \A c : Untouched(c)' => Changing(c)'
          BY <3>1 DEF Changing
        <5> QED
          BY <3>3, <3>4, <5>1, <5>2, <5>3 DEF ChangeInv
      <4>2. CASE ~(k < Cards)
        <5>1. curr' = 0 /\ \A c \in Card : c <= k /\ c # 0
          BY <1>k, <3>1, <4>2 DEF NextCard, Card
        <5> QED
          BY <3>3, <5>1 DEF ChangeInv
      <4> QED
        BY <4>1, <4>2
    <3>6. CollectInv'
      <4>1. \A c \in Card : \A x \in SetupVar : CollectedOf(c, x)'
        <5>1. ASSUME NEW c \in Card, NEW x \in SetupVar PROVE CollectedOf(c, x)'
          <6>1. CollectedOf(c, x)
            BY <1>p DEF DataInv, CollectInv
          <6>2. FirstInFile(c, x)' = FirstInFile(c, x) /\ (Named(c, x)' <=> Named(c, x))
            BY <2>1, FileSame
          <6> QED
            BY <2>1, <6>1, <6>2 DEF CollectedOf, FirstAt
        <5> QED
          BY <5>1
      <4> QED
        BY <1>p, <2>1, <3>1, <4>1 DEF DataInv, CollectInv
    <3> QED
      BY <3>1, <3>5, <3>6 DEF DataInv, QuietInv, DownInv, ChangesReachTheirCard
  <2> QED
    BY <2>2, <2>3
<1> QED
  BY <1>1, <1>2, <1>3, <1>4, <1>5, <1>6

-----------------------------------------------------------------------------
(* The steps between the tables.                                           *)

\* Download is over: every card is ready, and nothing is collected yet.
LEMMA DownloadEnds ==
  ASSUME TypeOK, DataInv, SmcLsiOOBSetupDriverDownload
  PROVE  DataInv'
<1>1. /\ pc = "down" /\ curr = 0 /\ pc' = "update" /\ UNCHANGED <<cardVars, file, i, setting, atStart, handled, bad>>
  BY DEF SmcLsiOOBSetupDriverDownload, fileVars, historyVars
<1>2. changed = Blank(<<>>) /\ i = 1 /\ setting = atStart /\ handled = Blank(NoCmd) /\ accessed = Blank({})
  BY <1>1 DEF DataInv, QuietInv
<1>3. QuietInv' /\ DownInv' /\ ChangeInv' /\ ChangesReachTheirCard'
  BY <1>1, <1>2 DEF QuietInv, DownInv, ChangeInv, ChangesReachTheirCard, Blank, cardVars
<1>4. ASSUME NEW c \in Card PROVE Ready(c)' /\ Unmarked(c)'
  <2>1. Ready(c)
    BY <1>1 DEF DataInv, DownInv
  <2>2. changed'[c] = <<>>
    BY <1>1, <1>2 DEF cardVars, Blank
  <2> QED
    BY <1>1, <2>1, <2>2, ReadySame DEF Unmarked, cardVars
<1>5. ASSUME NEW c \in Card, NEW x \in SetupVar PROVE CollectedOf(c, x)'
  <2>1. changed'[c] = <<>>
    BY <1>1, <1>2 DEF cardVars, Blank
  <2>2. FirstInFile(c, x)' = FirstInFile(c, x) /\ (Named(c, x)' <=> Named(c, x))
    BY <1>1, FileSame
  <2>3. FirstInFile(c, x) \in Nat /\ (Named(c, x) => FirstInFile(c, x) # 0)
    BY FileFirst, FileType DEF Named
  <2>4. ~(Named(c, x) /\ FirstInFile(c, x) < 1)
    BY <2>3
  <2> QED
    BY <1>1, <1>2, <2>1, <2>2, <2>4 DEF CollectedOf
<1> QED
  BY <1>1, <1>2, <1>3, <1>4, <1>5 DEF DataInv, CollectInv, cardVars, Blank

\* HandleData begins with cards that are untouched.
LEMMA HandleStarts ==
  ASSUME TypeOK, DataInv, HandleDataStart
  PROVE  DataInv'
<1>1. /\ pc = "update" /\ pc' = "change" /\ curr' = 1 /\ fn' = 1 /\ i > Len(file) /\ Process = "download"
      /\ UNCHANGED <<cardVars, file, i, setting, atStart, handled, bad, Process>>
  BY DEF HandleDataStart, fileVars, historyVars, driverVars
<1>2. ASSUME NEW c \in Card PROVE Untouched(c)'
  <2>1. Ready(c) /\ Unmarked(c)
    BY <1>1 DEF DataInv, CollectInv
  <2>2. accessed[c] = {} /\ setting[c] = atStart[c] /\ handled[c] = NoCmd
    BY <1>1 DEF DataInv, QuietInv, Blank
  <2>3. Untouched(c)
    BY <2>1, <2>2 DEF Untouched
  <2> QED
    BY <1>1, <2>3, CardSame DEF cardVars
<1>3. ChangeInv'
  <2>1. \A c : Untouched(c)' => Changing(c)'
    BY <1>1 DEF Changing
  <2>2. \A c \in Card : ~(c < 1)
    BY DEF Card
  <2> QED
    BY <1>1, <1>2, <2>1, <2>2 DEF ChangeInv
<1>4. ASSUME NEW c \in Card, NEW x \in SetupVar PROVE CollectedOf(c, x)'
  <2>1. CollectedOf(c, x)
    BY <1>1 DEF DataInv, CollectInv
  <2>2. FirstInFile(c, x)' = FirstInFile(c, x) /\ (Named(c, x)' <=> Named(c, x))
    BY <1>1, FileSame
  <2> QED
    BY <1>1, <2>1, <2>2 DEF CollectedOf, FirstAt, cardVars
<1>5. CollectInv'
  BY <1>1, <1>4 DEF CollectInv
<1> QED
  BY <1>1, <1>3, <1>5 DEF DataInv, QuietInv, DownInv, ChangesReachTheirCard

\* Nothing was collected: the file names no store of a card.
LEMMA NothingHandled ==
  ASSUME TypeOK, DataInv, HandleNothing
  PROVE  DataInv'
<1>1. /\ pc = "update" /\ pc' = "reset" /\ i > Len(file) /\ Process' = Process
      /\ Process # "download" \/ SmcLsiHaveNvData = 0
      /\ UNCHANGED <<file, setting, atStart, handled, bad>>
  BY DEF HandleNothing, fileVars, historyVars, driverVars
<1>2. ASSUME Process = "download", NEW c \in Card, NEW x PROVE ~Named(c, x)
  <2> SUFFICES ASSUME Named(c, x) PROVE FALSE
    OBVIOUS
  <2>1. x \in SetupVar
    BY NamedIn
  <2>2. CollectedOf(c, x) /\ changed[c] = <<>>
    BY <1>1, <1>2, <2>1 DEF DataInv, CollectInv, Blank
  <2>3. FirstInFile(c, x) < i
    <3>1. FirstInFile(c, x) \in 0..Len(file) /\ Len(file) \in Nat /\ i \in Nat
      BY FileFirst, FileType DEF TypeOK
    <3> QED
      BY <1>1, <3>1
  <2> QED
    BY <2>2, <2>3 DEF CollectedOf
<1>3. ASSUME Process = "download", NEW c \in Card PROVE /\ \A x \in LsiVar : setting[c][x] = atStart[c][x]
                                                        /\ handled[c] = NoCmd
  BY <1>1 DEF DataInv, QuietInv, Blank
<1>4. \A c, x : Named(c, x)' <=> Named(c, x)
  BY <1>1, FileSame
<1>5. ChangesReachTheirCard'
  BY <1>1, <1>2, <1>3, <1>4 DEF ChangesReachTheirCard
<1> QED
  BY <1>1, <1>5 DEF DataInv, QuietInv, DownInv, CollectInv, ChangeInv

\* HandleData is over: every card has its changes.
LEMMA HandleEnds ==
  ASSUME DataInv, SmcLsiRaidLib_HandleData
  PROVE  DataInv'
<1>1. pc = "change" /\ curr = 0 /\ pc' = "reset" /\ UNCHANGED <<file, setting, atStart, handled, bad>>
  BY DEF SmcLsiRaidLib_HandleData, fileVars, historyVars
<1>2. ASSUME NEW c \in Card PROVE Changed(c)
  BY <1>1 DEF DataInv, ChangeInv
<1>3. /\ \A c, x : (Named(c, x)' <=> Named(c, x)) /\ FirstInFile(c, x)' = FirstInFile(c, x)
  BY <1>1, FileSame
<1>4. ChangesReachTheirCard'
  BY <1>1, <1>2, <1>3 DEF ChangesReachTheirCard, Changed, SettingDone, Asked, Before
<1> QED
  BY <1>1, <1>4 DEF DataInv, QuietInv, DownInv, CollectInv, ChangeInv

\* Every step keeps the invariant.
LEMMA DataStep ==
  ASSUME TypeOK, IInv, DataInv, [Next]_vars
  PROVE  DataInv'
<1> USE DEF DataInv
<1>1. CASE \/ InitialLsiVarHashTable \/ FreeLsiVarHashTable \/ SmcLsiRaidOOB_InitialFunc
           \/ SmcLsiRaidOOB_CollectInformation_Form \/ SmcLsiCallbackAccessMenu
           \/ InitialItemsQIdTable \/ SmcLsiRaidOOB_CollectInformation_ChRec
           \/ SmcLsiSetSmcLsiVariableTable \/ SmcLsiCreateSmcRaidVarAndItems
           \/ SmcLsiHookBrowser2Protocol \/ CheckChangeableItemsInChangedVar
           \/ ChangedVarToOOBVarBuffer \/ AccessRAIDRecordtoChangeSetting
           \/ HandleRaidCfgCmdString
  <2>1. CASE InitialLsiVarHashTable \/ SmcLsiHookBrowser2Protocol
    <3>1. pc = "down" \/ pc = "change"
      BY <2>1 DEF InitialLsiVarHashTable, SmcLsiHookBrowser2Protocol, At
    <3> QED
      BY <2>1, <3>1, DownFunctions, ChangeFunctions
  <2>2. CASE \/ CheckChangeableItemsInChangedVar \/ ChangedVarToOOBVarBuffer
             \/ AccessRAIDRecordtoChangeSetting \/ HandleRaidCfgCmdString
    <3>1. pc = "change"
      BY <2>2, Places DEF IInv, CheckChangeableItemsInChangedVar, ChangedVarToOOBVarBuffer,
                          AccessRAIDRecordtoChangeSetting, HandleRaidCfgCmdString
    <3> QED
      BY <2>2, <3>1, ChangeFunctions
  <2>3. CASE \/ FreeLsiVarHashTable \/ SmcLsiRaidOOB_InitialFunc
             \/ SmcLsiRaidOOB_CollectInformation_Form \/ SmcLsiCallbackAccessMenu
             \/ InitialItemsQIdTable \/ SmcLsiRaidOOB_CollectInformation_ChRec
             \/ SmcLsiSetSmcLsiVariableTable \/ SmcLsiCreateSmcRaidVarAndItems
    <3>1. pc = "down"
      BY <2>3, Places DEF IInv, FreeLsiVarHashTable, SmcLsiRaidOOB_InitialFunc,
           SmcLsiRaidOOB_CollectInformation_Form, SmcLsiCallbackAccessMenu, InitialItemsQIdTable,
           SmcLsiRaidOOB_CollectInformation_ChRec, SmcLsiSetSmcLsiVariableTable,
           SmcLsiCreateSmcRaidVarAndItems
    <3> QED
      BY <2>3, <3>1, DownFunctions
  <2> QED
    BY <1>1, <2>1, <2>2, <2>3
<1>2. CASE StartLoadError \/ StartInstallFails
  <2>1. /\ pc = "start" /\ pc' = "update" /\ Process' # "download"
        /\ UNCHANGED <<cardVars, setting, atStart, handled, bad>>
    BY <1>2 DEF StartLoadError, StartInstallFails, IInv, ProcessInv, driverVars
  <2> QED
    BY <2>1 DEF QuietInv, DownInv, CollectInv, ChangeInv, ChangesReachTheirCard, cardVars, Blank
<1>3. CASE SmcLsiOOBSetupDriverStart
  <2>1. /\ pc = "start" /\ pc' = "down" /\ curr' = 1 /\ fn' = 1
        /\ UNCHANGED <<cardVars, setting, atStart, handled, bad, i>>
    BY <1>3 DEF SmcLsiOOBSetupDriverStart, fileVars, historyVars
  <2>2. \A c \in Card : setupVars'[c] = <<>> /\ ~(c < 1)
    BY <2>1 DEF QuietInv, Blank, cardVars, Card
  <2>3. \A c \in Card : Reading(c)'
    BY <2>1, <2>2 DEF Reading
  <2>4. DownInv'
    BY <2>1, <2>2, <2>3 DEF DownInv
  <2> QED
    BY <2>1, <2>4 DEF QuietInv, CollectInv, ChangeInv, ChangesReachTheirCard, cardVars, Blank
<1>4. CASE FunctionFails \/ HookFails \/ SetVariableTableFails
  <2>1. pc = "down"
    <3>1. CASE HookFails
      BY <3>1 DEF HookFails, At, IInv, ProcessInv, BrowserInv
    <3>2. CASE FunctionFails \/ SetVariableTableFails
      BY <3>2, FailsAt DEF FunctionFails, SetVariableTableFails, IInv
    <3> QED
      BY <1>4, <3>1, <3>2
  <2>2. /\ pc' = "update" /\ UNCHANGED <<driverVars, cardVars, setting, atStart, handled, fileVars>>
    BY <1>4 DEF FunctionFails, HookFails, FuncFails, SetVariableTableFails, historyVars
  <2>3. Process' # "download"
    BY <2>1, <2>2 DEF IInv, ProcessInv, driverVars
  <2> QED
    BY <2>1, <2>2, <2>3 DEF QuietInv, DownInv, CollectInv, ChangeInv, ChangesReachTheirCard, cardVars, Blank
<1>5. CASE NoFile \/ SmcLsiRaidLib_ParseNvData \/ ParseNvDataEnds \/ SmcLsiOOBSetupDriverLoadResource
  <2>1. pc' \in {"combine", "load", "os"}
    BY <1>5 DEF NoFile, SmcLsiRaidLib_ParseNvData, ParseNvDataEnds, SmcLsiOOBSetupDriverLoadResource
  <2> QED
    BY <2>1 DEF QuietInv, DownInv, CollectInv, ChangeInv, ChangesReachTheirCard
<1>6. ASSUME NEW f \in Files \cup {<<>>}, SmcLsiRaidOOBSetupEntry(f) PROVE DataInv'
  BY <1>6 DEF SmcLsiRaidOOBSetupEntry, QuietInv, DownInv, CollectInv, ChangeInv, ChangesReachTheirCard, Blank
<1>7. CASE UNCHANGED vars
  <2> USE <1>7 DEF vars, driverVars, loopVars, cardVars, fileVars, historyVars
  <2>1. QuietInv' /\ DownInv'
    BY DEF QuietInv, DownInv, Ready, Reading, SetupVarsOf, Blank
  <2>2. \A c, x : (Named(c, x)' <=> Named(c, x)) /\ FirstInFile(c, x)' = FirstInFile(c, x)
    BY FileSame
  <2>3. \A c : (Untouched(c) => Untouched(c)') /\ (Changed(c) => Changed(c)')
    BY CardSame
  <2>4. \A c : Changing(c) => Changing(c)'
    <3>1. \A c : (Ready(c) => Ready(c)') /\ (SettingDone(c) => SettingDone(c)')
      BY <2>2, ReadySame DEF SettingDone
    <3>2. \A c : Changes(c)' = Changes(c) /\ \A x : Asked(c, x)' = Asked(c, x)
      BY ChangesSame, AskedSame
    <3> QED
      BY <2>2, <2>3, <3>1, <3>2 DEF Changing
  <2>5. ChangeInv'
    BY <2>3, <2>4 DEF ChangeInv
  <2>6. CollectInv'
    <3>1. \A c, x : CollectedOf(c, x) => CollectedOf(c, x)'
      BY <2>2 DEF CollectedOf, FirstAt
    <3>2. \A c : (Ready(c) => Ready(c)') /\ (Unmarked(c) => Unmarked(c)')
      BY ReadySame DEF Unmarked
    <3> QED
      BY <3>1, <3>2 DEF CollectInv, Blank
  <2>7. ChangesReachTheirCard'
    BY <2>2 DEF ChangesReachTheirCard
  <2> QED
    BY <2>1, <2>5, <2>6, <2>7
<1> QED
  BY <1>1, <1>2, <1>3, <1>4, <1>5, <1>6, <1>7, CollectInvariant, DownloadEnds, HandleStarts,
     NothingHandled, HandleEnds DEF Next, Driver

\* What is collected, read from and written to the cards, in every state.
THEOREM DataInvariance == Spec => []DataInv
<1>1. Init => DataInv
  BY DEF Init, DataInv, QuietInv, DownInv, CollectInv, ChangeInv, ChangesReachTheirCard
<1> QED
  BY <1>1, Invariance, TypeCorrect, DataStep, PTL DEF Spec

\* When a file was handled, every card without a problem has the values of the file's
\* first records for it in the stores that an item applies, its old values everywhere
\* else, and has handled its own commands only. For any number of cards, all with
\* the same variable names, and any files and failures.
THEOREM ChangesReach == Spec => []ChangesReachTheirCard
<1>1. DataInv => ChangesReachTheirCard
  BY DEF DataInv
<1> QED
  BY <1>1, DataInvariance, PTL

-----------------------------------------------------------------------------
(* What CombineBiosCfg exports.                                            *)

\* The set-up variables of the cards, and those of the first b cards in one list.
Lists ==
  [c \in Card |-> [n \in 1..Len(SetupVarsOf(c)) |-> <<c, SetupVarsOf(c)[n]>>]]

Upto[b \in 0..Cards] == IF b = 0 THEN <<>> ELSE Upto[b - 1] \o Lists[b]

Pairs == [n \in 1..Len(exported) |-> <<exported[n].card, exported[n].var>>]

\* The last card whose list ParseNvData has taken up.
Behind == IF iter.renew = 1 THEN 0 ELSE IF curr = 0 THEN Cards ELSE curr - 1

\* Every exported variable has the value of its card.
ExportedData ==
  \A n \in 1..Len(exported) : exported[n].card \notin bad =>
    exported[n].data = IF exported[n].var = CmdVar THEN NoCmd
                       ELSE setting[exported[n].card][exported[n].var]

\* What was exported and the rest of the list at hand are the variables of the cards
\* up to the one of this list.
WalkInv ==
  (pc = "combine" /\ Process = "download") =>
    /\ setting = atStart /\ \A c \in Card : Ready(c)
    /\ iter.renew = 1 => iter.left = <<>> /\ exported = <<>>
    /\ Pairs \o iter.left = Upto[Behind]
    /\ \A n \in 1..Len(iter.left) : setupVars[iter.left[n][1]] # <<>>
    /\ ExportedData

ExportInv ==
  /\ pc \in {"start", "down", "update"} => iter = [renew |-> 1, left |-> <<>>] /\ exported = <<>>
  /\ WalkInv
  /\ ExportedOnce

\* FlattenSeq puts the lists behind each other, one by one.
LEMMA Flattens ==
  ASSUME NEW S, NEW s \in Seq(Seq(S)), Len(s) # 0
  PROVE  \E f \in [1..Len(s) -> Seq(S)] :
           /\ FlattenSeq(s) = f[Len(s)]
           /\ \A j \in 1..Len(s) : f[j] = IF j = 1 THEN s[j] ELSE f[j - 1] \o s[j]
<1> DEFINE L == Len(s)
           Rec(f, m) == \A j \in 1..m : f[j] = IF j = 1 THEN s[j] ELSE f[j - 1] \o s[j]
           B == {m \in 0..L : ~\E f \in [1..m -> Seq(S)] : Rec(f, m)}
<1>1. L \in Nat /\ L # 0 /\ \A j \in 1..L : s[j] \in Seq(S)
  OBVIOUS
<1>2. B = {}
  <2> SUFFICES ASSUME B # {} PROVE FALSE
    OBVIOUS
  <2>1. B \in SUBSET Nat
    BY <1>1
  <2>2. PICK m \in B : \A y \in B : m <= y
    BY <2>1, MinIn
  <2>3. CASE m = 0
    <3>1. [j \in 1..0 |-> <<>>] \in [1..0 -> Seq(S)] /\ Rec([j \in 1..0 |-> <<>>], 0)
      OBVIOUS
    <3> QED
      BY <2>2, <2>3, <3>1
  <2>4. CASE m # 0
    <3>1. m \in 1..L /\ m - 1 \in 0..L /\ m - 1 \notin B
      <4>1. m \in 0..L
        BY <2>2
      <4> HIDE DEF B
      <4> QED
        BY <1>1, <2>2, <2>4, <4>1
    <3>2. PICK f \in [1..(m - 1) -> Seq(S)] : Rec(f, m - 1)
      BY <3>1
    <3> DEFINE e == IF m = 1 THEN s[m] ELSE f[m - 1] \o s[m]
               g == [j \in 1..m |-> IF j = m THEN e ELSE f[j]]
    <3>3. e \in Seq(S)
      <4>1. m # 1 => f[m - 1] \in Seq(S)
        BY <3>1, <3>2
      <4> QED
        BY <1>1, <3>1, <4>1
    <3>4. \A j \in 1..(m - 1) : j \in 1..m /\ j # m /\ f[j] \in Seq(S)
      BY <3>1, <3>2
    <3>5. \A j \in 1..m : j = m \/ j \in 1..(m - 1)
      BY <3>1
    <3> HIDE DEF e
    <3>6. g \in [1..m -> Seq(S)]
      BY <3>3, <3>4, <3>5
    <3>7. ASSUME NEW j \in 1..m PROVE g[j] = IF j = 1 THEN s[j] ELSE g[j - 1] \o s[j]
      <4>1. CASE j = m
        <5>1. m # 1 => m - 1 \in 1..m /\ m - 1 # m
          BY <3>1
        <5> QED
          BY <3>1, <4>1, <5>1 DEF e
      <4>2. CASE j \in 1..(m - 1)
        <5>1. j # 1 => j - 1 \in 1..m /\ j - 1 # m
          BY <3>1, <4>2
        <5>2. f[j] = IF j = 1 THEN s[j] ELSE f[j - 1] \o s[j]
          BY <3>2, <4>2
        <5> QED
          BY <3>1, <3>4, <4>2, <5>1, <5>2
      <4> QED
        BY <3>5, <4>1, <4>2
    <3>8. Rec(g, m)
      BY <3>7
    <3> QED
      BY <2>2, <3>6, <3>8
  <2> QED
    BY <2>3, <2>4
<1>3. PICK f \in [1..L -> Seq(S)] : Rec(f, L)
  <2>1. L \in 0..L
    BY <1>1
  <2>2. L \notin B
    <3> HIDE DEF B
    <3> QED
      BY <1>2
  <2> QED
    BY <2>1, <2>2
<1>4. f = [j \in 1..L |-> IF j = 1 THEN s[j] ELSE f[j - 1] \o s[j]]
  BY <1>3
<1> DEFINE h == CHOOSE h : h = [j \in 1..L |-> IF j = 1 THEN s[j] ELSE h[j - 1] \o s[j]]
<1>5. h = [j \in 1..L |-> IF j = 1 THEN s[j] ELSE h[j - 1] \o s[j]]
  BY <1>4
<1>6. FlattenSeq(s) = h[L]
  BY <1>1 DEF FlattenSeq
<1> HIDE DEF h
<1>7. {j \in 1..L : h[j] # f[j]} = {}
  <2> DEFINE D == {j \in 1..L : h[j] # f[j]}
  <2> SUFFICES ASSUME D # {} PROVE FALSE
    OBVIOUS
  <2>1. D \in SUBSET Nat
    BY <1>1
  <2>2. PICK m \in D : \A y \in D : m <= y
    BY <2>1, MinIn
  <2>3. m \in 1..L /\ h[m] # f[m]
    BY <2>2
  <2>4. h[m] = (IF m = 1 THEN s[m] ELSE h[m - 1] \o s[m]) /\ f[m] = IF m = 1 THEN s[m] ELSE f[m - 1] \o s[m]
    BY <1>4, <1>5, <2>3
  <2>5. m # 1 /\ h[m - 1] # f[m - 1]
    BY <2>3, <2>4
  <2>6. m - 1 \in D
    BY <1>1, <2>3, <2>5
  <2> HIDE DEF D
  <2> QED
    BY <2>2, <2>3, <2>6
<1>8. h[L] = f[L]
  BY <1>1, <1>7
<1> QED
  BY <1>3, <1>6, <1>8

\* The lists of the cards.
LEMMA ListsType ==
  /\ Cards \in Nat /\ Cards # 0 /\ Card = 1..Cards
  /\ Lists \in Seq(Seq(Card \X SetupVar)) /\ Len(Lists) = Cards
  /\ \A c \in Card : /\ SetupVarsOf(c) \in Seq(SetupVar) /\ Lists[c] \in Seq(Card \X SetupVar)
                     /\ Len(Lists[c]) = Len(SetupVarsOf(c))
                     /\ \A n \in 1..Len(SetupVarsOf(c)) : Lists[c][n] = <<c, SetupVarsOf(c)[n]>>
                     /\ SetupVarsOf(c) = <<>> => Lists[c] = <<>>
<1>1. Cards \in Nat /\ Cards # 0 /\ Card = 1..Cards
  BY RaidDriverAssumption DEF Card
<1>2. ASSUME NEW c \in Card PROVE SetupVarsOf(c) \in Seq(SetupVar)
  <2>1. VarsOf[c] \in Seq(SetupVar) /\ CmdVar \in SetupVar
    <3>1. VarsOf[c] \in Seq(LsiVar)
      BY RaidDriverAssumption
    <3> QED
      BY <3>1 DEF SetupVar
  <2> QED
    BY <2>1 DEF SetupVarsOf
<1>3. ASSUME NEW c \in Card
      PROVE  /\ Lists[c] \in Seq(Card \X SetupVar) /\ Len(Lists[c]) = Len(SetupVarsOf(c))
             /\ \A n \in 1..Len(SetupVarsOf(c)) : Lists[c][n] = <<c, SetupVarsOf(c)[n]>>
             /\ SetupVarsOf(c) = <<>> => Lists[c] = <<>>
  <2> DEFINE l == [n \in 1..Len(SetupVarsOf(c)) |-> <<c, SetupVarsOf(c)[n]>>]
  <2>1. Lists[c] = l
    BY DEF Lists
  <2>2. l \in Seq(Card \X SetupVar) /\ Len(l) = Len(SetupVarsOf(c))
    BY <1>2
  <2>3. \A n \in 1..Len(SetupVarsOf(c)) : l[n] = <<c, SetupVarsOf(c)[n]>>
    OBVIOUS
  <2> HIDE DEF l
  <2>4. SetupVarsOf(c) = <<>> => l = <<>>
    BY <2>2
  <2> QED
    BY <2>1, <2>2, <2>3, <2>4
<1>4. Lists \in Seq(Seq(Card \X SetupVar)) /\ Len(Lists) = Cards
  <2>1. DOMAIN Lists = 1..Cards /\ Lists = [c \in 1..Cards |-> Lists[c]]
    BY <1>1 DEF Lists
  <2> QED
    BY <1>1, <1>3, <2>1
<1> QED
  BY <1>1, <1>2, <1>3, <1>4

\* The variables of the first b cards, list by list.
LEMMA UptoIs ==
  /\ Upto \in [0..Cards -> Seq(Card \X SetupVar)]
  /\ Upto[0] = <<>>
  /\ \A b \in 1..Cards : Upto[b] = Upto[b - 1] \o Lists[b]
  /\ FlattenSeq(Lists) = Upto[Cards]
<1> DEFINE S == Card \X SetupVar
<1>1. PICK f \in [1..Cards -> Seq(S)] :
        /\ FlattenSeq(Lists) = f[Cards]
        /\ \A j \in 1..Cards : f[j] = IF j = 1 THEN Lists[j] ELSE f[j - 1] \o Lists[j]
  <2>1. Lists \in Seq(Seq(S)) /\ Len(Lists) = Cards /\ Len(Lists) # 0
    BY ListsType
  <2> HIDE DEF S
  <2>2. \E f \in [1..Len(Lists) -> Seq(S)] :
          /\ FlattenSeq(Lists) = f[Len(Lists)]
          /\ \A j \in 1..Len(Lists) : f[j] = IF j = 1 THEN Lists[j] ELSE f[j - 1] \o Lists[j]
    BY <2>1, Flattens, Zenon
  <2> QED
    BY <2>1, <2>2
<1> DEFINE g == [b \in 0..Cards |-> IF b = 0 THEN <<>> ELSE f[b]]
<1>2. g \in [0..Cards -> Seq(S)] /\ g[0] = <<>> /\ g[Cards] = f[Cards]
  BY <1>1, ListsType
<1>3. ASSUME NEW b \in 1..Cards PROVE g[b] = g[b - 1] \o Lists[b]
  <2>1. CASE b = 1
    <3>1. Lists[1] \in Seq(S) /\ <<>> \o Lists[1] = Lists[1]
      BY ListsType, ConcatEmptySeq, <2>1
    <3> QED
      BY <1>1, <2>1, <3>1, ListsType
  <2>2. CASE b # 1
    <3>1. b - 1 \in 1..Cards /\ b - 1 # 0 /\ b # 0 /\ b \in 0..Cards /\ b - 1 \in 0..Cards
      BY <2>2, ListsType
    <3> QED
      BY <1>1, <2>2, <3>1
  <2> QED
    BY <2>1, <2>2
<1> HIDE DEF g
<1>4. g = [b \in 0..Cards |-> IF b = 0 THEN <<>> ELSE g[b - 1] \o Lists[b]]
  <2>1. ASSUME NEW b \in 0..Cards PROVE g[b] = IF b = 0 THEN <<>> ELSE g[b - 1] \o Lists[b]
    <3>1. b = 0 \/ b \in 1..Cards
      BY ListsType
    <3>2. b \in 1..Cards => b # 0
      BY ListsType
    <3> QED
      BY <1>2, <1>3, <3>1, <3>2
  <2> QED
    BY <1>2, <2>1
<1>5. Upto = CHOOSE h : h = [b \in 0..Cards |-> IF b = 0 THEN <<>> ELSE h[b - 1] \o Lists[b]]
  BY DEF Upto
<1>6. Upto = [b \in 0..Cards |-> IF b = 0 THEN <<>> ELSE Upto[b - 1] \o Lists[b]]
  BY <1>4, <1>5
<1>7. {b \in 0..Cards : Upto[b] # g[b]} = {}
  <2> DEFINE D == {b \in 0..Cards : Upto[b] # g[b]}
  <2> SUFFICES ASSUME D # {} PROVE FALSE
    OBVIOUS
  <2>1. D \in SUBSET Nat
    BY ListsType
  <2>2. PICK m \in D : \A y \in D : m <= y
    BY <2>1, MinIn
  <2>3. m \in 0..Cards /\ Upto[m] # g[m]
    BY <2>2
  <2>4. /\ Upto[m] = IF m = 0 THEN <<>> ELSE Upto[m - 1] \o Lists[m]
        /\ g[m] = IF m = 0 THEN <<>> ELSE g[m - 1] \o Lists[m]
    BY <1>4, <1>6, <2>3
  <2>5. m # 0 /\ Upto[m - 1] # g[m - 1]
    BY <2>3, <2>4
  <2>6. m - 1 \in D
    BY <2>3, <2>5, ListsType
  <2> HIDE DEF D
  <2> QED
    BY <2>2, <2>3, <2>6
<1>8. DOMAIN Upto = 0..Cards
  BY <1>6
<1>9. Upto = g
  BY <1>2, <1>6, <1>7
<1> QED
  BY <1>1, <1>2, <1>3, <1>9

\* Cards without variables add nothing.
LEMMA UptoSkips ==
  ASSUME NEW a \in 0..Cards, NEW d \in 0..Cards, a <= d,
         \A c \in Card : a < c /\ c <= d => SetupVarsOf(c) = <<>>
  PROVE  Upto[d] = Upto[a]
<1> DEFINE D == {b \in 0..Cards : a <= b /\ b <= d /\ Upto[b] # Upto[a]}
<1> SUFFICES ASSUME D # {} PROVE FALSE
  OBVIOUS
<1>1. D \in SUBSET Nat
  BY ListsType
<1>2. PICK m \in D : \A y \in D : m <= y
  BY <1>1, MinIn
<1>3. m \in 0..Cards /\ a <= m /\ m <= d /\ Upto[m] # Upto[a] /\ Cards \in Nat
  BY <1>2, ListsType
<1>4. a < m /\ m \in 1..Cards /\ m - 1 \in 0..Cards /\ a <= m - 1 /\ m - 1 <= d
  BY <1>3
<1>5. Lists[m] = <<>>
  BY <1>3, <1>4, ListsType
<1>6. Upto[m] = Upto[m - 1] \o <<>> /\ Upto[m - 1] \in Seq(Card \X SetupVar)
  BY <1>4, <1>5, UptoIs
<1>7. Upto[m] = Upto[m - 1]
  BY <1>6, ConcatEmptySeq
<1>8. m - 1 \in D
  BY <1>3, <1>4, <1>7
<1> HIDE DEF D
<1> QED
  BY <1>2, <1>3, <1>8

\* The list that ParseNvData takes up next is that of the first card at or behind c
\* that has variables.
LEMMA NextListIs ==
  ASSUME TypeOK, NEW c \in Card, \A d \in Card : setupVars[d] = SetupVarsOf(d)
  PROVE  \/ /\ NextList(c) = [list |-> <<>>, next |-> 0]
            /\ \A d \in Card : c <= d => SetupVarsOf(d) = <<>>
         \/ \E d \in Card :
              /\ NextList(c) = [list |-> Lists[d], next |-> IF d < Cards THEN d + 1 ELSE 0]
              /\ c <= d /\ SetupVarsOf(d) # <<>>
              /\ \A e \in Card : c <= e /\ e < d => SetupVarsOf(e) = <<>>
<1> DEFINE full == {d \in Card : d >= c /\ setupVars[d] # <<>>}
           m == CHOOSE d \in full : \A e \in full : d <= e
           l == [n \in 1..Len(setupVars[m]) |-> <<m, setupVars[m][n]>>]
<1>1. CASE full = {}
  <2>1. NextList(c) = [list |-> <<>>, next |-> 0]
    BY <1>1 DEF NextList
  <2>2. \A d \in Card : c <= d => SetupVarsOf(d) = <<>>
    BY <1>1 DEF Card
  <2> QED
    BY <2>1, <2>2
<1>2. CASE full # {}
  <2>1. full \in SUBSET Nat
    BY ListsType
  <2>2. Min(full) \in full /\ \A e \in full : Min(full) <= e
    BY <1>2, <2>1, MinIn
  <2>3. m \in full /\ \A e \in full : m <= e
    BY <2>2
  <2>4. NextList(c) = [list |-> l, next |-> IF m < Cards THEN m + 1 ELSE 0]
    BY <1>2 DEF NextList
  <2>5. m \in Card /\ m >= c /\ setupVars[m] # <<>>
    BY <2>3
  <2> HIDE DEF m
  <2>9. m \in Nat /\ c \in Nat /\ Card \in SUBSET Nat
    BY <2>5, ListsType DEF Card
  <2>6. ASSUME NEW e \in Card, c <= e, e < m PROVE SetupVarsOf(e) = <<>>
    <3>1. e \in Nat /\ ~(m <= e)
      BY <2>6, <2>9
    <3>2. e \notin full
      <4> HIDE DEF full
      <4> QED BY <2>3, <3>1
    <3> QED
      BY <2>6, <2>9, <3>1, <3>2
  <2>7. l = Lists[m]
    BY <2>5 DEF Lists
  <2> HIDE DEF l
  <2>8. c <= m
    BY <2>5, ListsType
  <2> QED
    BY <2>4, <2>5, <2>6, <2>7, <2>8
<1> QED
  BY <1>1, <1>2

\* One more pair, taken from the front of the rest.
LEMMA MovePair ==
  ASSUME NEW S, NEW s \in Seq(S), NEW l \in Seq(S), l # <<>>
  PROVE  Append(s, Head(l)) \o Tail(l) = s \o l
<1> DEFINE a == Append(s, Head(l)) \o Tail(l)
           b == s \o l
<1>1. Head(l) \in S /\ Tail(l) \in Seq(S) /\ Len(Tail(l)) = Len(l) - 1 /\ Head(l) = l[1] /\ Len(l) \in Nat /\ Len(l) # 0
  BY EmptySeq
<1>2. \A j \in 1..(Len(l) - 1) : Tail(l)[j] = l[j + 1]
  BY <1>1
<1>3. Append(s, Head(l)) \in Seq(S) /\ Len(Append(s, Head(l))) = Len(s) + 1 /\ Len(s) \in Nat
  BY <1>1
<1>4. \A j \in 1..(Len(s) + 1) : Append(s, Head(l))[j] = IF j = Len(s) + 1 THEN l[1] ELSE s[j]
  BY <1>1, <1>3
<1>5. /\ a \in Seq(S) /\ Len(a) = Len(s) + 1 + (Len(l) - 1)
      /\ \A j \in 1..(Len(s) + 1 + (Len(l) - 1)) :
           a[j] = IF j <= Len(s) + 1 THEN Append(s, Head(l))[j] ELSE Tail(l)[j - (Len(s) + 1)]
  BY <1>1, <1>3, ConcatProperties
<1>6. /\ b \in Seq(S) /\ Len(b) = Len(s) + Len(l)
      /\ \A j \in 1..(Len(s) + Len(l)) : b[j] = IF j <= Len(s) THEN s[j] ELSE l[j - Len(s)]
  BY ConcatProperties
<1> HIDE DEF a, b
<1>7. Len(a) = Len(b)
  BY <1>1, <1>3, <1>5, <1>6
<1>8. ASSUME NEW j \in 1..Len(b) PROVE a[j] = b[j]
  <2>0. /\ j \in Nat /\ 1 <= j /\ j <= Len(s) + Len(l)
        /\ j \in 1..(Len(s) + 1 + (Len(l) - 1)) /\ j \in 1..(Len(s) + Len(l))
    BY <1>1, <1>3, <1>6
  <2>1. CASE j <= Len(s)
    <3>1. j \in 1..(Len(s) + 1) /\ j # Len(s) + 1 /\ j <= Len(s) + 1
      BY <1>3, <2>0, <2>1
    <3>2. a[j] = s[j]
      BY <1>4, <1>5, <2>0, <3>1
    <3>3. b[j] = s[j]
      BY <1>6, <2>0, <2>1
    <3> QED
      BY <3>2, <3>3
  <2>2. CASE j = Len(s) + 1
    BY <1>1, <1>3, <1>4, <1>5, <1>6, <1>7, <2>2
  <2>3. CASE j > Len(s) + 1
    <3>1. j - (Len(s) + 1) \in 1..(Len(l) - 1) /\ (j - (Len(s) + 1)) + 1 = j - Len(s)
      BY <1>1, <1>3, <1>6, <2>3
    <3>2. a[j] = Tail(l)[j - (Len(s) + 1)] /\ b[j] = l[j - Len(s)]
      BY <1>1, <1>3, <1>5, <1>6, <1>7, <2>3
    <3> QED
      BY <1>2, <3>1, <3>2
  <2> QED
    BY <1>3, <2>0, <2>1, <2>2, <2>3
<1>9. a = b
  BY <1>5, <1>6, <1>7, <1>8, SeqEqual
<1> QED
  BY <1>9 DEF a, b

\* The list that ParseNvData goes on with continues the list of all variables, and
\* there is none when everything was exported.
LEMMA WalkIs ==
  ASSUME TypeOK, WalkInv, pc = "combine", Process = "download"
  PROVE  /\ Walk.list # <<>> =>
              /\ Pairs \o Walk.list = Upto[IF Walk.next = 0 THEN Cards ELSE Walk.next - 1]
              /\ \A n \in 1..Len(Walk.list) : setupVars[Walk.list[n][1]] # <<>>
         /\ Walk.list = <<>> => Pairs = Upto[Cards]
<1> DEFINE S == Card \X SetupVar
           from == IF iter.renew = 1 THEN 1 ELSE curr
<1>1. /\ iter.renew \in {0, 1} /\ iter.left \in Seq(S) /\ curr \in 0..Cards
      /\ Cards \in Nat /\ Cards # 0 /\ Card = 1..Cards
  BY ListsType DEF TypeOK
<1>2. Pairs \in Seq(S)
  <2> DEFINE R == [card : Card, var : SetupVar, data : Value]
  <2>2. exported \in Seq(R) /\ Len(exported) \in Nat
    BY DEF TypeOK
  <2>1. ASSUME NEW n \in 1..Len(exported) PROVE <<exported[n].card, exported[n].var>> \in S
    <3>1. exported[n] \in R
      <4> HIDE DEF R
      <4> QED BY <2>2
    <3> QED
      BY <3>1
  <2> QED
    BY <2>1, <2>2 DEF Pairs
<1>3. /\ iter.renew = 1 => iter.left = <<>>
      /\ Pairs \o iter.left = Upto[Behind]
      /\ \A n \in 1..Len(iter.left) : setupVars[iter.left[n][1]] # <<>>
      /\ \A d \in Card : setupVars[d] = SetupVarsOf(d)
  BY DEF WalkInv, Ready
<1>4. CASE iter.left # <<>>
  <2>1. iter.renew = 0 /\ Walk = [list |-> iter.left, next |-> curr]
    BY <1>1, <1>3, <1>4 DEF Walk
  <2>2. Behind = IF Walk.next = 0 THEN Cards ELSE Walk.next - 1
    BY <2>1 DEF Behind
  <2> QED
    BY <1>3, <1>4, <2>1, <2>2
<1>5. CASE iter.left = <<>>
  <2>1. Pairs = Upto[Behind]
    BY <1>2, <1>3, <1>5
  <2>2. CASE from = 0
    <3>1. iter.renew = 0 /\ curr = 0
      BY <1>1, <2>2
    <3>2. Behind = Cards /\ Walk.list = <<>>
      BY <1>5, <3>1 DEF Behind, Walk
    <3> QED
      BY <2>1, <3>2
  <2>3. CASE from # 0
    <3>1. from \in Card /\ from - 1 \in 0..Cards /\ Behind = from - 1
      BY <1>1, <2>3 DEF Behind
    <3>2. Walk = NextList(from)
      BY <1>5, <2>3 DEF Walk
    <3> HIDE DEF from
    <3>3. CASE /\ NextList(from) = [list |-> <<>>, next |-> 0]
               /\ \A d \in Card : from <= d => SetupVarsOf(d) = <<>>
      <4>1. \A c \in Card : from - 1 < c /\ c <= Cards => SetupVarsOf(c) = <<>>
        BY <1>1, <3>1, <3>3
      <4>2. from - 1 <= Cards /\ Cards \in 0..Cards
        BY <1>1, <3>1
      <4>3. Upto[Cards] = Upto[from - 1]
        BY <3>1, <4>1, <4>2, UptoSkips
      <4> QED
        BY <2>1, <3>1, <3>2, <3>3, <4>3
    <3>4. ASSUME NEW d \in Card,
                 NextList(from) = [list |-> Lists[d], next |-> IF d < Cards THEN d + 1 ELSE 0],
                 from <= d, SetupVarsOf(d) # <<>>,
                 \A e \in Card : from <= e /\ e < d => SetupVarsOf(e) = <<>>
          PROVE  /\ Walk.list # <<>>
                 /\ Pairs \o Walk.list = Upto[IF Walk.next = 0 THEN Cards ELSE Walk.next - 1]
                 /\ \A n \in 1..Len(Walk.list) : setupVars[Walk.list[n][1]] # <<>>
      <4>1. Walk.list = Lists[d] /\ Walk.next = IF d < Cards THEN d + 1 ELSE 0
        BY <3>2, <3>4
      <4>2. d = IF Walk.next = 0 THEN Cards ELSE Walk.next - 1
        BY <1>1, <4>1
      <4>3. /\ d \in 1..Cards /\ d - 1 \in 0..Cards /\ from - 1 <= d - 1
            /\ \A c \in Card : from - 1 < c /\ c <= d - 1 => SetupVarsOf(c) = <<>>
        BY <1>1, <3>1, <3>4
      <4>4. Upto[d - 1] = Upto[from - 1]
        BY <3>1, <4>3, UptoSkips
      <4>5. Upto[d] = Pairs \o Lists[d]
        BY <2>1, <3>1, <4>3, <4>4, UptoIs
      <4>6. Lists[d] # <<>>
        <5>1. SetupVarsOf(d) \in Seq(SetupVar) /\ Len(Lists[d]) = Len(SetupVarsOf(d))
          BY ListsType
        <5>2. Len(SetupVarsOf(d)) # 0
          BY <3>4, <5>1, EmptySeq
        <5> QED
          BY <5>1, <5>2
      <4>7. \A n \in 1..Len(Lists[d]) : setupVars[Lists[d][n][1]] # <<>>
        BY <1>3, <3>4, ListsType
      <4> QED
        BY <4>1, <4>2, <4>5, <4>6, <4>7
    <3>5. TypeOK /\ \A d \in Card : setupVars[d] = SetupVarsOf(d)
      BY <1>3
    <3> QED
      BY <3>1, <3>3, <3>4, <3>5, NextListIs
  <2> QED
    BY <2>2, <2>3
<1> QED
  BY <1>4, <1>5

\* Nothing but ParseNvData exports.
LEMMA ExportKeeps ==
  ASSUME TypeOK, IInv, Driver, ~NoFile, ~SmcLsiRaidLib_ParseNvData, ~ParseNvDataEnds
  PROVE  /\ pc' \notin {"combine", "load"}
         /\ pc' \in {"start", "down", "update"} => pc \in {"start", "down", "update"}
         /\ UNCHANGED <<iter, exported>>
<1> USE DEF driverVars, loopVars, cardVars, fileVars, historyVars, At, Advance, FuncFails
<1>1. CASE StartLoadError \/ StartInstallFails \/ SmcLsiOOBSetupDriverStart
           \/ SmcLsiOOBSetupDriverDownload \/ SmcLsiRaidLib_CollectData
  BY <1>1 DEF StartLoadError, StartInstallFails, SmcLsiOOBSetupDriverStart,
       SmcLsiOOBSetupDriverDownload, SmcLsiRaidLib_CollectData
<1>2. CASE HandleDataStart \/ HandleNothing \/ SmcLsiRaidLib_HandleData
           \/ SmcLsiOOBSetupDriverLoadResource
  BY <1>2 DEF HandleDataStart, HandleNothing, SmcLsiRaidLib_HandleData,
       SmcLsiOOBSetupDriverLoadResource
<1>3. CASE InitialLsiVarHashTable \/ FreeLsiVarHashTable \/ SmcLsiRaidOOB_InitialFunc
           \/ SmcLsiRaidOOB_CollectInformation_Form \/ SmcLsiHookBrowser2Protocol
           \/ SmcLsiCallbackAccessMenu \/ InitialItemsQIdTable
           \/ SmcLsiRaidOOB_CollectInformation_ChRec \/ SmcLsiSetSmcLsiVariableTable
           \/ SmcLsiCreateSmcRaidVarAndItems
  BY <1>3 DEF InitialLsiVarHashTable, FreeLsiVarHashTable, SmcLsiRaidOOB_InitialFunc,
       SmcLsiRaidOOB_CollectInformation_Form, SmcLsiHookBrowser2Protocol,
       SmcLsiCallbackAccessMenu, InitialItemsQIdTable,
       SmcLsiRaidOOB_CollectInformation_ChRec, SmcLsiSetSmcLsiVariableTable,
       SmcLsiCreateSmcRaidVarAndItems
<1>4. CASE CheckChangeableItemsInChangedVar \/ ChangedVarToOOBVarBuffer
           \/ AccessRAIDRecordtoChangeSetting \/ HandleRaidCfgCmdString
  BY <1>4 DEF CheckChangeableItemsInChangedVar, ChangedVarToOOBVarBuffer,
       AccessRAIDRecordtoChangeSetting, HandleRaidCfgCmdString
<1>5. CASE FunctionFails \/ HookFails \/ SetVariableTableFails
  <2>1. pc' = "update" /\ UNCHANGED <<iter, exported>>
    BY <1>5 DEF FunctionFails, HookFails, SetVariableTableFails
  <2>2. pc = "down"
    <3>1. CASE FunctionFails \/ SetVariableTableFails
      BY <3>1, FailsAt DEF FunctionFails, SetVariableTableFails, IInv
    <3>2. CASE HookFails
      BY <3>2 DEF HookFails, IInv, ProcessInv, BrowserInv
    <3> QED
      BY <1>5, <3>1, <3>2
  <2> QED
    BY <2>1, <2>2
<1> QED
  BY <1>1, <1>2, <1>3, <1>4, <1>5 DEF Driver

\* ParseNvData exports the first variable of the list with the value of its card.
LEMMA ParseExports ==
  ASSUME TypeOK, WalkInv, SmcLsiRaidLib_ParseNvData
  PROVE  WalkInv'
<1> DEFINE S == Card \X SetupVar
           R == [card : Card, var : SetupVar, data : Value]
           L == Walk.list
           N == Walk.next
           v == Head(L)
           e == [card |-> v[1], var |-> v[2], data |-> buffer[v[1]][v[2]]]
<1>1. /\ pc = "combine" /\ Process = "download" /\ L # <<>>
      /\ exported' = Append(exported, e) /\ iter' = [renew |-> 0, left |-> Tail(L)] /\ curr' = N
      /\ UNCHANGED <<pc, Process, stores, buffer, setupVars, setting, atStart, bad>>
  BY DEF SmcLsiRaidLib_ParseNvData, driverVars, cardVars
<1>2. /\ Pairs \o L = Upto[IF N = 0 THEN Cards ELSE N - 1]
      /\ \A n \in 1..Len(L) : setupVars[L[n][1]] # <<>>
  BY <1>1, WalkIs
<1>3. L \in Seq(S)
  BY WalkType
<1> HIDE DEF L, N
<1>4. /\ v \in S /\ v = L[1] /\ Tail(L) \in Seq(S) /\ Len(L) \in Nat /\ Len(L) # 0
      /\ Len(Tail(L)) = Len(L) - 1 /\ \A n \in 1..(Len(L) - 1) : Tail(L)[n] = L[n + 1]
  <2>1. Len(L) \in Nat /\ Len(L) # 0
    BY <1>1, <1>3, EmptySeq
  <2> QED
    BY <1>1, <1>3, <2>1
<1> HIDE DEF v
<1>5. e \in R
  BY <1>4 DEF TypeOK, Buffer
<1>6. exported \in Seq(R) /\ Len(exported) \in Nat
  BY DEF TypeOK
<1>7. /\ Len(exported') = Len(exported) + 1
      /\ \A n \in 1..Len(exported') : exported'[n] = IF n = Len(exported) + 1 THEN e ELSE exported[n]
  <2> HIDE DEF R, e
  <2> QED
    BY <1>1, <1>5, <1>6
<1>8. Pairs \in Seq(S) /\ Len(Pairs) = Len(exported)
  <2>1. ASSUME NEW n \in 1..Len(exported) PROVE <<exported[n].card, exported[n].var>> \in S
    <3>1. exported[n] \in R
      <4> HIDE DEF R
      <4> QED BY <1>6
    <3> QED
      BY <3>1
  <2> HIDE DEF S, R
  <2> QED
    BY <1>6, <2>1 DEF Pairs
<1>9. Pairs' = Append(Pairs, v)
  <2> DEFINE p == [n \in 1..(Len(exported) + 1) |-> IF n = Len(exported) + 1 THEN v ELSE Pairs[n]]
  <2>1. Append(Pairs, v) = p
    <3> HIDE DEF S
    <3>1. /\ Append(Pairs, v) \in Seq(S) /\ Len(Append(Pairs, v)) = Len(exported) + 1
          /\ \A n \in 1..(Len(exported) + 1) :
               Append(Pairs, v)[n] = IF n = Len(exported) + 1 THEN v ELSE Pairs[n]
      BY <1>4, <1>6, <1>8
    <3>2. \A n \in 1..(Len(exported) + 1) :
            (IF n = Len(exported) + 1 THEN v ELSE Pairs[n]) \in S
      <4>1. \A n \in 1..(Len(exported) + 1) : n # Len(exported) + 1 => n \in 1..Len(exported)
        BY <1>6
      <4> QED
        BY <1>4, <1>8, <4>1
    <3>3. p \in Seq(S) /\ Len(p) = Len(exported) + 1
      BY <1>6, <3>2
    <3> QED
      BY <3>1, <3>3, SeqEqual
  <2>2. Pairs' = [n \in 1..(Len(exported) + 1) |-> <<exported'[n].card, exported'[n].var>>]
    BY <1>7 DEF Pairs
  <2>3. ASSUME NEW n \in 1..(Len(exported) + 1)
        PROVE  <<exported'[n].card, exported'[n].var>> = p[n]
    <3>1. CASE n = Len(exported) + 1
      <4>1. exported'[n] = e
        BY <1>7, <3>1
      <4>2. <<e.card, e.var>> = v
        BY <1>4
      <4> QED
        BY <3>1, <4>1, <4>2
    <3>2. CASE n # Len(exported) + 1
      <4>1. n \in 1..Len(exported)
        BY <1>6, <3>2
      <4>2. exported'[n] = exported[n]
        BY <1>7, <3>2
      <4>3. Pairs[n] = <<exported[n].card, exported[n].var>>
        BY <4>1 DEF Pairs
      <4> QED
        BY <3>2, <4>2, <4>3
    <3> QED
      BY <3>1, <3>2
  <2> QED
    BY <2>1, <2>2, <2>3
<1>10. Pairs' \o iter'.left = Pairs \o L
  <2>1. iter'.left = Tail(L)
    BY <1>1
  <2> HIDE DEF S
  <2>2. Append(Pairs, Head(L)) \o Tail(L) = Pairs \o L
    BY <1>1, <1>3, <1>8, MovePair
  <2> QED
    BY <1>9, <2>1, <2>2 DEF v
<1>11. Pairs' \o iter'.left = Upto[Behind']
  <2>1. Behind' = IF N = 0 THEN Cards ELSE N - 1
    BY <1>1 DEF Behind
  <2> QED
    BY <1>2, <1>10, <2>1
<1>12. \A n \in 1..Len(iter'.left) : setupVars'[iter'.left[n][1]] # <<>>
  <2>1. ASSUME NEW n \in 1..Len(Tail(L)) PROVE setupVars[Tail(L)[n][1]] # <<>>
    <3>1. n + 1 \in 1..Len(L) /\ Tail(L)[n] = L[n + 1]
      BY <1>4
    <3> QED
      BY <1>2, <3>1
  <2> QED
    BY <1>1, <2>1
<1>13. setting = atStart /\ (\A c \in Card : Ready(c)) /\ ExportedData
  BY <1>1 DEF WalkInv
<1>14. (setting = atStart)' /\ (\A c \in Card : Ready(c))'
  BY <1>1, <1>13 DEF Ready
<1>15. ExportedData'
  <2>1. v[1] \notin bad =>
          buffer[v[1]][v[2]] = IF v[2] = CmdVar THEN NoCmd ELSE setting[v[1]][v[2]]
    <3>1. setupVars[v[1]] # <<>> /\ v[1] \in Card /\ v[2] \in SetupVar
      BY <1>2, <1>4
    <3>2. Ready(v[1])
      BY <1>13, <3>1
    <3> QED
      BY <1>13, <3>1, <3>2 DEF Ready, SetupVar
  <2>2. ASSUME NEW n \in 1..Len(exported'), exported'[n].card \notin bad
        PROVE  exported'[n].data = IF exported'[n].var = CmdVar THEN NoCmd
                                   ELSE setting[exported'[n].card][exported'[n].var]
    <3>1. CASE n = Len(exported) + 1
      <4>1. exported'[n] = e
        BY <1>7, <3>1
      <4> QED
        BY <2>1, <2>2, <4>1
    <3>2. CASE n # Len(exported) + 1
      <4>1. n \in 1..Len(exported) /\ exported'[n] = exported[n]
        BY <1>6, <1>7, <3>2
      <4> QED
        BY <1>13, <2>2, <4>1 DEF ExportedData
    <3> QED
      BY <3>1, <3>2
  <2> QED
    BY <1>1, <2>2 DEF ExportedData
<1>16. iter'.renew # 1
  BY <1>1
<1> QED
  BY <1>11, <1>12, <1>14, <1>15, <1>16 DEF WalkInv

\* Every step keeps the invariant of the export.
LEMMA ExportStep ==
  ASSUME TypeOK, IInv, DataInv, ExportInv, [Next]_vars
  PROVE  ExportInv'
<1>1. CASE SmcLsiRaidLib_ParseNvData
  <2>1. WalkInv' /\ pc' = "combine"
    BY <1>1, ParseExports DEF ExportInv, SmcLsiRaidLib_ParseNvData
  <2> QED
    BY <2>1 DEF ExportInv, ExportedOnce
<1>2. CASE ParseNvDataEnds
  <2>1. pc = "combine" /\ pc' = "load" /\ UNCHANGED <<Process, setting, exported, bad>>
    BY <1>2 DEF ParseNvDataEnds, driverVars, historyVars
  <2>2. ASSUME Process = "download"
        PROVE  Pairs = FlattenSeq(Lists) /\ ExportedData
    <3>1. Walk.list = <<>> /\ WalkInv
      BY <1>2, <2>2 DEF ParseNvDataEnds, ExportInv
    <3>2. Pairs = Upto[Cards]
      BY <2>1, <2>2, <3>1, WalkIs
    <3>3. FlattenSeq(Lists) = Upto[Cards]
      BY UptoIs
    <3> QED
      BY <2>1, <2>2, <3>1, <3>2, <3>3 DEF WalkInv
  <2>3. ExportedOnce'
    <3> SUFFICES ASSUME Process = "download" PROVE
          /\ [n \in 1..Len(exported) |-> <<exported[n].card, exported[n].var>>] = FlattenSeq(Lists)
          /\ ExportedData
      BY <2>1, Zenon DEF ExportedOnce, ExportedData, Lists
    <3> QED
      BY <2>2 DEF Pairs
  <2> QED
    BY <2>1, <2>3 DEF ExportInv, WalkInv
<1>3. CASE NoFile
  <2>1. /\ pc = "update" /\ pc' = "combine"
        /\ UNCHANGED <<Process, stores, buffer, setupVars, setting, atStart, bad, iter, exported>>
    BY <1>3 DEF NoFile, driverVars, cardVars, historyVars
  <2>2. iter = [renew |-> 1, left |-> <<>>] /\ exported = <<>>
    BY <2>1 DEF ExportInv
  <2>3. Process = "download" => setting = atStart /\ \A c \in Card : Ready(c)
    BY <2>1 DEF DataInv, QuietInv, CollectInv
  <2>4. Behind' = 0 /\ Upto[0] = <<>> /\ iter'.left = <<>> /\ iter'.renew = 1 /\ exported' = <<>>
    BY <2>1, <2>2, UptoIs DEF Behind
  <2>5. Pairs' = <<>>
    BY <2>4 DEF Pairs
  <2>6. Pairs' \o iter'.left = Upto[Behind'] /\ Len(iter'.left) = 0
    BY <2>4, <2>5
  <2>7. ExportedData'
    BY <2>4 DEF ExportedData
  <2>8. Process = "download" => (setting = atStart /\ \A c \in Card : Ready(c))'
    BY <2>1, <2>3 DEF Ready
  <2>9. WalkInv'
    BY <2>1, <2>4, <2>6, <2>7, <2>8 DEF WalkInv
  <2> QED
    BY <2>1, <2>9 DEF ExportInv, ExportedOnce
<1>4. ASSUME NEW f \in Files \cup {<<>>}, SmcLsiRaidOOBSetupEntry(f) PROVE ExportInv'
  BY <1>4 DEF SmcLsiRaidOOBSetupEntry, ExportInv, WalkInv, ExportedOnce
<1>5. CASE UNCHANGED vars
  <2>1. UNCHANGED <<pc, Process, iter, exported, curr, setting, atStart, bad>>
    BY <1>5 DEF vars, driverVars, loopVars, historyVars
  <2>2. UNCHANGED <<setupVars, stores, buffer>>
    BY <1>5 DEF vars, cardVars
  <2>3. ExportedOnce'
    BY <2>1, Zenon DEF ExportInv, ExportedOnce
  <2>4. WalkInv'
    <3>1. UNCHANGED <<Pairs, Behind>> /\ (ExportedData => ExportedData')
      BY <2>1 DEF Pairs, Behind, ExportedData
    <3>2. (\A c \in Card : Ready(c)) => (\A c \in Card : Ready(c))'
      BY <2>1, <2>2 DEF Ready
    <3> QED
      BY <2>1, <2>2, <3>1, <3>2 DEF ExportInv, WalkInv
  <2> QED
    BY <2>1, <2>3, <2>4 DEF ExportInv
<1>6. CASE Driver /\ ~NoFile /\ ~SmcLsiRaidLib_ParseNvData /\ ~ParseNvDataEnds
  BY <1>6, ExportKeeps DEF ExportInv, WalkInv, ExportedOnce
<1> QED
  BY <1>1, <1>2, <1>3, <1>4, <1>5, <1>6 DEF Next

\* CombineBiosCfg gets every set-up variable of every card once, in order, with the
\* value of its card and without commands, for any number of cards and variables.
THEOREM ExportsOnce == Spec => []ExportedOnce
<1>1. Init => ExportInv
  BY DEF Init, ExportInv, WalkInv, ExportedOnce
<1>2. ExportInv => ExportedOnce
  BY DEF ExportInv
<1> QED
  BY <1>1, <1>2, Invariance, TypeCorrect, DataInvariance, ExportStep, PTL DEF Spec

-----------------------------------------------------------------------------
(* The loops over cards, functions, records and variables.                 *)

\* What the POST has left to do: the calls of the in-band driver, the cards of the
\* walk at hand, and the functions, records or variables before the next card.
CallsLeft ==
  CASE pc = "start" -> 6 [] pc = "down" -> 5 [] pc = "update" -> 4 [] pc = "change" -> 3
    [] pc = "combine" -> 2 [] pc = "load" -> 1 [] OTHER -> 0
CardsLeft ==
  IF pc = "combine" /\ iter.renew = 1 THEN Cards + 1
  ELSE IF pc \in {"down", "change", "combine"} /\ curr # 0 THEN Cards + 1 - curr ELSE 0
ItemsLeft ==
  CASE pc \in {"down", "change"} -> Len(Table) + 1 - fn
    [] pc = "update"  -> Len(file) + 1 - i
    [] pc = "combine" -> Len(iter.left)
    [] OTHER -> 0

Left == <<CallsLeft, CardsLeft, ItemsLeft>>

\* Download, HandleData and ParseNvData walk over the cards with the same global pointer,
\* and ParseNvData also keeps a flag and a place in a list between its calls. Every step
\* of the driver leaves less to do, whatever fails: of the numbers that are left, all of
\* them naturals, the first that changes is smaller.
LessLeft ==
  [][Driver => \E n \in 1..3 : /\ Left'[n] < Left[n] /\ \A m \in 1..3 : Left'[m] \in Nat
                               /\ \A m \in 1..(n - 1) : Left'[m] = Left[m]]_vars

\* The loop over the records does not pass the end of the file.
RecordInv == pc = "update" => i <= Len(file) + 1

\* The first number that changes is smaller.
Less ==
  \/ CallsLeft' < CallsLeft
  \/ CallsLeft' = CallsLeft /\ CardsLeft' < CardsLeft
  \/ CallsLeft' = CallsLeft /\ CardsLeft' = CardsLeft /\ ItemsLeft' < ItemsLeft

\* What is left to do is counted by naturals.
LEMMA LeftType ==
  ASSUME TypeOK, LoopInv, RecordInv
  PROVE  CallsLeft \in Nat /\ CardsLeft \in Nat /\ ItemsLeft \in Nat
<1>1. CallsLeft \in Nat
  BY DEF CallsLeft
<1>2. Cards \in Nat /\ curr \in 0..Cards
  BY RaidDriverAssumption DEF TypeOK
<1>3. CardsLeft \in Nat
  BY <1>2 DEF CardsLeft
<1>4. ASSUME pc \in {"down", "change"} PROVE ItemsLeft \in Nat
  <2>1. ItemsLeft = Len(Table) + 1 - fn
    BY <1>4 DEF ItemsLeft
  <2>2. Len(Table) = IF pc = "down" THEN 12 ELSE 9
    BY Tables DEF Table
  <2>3. fn \in 1..(IF pc = "down" THEN 12 ELSE 9)
    BY <1>4 DEF LoopInv
  <2> QED
    BY <2>1, <2>2, <2>3
<1>5. ASSUME pc = "update" PROVE ItemsLeft \in Nat
  <2>1. ItemsLeft = Len(file) + 1 - i
    BY <1>5 DEF ItemsLeft
  <2>2. i \in Nat /\ i <= Len(file) + 1
    BY <1>5 DEF TypeOK, RecordInv
  <2> QED
    BY <2>1, <2>2, FileType
<1>6. ASSUME pc = "combine" PROVE ItemsLeft \in Nat
  <2>1. ItemsLeft = Len(iter.left)
    BY <1>6 DEF ItemsLeft
  <2>2. iter.left \in Seq(Card \X SetupVar)
    BY DEF TypeOK
  <2> QED
    BY <2>1, <2>2, LenProperties
<1>7. ASSUME pc \notin {"down", "change", "update", "combine"} PROVE ItemsLeft \in Nat
  BY <1>7 DEF ItemsLeft
<1> QED
  BY <1>1, <1>3, <1>4, <1>5, <1>6, <1>7

\* The step is the next function of a table.
NextFunction == pc \in {"down", "change"} /\ curr # 0 /\ Advance /\ UNCHANGED <<file, i>>

\* The step ends a call of the in-band driver; records are collected behind Download.
NextCall ==
  CallsLeft' < CallsLeft /\ (pc' = "update" => pc \in {"start", "down"}) /\ UNCHANGED <<file, i>>

\* Every step of the driver is one of these, or one turn of the loops over the records
\* and the variables.
LEMMA StepIs ==
  ASSUME IInv, Driver
  PROVE  NextFunction \/ NextCall \/ SmcLsiRaidLib_CollectData \/ SmcLsiRaidLib_ParseNvData
<1>1. CASE \/ InitialLsiVarHashTable \/ FreeLsiVarHashTable \/ SmcLsiRaidOOB_InitialFunc
           \/ SmcLsiRaidOOB_CollectInformation_Form \/ SmcLsiHookBrowser2Protocol
           \/ SmcLsiCallbackAccessMenu \/ InitialItemsQIdTable
  BY <1>1, Zenon DEF InitialLsiVarHashTable, FreeLsiVarHashTable, SmcLsiRaidOOB_InitialFunc,
     SmcLsiRaidOOB_CollectInformation_Form, SmcLsiHookBrowser2Protocol,
     SmcLsiCallbackAccessMenu, InitialItemsQIdTable, NextFunction, At, fileVars
<1>2. CASE \/ SmcLsiRaidOOB_CollectInformation_ChRec \/ SmcLsiSetSmcLsiVariableTable
           \/ SmcLsiCreateSmcRaidVarAndItems \/ CheckChangeableItemsInChangedVar
           \/ ChangedVarToOOBVarBuffer \/ AccessRAIDRecordtoChangeSetting
           \/ HandleRaidCfgCmdString
  BY <1>2, Zenon DEF SmcLsiRaidOOB_CollectInformation_ChRec, SmcLsiSetSmcLsiVariableTable,
     SmcLsiCreateSmcRaidVarAndItems, CheckChangeableItemsInChangedVar,
     ChangedVarToOOBVarBuffer, AccessRAIDRecordtoChangeSetting, HandleRaidCfgCmdString,
     NextFunction, At, fileVars
<1>3. CASE StartLoadError \/ StartInstallFails \/ SmcLsiOOBSetupDriverStart
  <2>1. pc = "start" /\ pc' \in {"update", "down"} /\ UNCHANGED <<file, i>>
    BY <1>3 DEF StartLoadError, StartInstallFails, SmcLsiOOBSetupDriverStart, fileVars
  <2> QED
    BY <2>1 DEF NextCall, CallsLeft
<1>4. CASE FunctionFails \/ HookFails \/ SetVariableTableFails \/ SmcLsiOOBSetupDriverDownload
  <2>1. pc' = "update" /\ UNCHANGED <<file, i>>
    BY <1>4 DEF FunctionFails, HookFails, SetVariableTableFails, SmcLsiOOBSetupDriverDownload,
                FuncFails, fileVars
  <2>2. pc = "down"
    <3>1. CASE FunctionFails \/ SetVariableTableFails
      BY <3>1, FailsAt DEF FunctionFails, SetVariableTableFails, IInv
    <3>2. CASE HookFails
      BY <3>2 DEF HookFails, At, IInv, ProcessInv, BrowserInv
    <3>3. CASE SmcLsiOOBSetupDriverDownload
      BY <3>3 DEF SmcLsiOOBSetupDriverDownload
    <3> QED
      BY <1>4, <3>1, <3>2, <3>3
  <2> QED
    BY <2>1, <2>2 DEF NextCall, CallsLeft
<1>5. CASE NoFile \/ HandleDataStart \/ HandleNothing \/ SmcLsiRaidLib_HandleData
  <2>1. /\ (pc = "update" /\ pc' \in {"combine", "change", "reset"}) \/ (pc = "change" /\ pc' = "reset")
        /\ UNCHANGED <<file, i>>
    BY <1>5 DEF NoFile, HandleDataStart, HandleNothing, SmcLsiRaidLib_HandleData, fileVars
  <2> QED
    BY <2>1 DEF NextCall, CallsLeft
<1>6. CASE ParseNvDataEnds \/ SmcLsiOOBSetupDriverLoadResource
  <2>1. /\ (pc = "combine" /\ pc' = "load") \/ (pc = "load" /\ pc' = "os")
        /\ UNCHANGED <<file, i>>
    BY <1>6 DEF ParseNvDataEnds, SmcLsiOOBSetupDriverLoadResource, fileVars
  <2> QED
    BY <2>1 DEF NextCall, CallsLeft
<1> QED
  BY <1>1, <1>2, <1>3, <1>4, <1>5, <1>6 DEF Driver

\* Every step keeps the loop over the records within the file.
LEMMA RecordStep ==
  ASSUME TypeOK, IInv, QuietInv, RecordInv, [Next]_vars
  PROVE  RecordInv'
<1>1. Len(file) \in Nat /\ i \in Nat
  BY FileType DEF TypeOK
<1>2. CASE SmcLsiRaidLib_CollectData
  <2>1. i <= Len(file) /\ i' = i + 1 /\ file' = file
    BY <1>2 DEF SmcLsiRaidLib_CollectData
  <2> QED
    BY <1>1, <2>1 DEF RecordInv
<1>3. CASE (\E f \in Files \cup {<<>>} : SmcLsiRaidOOBSetupEntry(f)) \/ SmcLsiRaidLib_ParseNvData
  <2>1. pc' # "update"
    BY <1>3 DEF SmcLsiRaidOOBSetupEntry, SmcLsiRaidLib_ParseNvData
  <2> QED
    BY <2>1 DEF RecordInv
<1>4. CASE NextFunction \/ NextCall \/ UNCHANGED vars
  <2>1. UNCHANGED <<file, i>> /\ (pc' = "update" => pc \in {"start", "down", "update"})
    BY <1>4 DEF NextFunction, NextCall, Advance, vars, fileVars
  <2>2. pc \in {"start", "down"} => i <= Len(file) + 1
    BY <1>1 DEF QuietInv
  <2> QED
    BY <2>1, <2>2 DEF RecordInv
<1> QED
  BY <1>2, <1>3, <1>4, StepIs DEF Next

\* The next function of a table: it is one of the same card, or the first of the next.
LEMMA FunctionLess ==
  ASSUME TypeOK, IInv, NextFunction
  PROVE  Less
<1>1. /\ pc \in {"down", "change"} /\ pc' = pc /\ curr # 0 /\ CallsLeft' = CallsLeft
      /\ Cards \in Nat /\ curr \in 1..Cards /\ NextCard \in 0..Cards /\ NextCard # curr
      /\ NextCard = 0 \/ NextCard = curr + 1
  BY RaidDriverAssumption DEF NextFunction, Advance, TypeOK, NextCard, CallsLeft
<1> DEFINE L == IF pc = "down" THEN 12 ELSE 9
<1>2. Len(Table) = L /\ Len(Table') = L
  BY <1>1, Tables DEF Table
<1>3. fn \in 1..L /\ fn' = (IF fn < L THEN fn + 1 ELSE 1) /\ curr' = (IF fn < L THEN curr ELSE NextCard)
  BY <1>1, AdvanceTo DEF NextFunction, IInv, LoopInv
<1>4. CardsLeft = Cards + 1 - curr /\ CardsLeft' = IF curr' # 0 THEN Cards + 1 - curr' ELSE 0
  BY <1>1 DEF CardsLeft
<1>5. CASE fn < L
  <2>1. ItemsLeft = L + 1 - fn /\ ItemsLeft' = L + 1 - fn'
    BY <1>1, <1>2 DEF ItemsLeft
  <2>2. ItemsLeft' < ItemsLeft /\ CardsLeft' = CardsLeft
    BY <1>1, <1>3, <1>4, <1>5, <2>1
  <2> QED
    BY <1>1, <2>2 DEF Less
<1>6. CASE ~(fn < L)
  <2>1. CardsLeft' < CardsLeft
    BY <1>1, <1>3, <1>4, <1>6
  <2> QED
    BY <1>1, <2>1 DEF Less
<1> QED
  BY <1>5, <1>6

\* One record of the file less.
LEMMA RecordLess ==
  ASSUME TypeOK, SmcLsiRaidLib_CollectData
  PROVE  Less
<1>1. pc = "update" /\ pc' = pc /\ file' = file /\ i' = i + 1
  BY DEF SmcLsiRaidLib_CollectData
<1>2. Len(file) \in Nat /\ i \in Nat
  BY FileType DEF TypeOK
<1>3. CallsLeft' = CallsLeft /\ CardsLeft' = CardsLeft
  BY <1>1 DEF CallsLeft, CardsLeft
<1>4. ItemsLeft = Len(file) + 1 - i /\ ItemsLeft' = Len(file) + 1 - (i + 1)
  BY <1>1 DEF ItemsLeft
<1>5. ItemsLeft' < ItemsLeft
  BY <1>2, <1>4
<1> QED
  BY <1>3, <1>5 DEF Less

\* The walk over the cards goes on behind the card whose list it has taken up.
LEMMA NextListBehind ==
  ASSUME TypeOK, NEW c \in Card
  PROVE  NextList(c).next = 0 \/ (NextList(c).next \in Card /\ c < NextList(c).next)
<1> DEFINE full == {d \in Card : d >= c /\ setupVars[d] # <<>>}
           m == CHOOSE d \in full : \A e \in full : d <= e
           l == [n \in 1..Len(setupVars[m]) |-> <<m, setupVars[m][n]>>]
<1>1. Cards \in Nat /\ c \in 1..Cards
  BY RaidDriverAssumption DEF Card
<1>2. CASE full = {}
  <2>1. NextList(c) = [list |-> <<>>, next |-> 0]
    BY <1>2 DEF NextList
  <2> QED
    BY <2>1
<1>3. CASE full # {}
  <2>1. full \in SUBSET Nat
    BY <1>1 DEF Card
  <2>2. Min(full) \in full /\ \A e \in full : Min(full) <= e
    BY <1>3, <2>1, MinIn
  <2>3. m \in full
    BY <2>2
  <2>4. NextList(c) = [list |-> l, next |-> IF m < Cards THEN m + 1 ELSE 0]
    BY <1>3 DEF NextList
  <2>5. m \in 1..Cards /\ m >= c
    BY <2>3 DEF Card
  <2> HIDE DEF m, l
  <2>6. NextList(c).next = IF m < Cards THEN m + 1 ELSE 0
    BY <2>4
  <2> QED
    BY <1>1, <2>5, <2>6 DEF Card
<1> QED
  BY <1>2, <1>3

\* One variable of the list at hand less, or the list of a later card.
LEMMA VariableLess ==
  ASSUME TypeOK, SmcLsiRaidLib_ParseNvData
  PROVE  Less
<1>1. /\ pc = "combine" /\ pc' = pc /\ Walk.list # <<>>
      /\ iter' = [renew |-> 0, left |-> Tail(Walk.list)] /\ curr' = Walk.next
  BY DEF SmcLsiRaidLib_ParseNvData
<1>2. /\ Cards \in Nat /\ Cards # 0 /\ curr \in 0..Cards /\ iter.renew \in {0, 1}
      /\ iter.left \in Seq(Card \X SetupVar)
  BY RaidDriverAssumption DEF TypeOK
<1>3. iter'.renew = 0 /\ iter'.left = Tail(Walk.list)
  BY <1>1
<1>4. CallsLeft' = CallsLeft
  BY <1>1 DEF CallsLeft
<1>5. /\ CardsLeft = IF iter.renew = 1 THEN Cards + 1 ELSE IF curr # 0 THEN Cards + 1 - curr ELSE 0
      /\ CardsLeft' = IF curr' # 0 THEN Cards + 1 - curr' ELSE 0
  BY <1>1, <1>3 DEF CardsLeft
<1>6. CASE iter.renew = 0 /\ iter.left # <<>>
  <2>1. Walk = [list |-> iter.left, next |-> curr]
    BY <1>6 DEF Walk
  <2>2. Walk.list = iter.left /\ Walk.next = curr
    BY <2>1
  <2>3. CardsLeft' = CardsLeft
    BY <1>1, <1>5, <1>6, <2>2
  <2>4. ItemsLeft = Len(iter.left) /\ ItemsLeft' = Len(Tail(iter.left))
    BY <1>1, <1>3, <2>2 DEF ItemsLeft
  <2>5. ItemsLeft' < ItemsLeft
    BY <1>2, <1>6, <2>4, HeadTailProperties, LenProperties
  <2> QED
    BY <1>4, <2>3, <2>5 DEF Less
<1>7. CASE ~(iter.renew = 0 /\ iter.left # <<>>)
  <2> DEFINE from == IF iter.renew = 1 THEN 1 ELSE curr
  <2>1. Walk = IF from = 0 THEN [list |-> <<>>, next |-> 0] ELSE NextList(from)
    BY <1>7 DEF Walk
  <2>2. from # 0
    <3> SUFFICES ASSUME from = 0 PROVE FALSE
      OBVIOUS
    <3>1. Walk = [list |-> <<>>, next |-> 0]
      BY <2>1
    <3> QED
      BY <1>1, <3>1
  <2>3. from \in Card /\ Walk = NextList(from)
    BY <1>2, <2>1, <2>2 DEF Card
  <2>4. CardsLeft = IF iter.renew = 1 THEN Cards + 1 ELSE Cards + 1 - from
    BY <1>2, <1>5, <2>2
  <2>5. iter.renew = 1 => from = 1
    OBVIOUS
  <2> HIDE DEF from
  <2>6. curr' = 0 \/ (curr' \in Card /\ from < curr')
    BY <1>1, <2>3, NextListBehind
  <2>7. CardsLeft' < CardsLeft
    BY <1>2, <1>5, <2>3, <2>4, <2>6 DEF Card
  <2> QED
    BY <1>4, <2>7 DEF Less
<1> QED
  BY <1>6, <1>7

\* Every step of the driver leaves less to do, whatever fails, for any number of cards,
\* variables and files: the loops over the cards and the walk over the variables cannot
\* run forever.
THEOREM LoopsEnd == Spec => LessLeft
<1> DEFINE Lower == \E n \in 1..3 : /\ Left'[n] < Left[n] /\ \A m \in 1..3 : Left'[m] \in Nat
                                    /\ \A m \in 1..(n - 1) : Left'[m] = Left[m]
           Inv     == TypeOK /\ IInv /\ RecordInv
           Numbers == CallsLeft \in Nat /\ CardsLeft \in Nat /\ ItemsLeft \in Nat
<1>1. Spec => []RecordInv
  <2>1. Init => RecordInv
    BY DEF Init, RecordInv
  <2>2. DataInv => QuietInv
    BY DEF DataInv
  <2> QED
    BY <2>1, <2>2, RecordStep, TypeCorrect, Invariance, DataInvariance, PTL DEF Spec
<1>2. Inv => Numbers
  BY LeftType DEF IInv
<1>3. Inv' => Numbers'
  BY <1>2, PTL
<1>4. Inv /\ Inv' /\ [Next]_vars => [Driver => Lower]_vars
  <2> SUFFICES ASSUME Inv, Inv', Driver PROVE Lower
    OBVIOUS
  <2>1. Less
    <3>1. CASE NextCall
      BY <3>1 DEF NextCall, Less
    <3> QED
      BY <3>1, StepIs, FunctionLess, RecordLess, VariableLess
  <2>2. /\ Left[1] = CallsLeft /\ Left[2] = CardsLeft /\ Left[3] = ItemsLeft
        /\ Left'[1] = CallsLeft' /\ Left'[2] = CardsLeft' /\ Left'[3] = ItemsLeft'
    BY DEF Left
  <2>3. \A m \in 1..3 : Left'[m] \in Nat
    BY <1>3, <2>2
  <2>4. \E n \in 1..3 : Left'[n] < Left[n] /\ \A m \in 1..(n - 1) : Left'[m] = Left[m]
    BY <2>1, <2>2 DEF Less
  <2> QED
    BY <2>3, <2>4
<1> QED
  BY <1>1, <1>4, TypeCorrect, Invariance, PTL DEF Spec, LessLeft
=============================================================================
