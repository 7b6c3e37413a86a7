----------------------------- MODULE RaidDriver -----------------------------
(***************************************************************************)
(* SmcLsiRaidOOB: one POST of the driver that reads the set-up menus of    *)
(* the LSI RAID cards, exports their settings as variables, and applies    *)
(* the variables of a BIOS configuration file to the cards. The functions  *)
(* of a table run for one card after the other. A card answers through the *)
(* call-back of the form browser, which is hooked while the driver talks   *)
(* to it; the hook finds a variable by its name in the current hash table, *)
(* and the cards use the same names. RaidCommands is what one card does    *)
(* with its commands.                                                      *)
(***************************************************************************)
EXTENDS Naturals, Sequences, SequencesExt

CONSTANTS
  Cards,          \* the number of cards in the HII database
  LsiVar,         \* names of the variable stores of a card's menu
  CmdVar,         \* the variable for the RAID commands of a card
  VarsOf,         \* the variable stores with items of each card, in order
  Applied,        \* the stores whose form has an item that applies it
  Value,          \* contents of a variable
  Zero,           \* the content of a buffer that was never filled
  NoCmd,          \* the content "{}" of a command variable
  Misfit,         \* a content of another size
  Files,          \* BIOS configuration files: sequences of records
  MaxPost,        \* bound: POSTs
  MaxFault        \* bound: functions and call-backs that fail

Card == 1..Cards

SetupVar == LsiVar \cup {CmdVar}

Record == [card : Card, var : SetupVar, data : Value \cup {Misfit}]

ASSUME RaidDriverAssumption ==
  /\ Cards \in Nat \ {0}
  /\ VarsOf \in [Card -> Seq(LsiVar)]
  /\ \A c \in Card : \A m, n \in 1..Len(VarsOf[c]) :
       VarsOf[c][m] = VarsOf[c][n] => m = n
  /\ Applied \subseteq LsiVar /\ CmdVar \notin LsiVar
  /\ Zero \in Value /\ NoCmd \in Value /\ Misfit \notin Value
  /\ Files \subseteq Seq(Record)

ASSUME RaidDriverBoundsAssumption == MaxPost \in Nat /\ MaxFault \in Nat

VARIABLES
  pc,               \* what SmcInBandCallback or SmcInBandReadyToBoot does
  Process,          \* how far the driver has come
  SmcLsiHaveNvData, \* 1 when a variable was collected
  Browser2,         \* 1 once the form browser was located
  hooked,           \* 1 while BrowserCallback is the driver's
  curr,             \* SmcLsiCurrHiiHandleTable: the card at hand, 0 for NULL
  fn,               \* RaidIndex: the next function of the table
  hash,             \* the card whose hash tables are the current ones
  stores,           \* the variable stores in the hash tables of each card
  buffer,           \* their contents; the set-up variable shares the buffer
  setupVars,        \* RaidSetupVarSet of each card
  changed,          \* RaidChangedVarSet of each card
  accessed,         \* the stores of each card whose form is to be accessed
  iter,             \* ParseNvData: ReNewVar, and the list at SmcLsiVarTable
  file, i,          \* the file of this POST, the record at hand
  setting,          \* the settings of the cards themselves
  atStart,          \* history: the settings at the start of the POST
  exported,         \* history: what CombineBiosCfg has exported
  handled,          \* history: the commands that each card has handled
  bad,              \* history: the cards with a problem in this POST
  posts, faults     \* history: the POSTs; the failures

driverVars == <<Process, SmcLsiHaveNvData, Browser2, hooked>>
loopVars   == <<curr, fn, hash>>
cardVars   == <<stores, buffer, setupVars, changed, accessed>>
fileVars   == <<file, i>>
historyVars == <<atStart, exported, handled, bad, posts, faults>>
vars == <<pc, driverVars, loopVars, cardVars, iter, fileVars, setting, historyVars>>

\* mSmcLsiInsideDownFunc, without the function that only prints.
DownFunc ==
  <<"InitialLsiVarHashTable", "FreeLsiVarHashTable", "InitialFunc", "Form", "Hook",
    "AccessMenu", "ItemsQId", "Items", "ChRec", "SetVariableTable", "CreateVar", "Hook">>

\* Mutant of ChangeFunc: the hash tables stay those of the last card.
ChangeFuncNoInitial ==
  <<"Check", "ToBuffer", "Hook", "Access", "Hook", "Hook", "Commands", "Hook">>

\* mSmcLsiInsideChangeFunc. "Commands" is ParseRaidCfgCmdString to
\* HandleRaidCfgCmdString, of which only the last talks to the card.
ChangeFunc ==
  <<"InitialLsiVarHashTable", "Check", "ToBuffer", "Hook", "Access", "Hook",
    "Hook", "Commands", "Hook">>

Table == IF pc = "down" THEN DownFunc ELSE ChangeFunc

Step == {"off", "start", "down", "update", "change", "combine", "load", "os", "reset"}

Setting == [Card -> [LsiVar -> Value]]

Buffer == [Card -> [SetupVar -> Value]]

TypeOK ==
  /\ pc \in Step
  /\ Process \in {"initial", "install", "download"}
  /\ SmcLsiHaveNvData \in {0, 1} /\ Browser2 \in {0, 1} /\ hooked \in {0, 1}
  /\ curr \in 0..Cards /\ hash \in 0..Cards
  /\ fn \in 1..Len(DownFunc)
  /\ stores \in [Card -> SUBSET LsiVar]
  /\ buffer \in Buffer
  /\ setupVars \in [Card -> Seq(SetupVar)]
  /\ changed \in [Card -> Seq([var : SetupVar, data : Value, updated : {0, 1}])]
  /\ accessed \in [Card -> SUBSET LsiVar]
  /\ iter \in [renew : {0, 1}, left : Seq(Card \X SetupVar)]
  /\ file \in Files \cup {<<>>} /\ i \in Nat \ {0}
  /\ setting \in Setting /\ atStart \in Setting
  /\ exported \in Seq([card : Card, var : SetupVar, data : Value])
  /\ handled \in [Card -> Value] /\ bad \subseteq Card
  /\ posts \in 0..MaxPost /\ faults \in 0..MaxFault

Blank(v) == [c \in Card |-> v]

Init ==
  /\ pc = "off" /\ file = <<>> /\ i = 1
  /\ Process = "initial" /\ SmcLsiHaveNvData = 0 /\ Browser2 = 0 /\ hooked = 0
  /\ curr = 0 /\ fn = 1 /\ hash = 0
  /\ stores = Blank({}) /\ buffer = Blank([x \in SetupVar |-> Zero])
  /\ setupVars = Blank(<<>>) /\ changed = Blank(<<>>) /\ accessed = Blank({})
  /\ iter = [renew |-> 1, left |-> <<>>]
  /\ setting \in {[c \in Card |-> [x \in LsiVar |-> v]] : v \in Value \ {Zero, NoCmd}}
  /\ atStart = setting
  /\ exported = <<>> /\ handled = Blank(NoCmd) /\ bad = {}
  /\ posts = 0 /\ faults = 0

\* The driver is loaded anew in each POST; the cards keep their settings.
SmcLsiRaidOOBSetupEntry(f) ==
  /\ pc \in {"off", "os", "reset"} /\ posts < MaxPost
  /\ pc' = "start" /\ file' = f /\ i' = 1
  /\ Process' = "initial" /\ SmcLsiHaveNvData' = 0 /\ Browser2' = 0 /\ hooked' = 0
  /\ curr' = 0 /\ fn' = 1 /\ hash' = 0
  /\ stores' = Blank({}) /\ buffer' = Blank([x \in SetupVar |-> Zero])
  /\ setupVars' = Blank(<<>>) /\ changed' = Blank(<<>>) /\ accessed' = Blank({})
  /\ iter' = [renew |-> 1, left |-> <<>>]
  /\ atStart' = setting
  /\ exported' = <<>> /\ handled' = Blank(NoCmd) /\ bad' = {}
  /\ posts' = posts + 1
  /\ UNCHANGED <<setting, faults>>

Fault == faults < MaxFault /\ faults' = faults + 1

-----------------------------------------------------------------------------
(* Start and Download.                                                     *)

\* No menu in the HII database is that of an LSI card.
StartLoadError ==
  /\ pc = "start"
  /\ Fault
  /\ pc' = "update"
  /\ UNCHANGED <<driverVars, loopVars, cardVars, iter, fileVars, setting,
                 atStart, exported, handled, bad, posts>>

\* Process is DRIVER_INSTALL although the protocol could not be installed;
\* SmcInBandCallback does not call Download then.
StartInstallFails ==
  /\ pc = "start"
  /\ Fault
  /\ Process' = "install"
  /\ pc' = "update"
  /\ UNCHANGED <<SmcLsiHaveNvData, Browser2, hooked, loopVars, cardVars, iter, fileVars,
                 setting, atStart, exported, handled, bad, posts>>

SmcLsiOOBSetupDriverStart ==
  /\ pc = "start"
  /\ Process' = "install" /\ SmcLsiHaveNvData' = 0
  /\ pc' = "down" /\ curr' = 1 /\ fn' = 1
  /\ UNCHANGED <<Browser2, hooked, hash, cardVars, iter, fileVars, setting, historyVars>>

At(f) == pc \in {"down", "change"} /\ curr # 0 /\ Table[fn] = f

\* Mutant of NextCard: the last card is left out.
NextCardButLast == IF curr < Cards - 1 THEN curr + 1 ELSE 0

\* Mutant of NextCard: the walk starts again.
NextCardWraps == IF curr < Cards THEN curr + 1 ELSE 1

NextCard == IF curr < Cards THEN curr + 1 ELSE 0

Advance ==
  /\ fn' = IF fn < Len(Table) THEN fn + 1 ELSE 1
  /\ curr' = IF fn < Len(Table) THEN curr ELSE NextCard
  /\ UNCHANGED pc

\* Download returns at the first error: Process stays DRIVER_INSTALL.
FuncFails ==
  /\ Fault
  /\ bad' = bad \cup {curr}
  /\ pc' = "update" /\ curr' = 0 /\ fn' = 1
  /\ UNCHANGED <<driverVars, hash, cardVars, iter, fileVars, setting,
                 atStart, exported, handled, posts>>

InitialLsiVarHashTable ==
  /\ At("InitialLsiVarHashTable")
  /\ hash' = curr
  /\ Advance
  /\ UNCHANGED <<driverVars, cardVars, iter, fileVars, setting, historyVars>>

FreeLsiVarHashTable ==
  /\ At("FreeLsiVarHashTable")
  /\ stores' = [stores EXCEPT ![hash] = {}]
  /\ Advance
  /\ UNCHANGED <<driverVars, hash, buffer, setupVars, changed, accessed, iter, fileVars,
                 setting, historyVars>>

\* The card's call-back protocol or its form package is not found, or the table
\* of question ids cannot be filled.
FunctionFails ==
  /\ At("InitialFunc") \/ At("Form") \/ At("ItemsQId") \/ At("Items") \/ At("ChRec")
  /\ FuncFails

SmcLsiRaidOOB_InitialFunc ==
  /\ At("InitialFunc")
  /\ Advance
  /\ UNCHANGED <<driverVars, hash, cardVars, iter, fileVars, setting, historyVars>>

\* The variable stores of the form package, with empty buffers. When a store
\* cannot be added the function returns EFI_SUCCESS: the rest is missing.
SmcLsiRaidOOB_CollectInformation_Form ==
  /\ At("Form")
  /\ \/ stores' = [stores EXCEPT ![hash] = LsiVar] /\ UNCHANGED <<bad, faults>>
     \/ /\ Fault /\ bad' = bad \cup {curr}
        /\ \E some \in SUBSET LsiVar \ {LsiVar} : stores' = [stores EXCEPT ![hash] = some]
  /\ Advance
  /\ UNCHANGED <<driverVars, hash, buffer, setupVars, changed, accessed, iter, fileVars,
                 setting, atStart, exported, handled, posts>>

\* The call-back of the browser and that of the driver change places.
SmcLsiHookBrowser2Protocol ==
  /\ At("Hook")
  /\ Browser2' = 1 /\ hooked' = 1 - hooked
  /\ Advance
  /\ UNCHANGED <<Process, SmcLsiHaveNvData, hash, cardVars, iter, fileVars, setting,
                 historyVars>>

\* Only the first call can fail: the browser is located once.
HookFails ==
  /\ At("Hook") /\ Browser2 = 0
  /\ FuncFails

\* A card that writes store x through the browser: the hook puts the value into
\* the buffer of that name in the current hash table.
CallbackWrites(x) == hooked = 1 /\ x \in stores[hash]

\* The driver opens every form; the card fills the stores. The status of the
\* call-backs is not looked at.
SmcLsiCallbackAccessMenu ==
  /\ At("AccessMenu")
  /\ \/ /\ buffer' = [buffer EXCEPT ![hash] =
                        [x \in SetupVar |-> IF x \in LsiVar /\ CallbackWrites(x)
                                           THEN setting[curr][x] ELSE @[x]]]
        /\ UNCHANGED <<bad, faults>>
     \/ Fault /\ bad' = bad \cup {curr} /\ UNCHANGED buffer
  /\ Advance
  /\ UNCHANGED <<driverVars, hash, stores, setupVars, changed, accessed, iter, fileVars,
                 setting, atStart, exported, handled, posts>>

InitialItemsQIdTable ==
  /\ At("ItemsQId") \/ At("Items")
  /\ Advance
  /\ UNCHANGED <<driverVars, hash, cardVars, iter, fileVars, setting, historyVars>>

\* The items that apply a form are looked up; none is to be accessed yet.
SmcLsiRaidOOB_CollectInformation_ChRec ==
  /\ At("ChRec")
  /\ accessed' = [accessed EXCEPT ![curr] = {}]
  /\ Advance
  /\ UNCHANGED <<driverVars, hash, stores, buffer, setupVars, changed, iter, fileVars,
                 setting, historyVars>>

\* One set-up variable for each store with items, named after the store and the
\* card. A missing store makes the function fail.
SmcLsiSetSmcLsiVariableTable ==
  /\ At("SetVariableTable")
  /\ \A n \in 1..Len(VarsOf[curr]) : VarsOf[curr][n] \in stores[hash]
  /\ setupVars' = [setupVars EXCEPT ![curr] = VarsOf[curr]]
  /\ Advance
  /\ UNCHANGED <<driverVars, hash, stores, buffer, changed, accessed, iter, fileVars,
                 setting, historyVars>>

SetVariableTableFails ==
  /\ At("SetVariableTable")
  /\ \E n \in 1..Len(VarsOf[curr]) : VarsOf[curr][n] \notin stores[hash]
  /\ pc' = "update" /\ curr' = 0 /\ fn' = 1
  /\ UNCHANGED <<driverVars, hash, cardVars, iter, fileVars, setting, historyVars>>

\* A card with set-up variables gets one for its commands, which are all "{}".
SmcLsiCreateSmcRaidVarAndItems ==
  /\ At("CreateVar")
  /\ IF setupVars[curr] = <<>> THEN UNCHANGED <<setupVars, buffer>>
     ELSE /\ setupVars' = [setupVars EXCEPT ![curr] = Append(@, CmdVar)]
          /\ buffer' = [buffer EXCEPT ![hash][CmdVar] = NoCmd]
  /\ Advance
  /\ UNCHANGED <<driverVars, hash, stores, changed, accessed, iter, fileVars, setting,
                 historyVars>>

SmcLsiOOBSetupDriverDownload ==
  /\ pc = "down" /\ curr = 0
  /\ Process' = "download"
  /\ pc' = "update"
  /\ UNCHANGED <<SmcLsiHaveNvData, Browser2, hooked, loopVars, cardVars, iter, fileVars,
                 setting, historyVars>>

-----------------------------------------------------------------------------
(* UpdateBiosCfgToSystem: CollectData and HandleDataStart.                 *)

\* Mutant of Collectable: the size is not compared.
CollectableAnySize(r) ==
  /\ Process = "download"
  /\ r.var \in ToSet(setupVars[r.card])

\* The variable is one of the set-up variables of a card, and has its size.
Collectable(r) ==
  /\ Process = "download"
  /\ r.var \in ToSet(setupVars[r.card]) /\ r.data # Misfit

SmcLsiRaidLib_CollectData ==
  /\ pc = "update" /\ i <= Len(file)
  /\ LET r == file[i]
     IN  IF Collectable(r)
         THEN /\ changed' = [changed EXCEPT ![r.card] =
                    Append(@, [var |-> r.var, data |-> r.data, updated |-> 0])]
              /\ SmcLsiHaveNvData' = 1
         ELSE UNCHANGED <<changed, SmcLsiHaveNvData>>
  /\ i' = i + 1
  /\ UNCHANGED <<pc, Process, Browser2, hooked, loopVars, stores, buffer, setupVars,
                 accessed, iter, file, setting, historyVars>>

\* There is no file: the POST goes on to ready to boot.
NoFile ==
  /\ pc = "update" /\ file = <<>>
  /\ pc' = "combine"
  /\ UNCHANGED <<driverVars, loopVars, cardVars, iter, fileVars, setting, historyVars>>

HandleDataStart ==
  /\ pc = "update" /\ file # <<>> /\ i > Len(file)
  /\ Process = "download" /\ SmcLsiHaveNvData = 1
  /\ pc' = "change" /\ curr' = 1 /\ fn' = 1
  /\ UNCHANGED <<driverVars, hash, cardVars, iter, fileVars, setting, historyVars>>

\* EFI_NOT_READY or EFI_NOT_FOUND. The file is erased and the system is reset.
HandleNothing ==
  /\ pc = "update" /\ file # <<>> /\ i > Len(file)
  /\ Process # "download" \/ SmcLsiHaveNvData = 0
  /\ pc' = "reset"
  /\ UNCHANGED <<driverVars, loopVars, cardVars, iter, fileVars, setting, historyVars>>

\* The first collected record of store x, or 0.
First(x) == SelectInSeq(changed[curr], LAMBDA r : r.var = x)

\* The stores for which the first collected record differs from the buffer.
Differing ==
  {x \in ToSet(setupVars[curr]) :
     First(x) # 0 /\ changed[curr][First(x)].data # buffer[hash][x]}

\* Record n of the card was or is now found to be a change.
Marked(n) ==
  LET r == changed[curr][n]
  IN  r.updated = 1 \/ (r.var \in Differing /\ n = First(r.var))

CheckChangeableItemsInChangedVar ==
  /\ At("Check")
  /\ changed' = [changed EXCEPT ![curr] = [n \in 1..Len(changed[curr]) |->
       [changed[curr][n] EXCEPT !.updated = IF Marked(n) THEN 1 ELSE 0]]]
  /\ accessed' = [accessed EXCEPT ![curr] = @ \cup (Differing \cap Applied)]
  /\ Advance
  /\ UNCHANGED <<driverVars, hash, stores, buffer, setupVars, iter, fileVars, setting,
                 historyVars>>

\* The set-up variable is looked up in the current hash table by its name, which
\* names the card.
ChangedVarToOOBVarBuffer ==
  /\ At("ToBuffer")
  /\ buffer' = IF hash # curr THEN buffer ELSE
       [buffer EXCEPT ![curr] = [x \in SetupVar |->
          IF \E n \in 1..Len(changed[curr]) :
               changed[curr][n].var = x /\ changed[curr][n].updated = 1
          THEN changed[curr][First(x)].data ELSE @[x]]]
  /\ Advance
  /\ UNCHANGED <<driverVars, hash, stores, setupVars, changed, accessed, iter, fileVars,
                 setting, historyVars>>

\* The item that applies a form is pressed; the card reads the store through the
\* hook. An error of the call-back is recorded and passed over.
AccessRAIDRecordtoChangeSetting ==
  /\ At("Access")
  /\ \/ /\ setting' = [setting EXCEPT ![curr] =
             [x \in LsiVar |-> IF x \in accessed[curr] /\ CallbackWrites(x)
                               THEN buffer[hash][x] ELSE @[x]]]
        /\ UNCHANGED <<bad, faults>>
     \/ Fault /\ bad' = bad \cup {curr} /\ UNCHANGED setting
  /\ Advance
  /\ UNCHANGED <<driverVars, hash, cardVars, iter, fileVars, atStart, exported, handled,
                 posts>>

\* The commands come from the buffer of the card's command variable, if the file
\* has a record of it.
HandleRaidCfgCmdString ==
  /\ At("Commands")
  /\ handled' = [handled EXCEPT ![curr] =
       IF hooked = 1 /\ First(CmdVar) # 0 THEN buffer[hash][CmdVar] ELSE @]
  /\ Advance
  /\ UNCHANGED <<driverVars, hash, cardVars, iter, fileVars, setting, atStart, exported,
                 bad, posts, faults>>

SmcLsiRaidLib_HandleData ==
  /\ pc = "change" /\ curr = 0
  /\ SmcLsiHaveNvData' = 0
  /\ pc' = "reset"
  /\ UNCHANGED <<Process, Browser2, hooked, loopVars, cardVars, iter, fileVars, setting,
                 historyVars>>

-----------------------------------------------------------------------------
(* Ready to boot: GetNvData until it fails, then LoadR.                    *)

\* The set-up variables of the first card at or behind card c that has some, and
\* the card behind it.
NextList(c) ==
  LET full == {d \in Card : d >= c /\ setupVars[d] # <<>>}
      d == CHOOSE d \in full : \A e \in full : d <= e
  IN  IF full = {} THEN [list |-> <<>>, next |-> 0]
      ELSE [list |-> [n \in 1..Len(setupVars[d]) |-> <<d, setupVars[d][n]>>],
            next |-> IF d < Cards THEN d + 1 ELSE 0]

\* Mutant of Walk: the list at hand is dropped when the walk goes on.
WalkNoRest ==
  LET from == IF iter.renew = 1 THEN 1 ELSE curr
  IN  IF from = 0 THEN [list |-> <<>>, next |-> 0] ELSE NextList(from)

\* Where ParseNvData continues: the list at hand, or that of the next card. curr
\* is the card behind the list at hand.
Walk ==
  LET from == IF iter.renew = 1 THEN 1 ELSE curr
  IN  IF iter.renew = 0 /\ iter.left # <<>> THEN [list |-> iter.left, next |-> curr]
      ELSE IF from = 0 THEN [list |-> <<>>, next |-> 0]
      ELSE NextList(from)

SmcLsiRaidLib_ParseNvData ==
  /\ pc = "combine" /\ Process = "download" /\ Walk.list # <<>>
  /\ LET v == Head(Walk.list)
     IN  exported' = Append(exported,
           [card |-> v[1], var |-> v[2], data |-> buffer[v[1]][v[2]]])
  /\ iter' = [renew |-> 0, left |-> Tail(Walk.list)]
  /\ curr' = Walk.next
  /\ UNCHANGED <<pc, driverVars, fn, hash, cardVars, fileVars, setting, atStart, handled,
                 bad, posts, faults>>

\* EFI_NO_MEDIA, or EFI_NOT_READY.
ParseNvDataEnds ==
  /\ pc = "combine"
  /\ Process = "download" => Walk.list = <<>>
  /\ iter' = IF Process = "download" THEN [renew |-> 1, left |-> <<>>] ELSE iter
  /\ curr' = IF Process = "download" THEN 0 ELSE curr
  /\ pc' = "load"
  /\ UNCHANGED <<driverVars, fn, hash, cardVars, fileVars, setting, historyVars>>

\* AddDynamicItems walks over the cards up to the first for which it fails; it
\* only builds the set-up pages.
SmcLsiOOBSetupDriverLoadResource ==
  /\ pc = "load"
  /\ \/ UNCHANGED <<curr, hash>>
     \/ /\ Process = "download"
        /\ \E c \in Card : hash' = c /\ (curr' = c \/ (c = Cards /\ curr' = 0))
  /\ pc' = "os"
  /\ UNCHANGED <<driverVars, fn, cardVars, iter, fileVars, setting, historyVars>>

Driver ==
  \/ StartLoadError \/ StartInstallFails \/ SmcLsiOOBSetupDriverStart
  \/ InitialLsiVarHashTable \/ FreeLsiVarHashTable \/ FunctionFails
  \/ SmcLsiRaidOOB_InitialFunc \/ SmcLsiRaidOOB_CollectInformation_Form
  \/ SmcLsiHookBrowser2Protocol \/ HookFails \/ SmcLsiCallbackAccessMenu
  \/ InitialItemsQIdTable \/ SmcLsiRaidOOB_CollectInformation_ChRec
  \/ SmcLsiCreateSmcRaidVarAndItems \/ SmcLsiSetSmcLsiVariableTable \/ SetVariableTableFails
  \/ SmcLsiOOBSetupDriverDownload \/ SmcLsiRaidLib_CollectData \/ NoFile
  \/ HandleDataStart \/ HandleNothing \/ CheckChangeableItemsInChangedVar
  \/ ChangedVarToOOBVarBuffer \/ AccessRAIDRecordtoChangeSetting
  \/ HandleRaidCfgCmdString \/ SmcLsiRaidLib_HandleData
  \/ SmcLsiRaidLib_ParseNvData \/ ParseNvDataEnds \/ SmcLsiOOBSetupDriverLoadResource

Next == Driver \/ \E f \in Files \cup {<<>>} : SmcLsiRaidOOBSetupEntry(f)

Spec == Init /\ [][Next]_vars

\* A POST goes on until the OS is booted or the system is reset.
FairSpec == Spec /\ WF_vars(Driver)

-----------------------------------------------------------------------------
(* Properties.                                                             *)

Talking == At("AccessMenu") \/ At("Access") \/ At("Commands")

\* Whenever the driver talks to a card, the card's call-backs reach the driver's
\* hook and the variables of this card; and the browser has its own call-back
\* again when the POST is over, unless the download has failed.
HookBalanced ==
  /\ Talking => hooked = 1 /\ hash = curr
  /\ pc \in {"combine", "load", "os", "reset"} /\ Process = "download" => hooked = 0

\* The first record of the file for store x of card c that has the right size.
FirstInFile(c, x) ==
  SelectInSeq(file, LAMBDA r : r.card = c /\ r.var = x /\ r.data # Misfit)

\* The set-up variables of card c.
SetupVarsOf(c) == IF VarsOf[c] = <<>> THEN <<>> ELSE Append(VarsOf[c], CmdVar)

Named(c, x) == x \in ToSet(SetupVarsOf(c)) /\ FirstInFile(c, x) # 0

\* When a file was handled, every card without a problem has the values of the
\* file's first records for it in the stores that an item applies, and its old
\* values everywhere else, although all cards use the same names; and every card
\* has handled the commands of the first command record for it, and no others.
ChangesReachTheirCard ==
  (pc = "reset" /\ Process = "download") =>
    \A c \in Card \ bad :
      /\ \A x \in LsiVar :
           setting[c][x] = IF x \in Applied /\ Named(c, x)
                           THEN file[FirstInFile(c, x)].data ELSE atStart[c][x]
      /\ handled[c] = IF Named(c, CmdVar) THEN file[FirstInFile(c, CmdVar)].data
                      ELSE NoCmd

\* CombineBiosCfg exports every set-up variable of every card once, in order, with
\* the value the card has, and without commands.
ExportedOnce ==
  (pc = "load" /\ Process = "download") =>
    /\ [n \in 1..Len(exported) |-> <<exported[n].card, exported[n].var>>] =
         FlattenSeq([c \in Card |->
           [n \in 1..Len(SetupVarsOf(c)) |-> <<c, SetupVarsOf(c)[n]>>]])
    /\ \A n \in 1..Len(exported) : exported[n].card \notin bad =>
         exported[n].data = IF exported[n].var = CmdVar THEN NoCmd
                            ELSE setting[exported[n].card][exported[n].var]

\* A POST comes to its end: neither the loops over the cards nor the walk over the
\* variables goes on for ever.
PostEnds == pc = "start" ~> pc \in {"os", "reset"}
=============================================================================
