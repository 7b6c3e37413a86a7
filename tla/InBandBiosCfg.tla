--------------------------- MODULE InBandBiosCfg ---------------------------
(***************************************************************************)
(* SmcInBandBiosCfg.c: a BIOS configuration file in INBAND_REGION, put     *)
(* there by DownloadBiosCfgFromBMC in the POST or by a tool of the OS      *)
(* through software SMI 0xE6, is applied to the NVRAM variables and handed *)
(* to the RAID driver, then the region is erased and the system is reset.  *)
(* A file may instead ask for the default configuration. At ready to boot  *)
(* the variables are combined for the tools of the OS. Any NVRAM or ROM    *)
(* write may fail, and the power may fail between any two steps.           *)
(***************************************************************************)
EXTENDS Naturals, Sequences, SequencesExt

CONSTANTS
  Var,            \* NVRAM variables
  PlatformVar,    \* the variables of the platform's list
  Data,           \* values of the right size
  Misfit,         \* a value of another size
  None,           \* no variable; no file
  Default,        \* the default configuration
  RaidCmd,        \* a variable of the RAID driver: commands to delete drives
  Arrays,         \* the virtual drives at the start, in the order of the menu
  Files,          \* the files that users make
  MaxFiles,       \* bound: files that arrive
  MaxNvFault,     \* bound: NVRAM writes that fail
  MaxRomFault,    \* bound: ROM writes that fail
  MaxRaidFault,   \* bound: RAID commands that a menu of the card fails
  MaxCrash,       \* bound: power losses in the POST
  MaxLong         \* bound: variables whose name exceeds the name buffer

Array == {Arrays[n] : n \in 1..Len(Arrays)}

\* The value of RaidCmd: commands, each of which lists the numbers of drives.
Commands == Seq(Seq(1..Len(Arrays)))

\* One variable of a file.
Record == [var : Var \ {RaidCmd}, data : Data \cup {Misfit}]
            \cup [var : {RaidCmd}, data : Commands]

\* Flag BIT0 clear is "idle"; BIT0 set is "update", with BIT1 "default". A torn
\* file has kept its header and the records recs; what follows is erased.
File == [flag : {"idle", "update", "default"}, recs : Seq(Record), torn : {0, 1}]

\* A region without "_BIN".
Erased == [flag |-> "idle", recs |-> <<>>, torn |-> 0]

ASSUME BiosCfgAssumption ==
  /\ PlatformVar \subseteq Var \ {RaidCmd} /\ RaidCmd \in Var
  /\ Misfit \notin Data /\ None \notin Data \cup Files
  /\ Default \in [Var \ {RaidCmd} -> Data \cup {None}]
  /\ Arrays \in Seq(Array)
  /\ \A m, n \in 1..Len(Arrays) : Arrays[m] = Arrays[n] => m = n
  /\ Files \subseteq File /\ \A f \in Files : f.torn = 0

ASSUME BiosCfgBoundsAssumption ==
  /\ MaxFiles \in Nat /\ MaxNvFault \in Nat /\ MaxRomFault \in Nat
  /\ MaxRaidFault \in Nat /\ MaxCrash \in Nat /\ MaxLong \in Nat

VARIABLES
  nv,             \* NVRAM: the variables
  loadDefault,    \* NVRAM: 1 while SmcInBandLoadDefault exists
  longNames,      \* NVRAM: variables whose name exceeds the name buffer
  inband,         \* ROM: INBAND_REGION
  bmcRegion,      \* ROM: SMBIOS_FOR_BMC_REGION: has "$SMC", byte 10
  arrays,         \* the virtual drives of the card, in the order of the menu
  pc,             \* the next step of the POST
  i,              \* the record at hand
  raidUp,         \* 1 when the RAID driver has read the card in this POST
  collected,      \* what the RAID driver has collected in this POST
  smram,          \* SMRAM: the variables combined at the last ready to boot
  files,          \* history: the files that have arrived
  goal,           \* history: the last file that arrived undamaged
  seen,           \* history: the virtual drives when it arrived
  runs,           \* history: how often the RAID driver has handled its commands
  raidFaults,     \* history: the handlings in which a menu of the card failed
  nvFaults,       \* history: the NVRAM writes that failed
  romFaults,      \* history: the ROM writes that failed
  crashes         \* history: the power losses in the POST

nvVars    == <<nv, loadDefault, longNames>>
romVars   == <<inband, bmcRegion>>
raidVars  == <<arrays, raidUp, collected, runs, raidFaults>>
fileVars  == <<files, goal, seen>>
faultVars == <<nvFaults, romFaults, crashes>>
vars      == <<nvVars, romVars, raidVars, pc, i, smram, fileVars, faultVars>>

Step == {"off", "reset", "download", "driver", "unflag", "update", "record",
         "handle", "setDefault", "preset", "erase", "combine", "os", "dead"}

TypeOK ==
  /\ nv \in [Var \ {RaidCmd} -> Data \cup {None}]
  /\ loadDefault \in {0, 1}
  /\ longNames \in 0..MaxLong
  /\ inband \in File
  /\ bmcRegion \in [smc : {0, 1}, restore : {0, 1}]
  /\ arrays \in Seq(Array)
  /\ pc \in Step
  /\ i \in Nat \ {0}
  /\ raidUp \in {0, 1}
  /\ collected \in Seq(Commands)
  /\ smram \in [Var \ {RaidCmd} -> Data \cup {None}]
  /\ files \in 0..MaxFiles
  /\ goal \in Files \cup {None}
  /\ seen \in Seq(Array)
  /\ runs \in Nat
  /\ raidFaults \in 0..MaxRaidFault
  /\ nvFaults \in 0..MaxNvFault
  /\ romFaults \in 0..MaxRomFault
  /\ crashes \in 0..MaxCrash

\* A system that has booted once.
Init ==
  /\ nv = Default /\ smram = Default /\ loadDefault = 0 /\ longNames = 0
  /\ inband = Erased /\ bmcRegion \in [smc : {0, 1}, restore : {0}]
  /\ arrays = Arrays /\ raidUp = 0 /\ collected = <<>> /\ runs = 0 /\ raidFaults = 0
  /\ pc = "os" /\ i = 1
  /\ files = 0 /\ goal = None /\ seen = Arrays
  /\ nvFaults = 0 /\ romFaults = 0 /\ crashes = 0

-----------------------------------------------------------------------------
NvFault  == nvFaults < MaxNvFault /\ nvFaults' = nvFaults + 1
RomFault == romFaults < MaxRomFault /\ romFaults' = romFaults + 1

\* What a failing write leaves of a file: nothing, or its header and the records
\* before the block at which the write stopped.
TornFiles(f) ==
  {[f EXCEPT !.recs = SubSeq(f.recs, 1, n), !.torn = 1] :
     n \in 0..Len(f.recs)} \cup {Erased}

\* One call of SmcRomHoleWriteRegion, whose status no caller looks at. It
\* rewrites the whole hole: when it fails, each region is old, new or damaged.
WriteRom(f, b) ==
  \/ inband' = f /\ bmcRegion' = b /\ UNCHANGED romFaults
  \/ /\ RomFault
     /\ inband' \in {inband, f} \cup TornFiles(inband) \cup TornFiles(f)
     /\ bmcRegion' \in {bmcRegion, b, [smc |-> 0, restore |-> 1]}

-----------------------------------------------------------------------------
(* A file arrives.                                                         *)

Arrive(f) ==
  /\ files < MaxFiles /\ files' = files + 1
  /\ WriteRom(f, bmcRegion)
  /\ goal' = IF inband' = f THEN f ELSE None
  /\ seen' = arrays
  /\ runs' = 0
  /\ UNCHANGED <<nvVars, arrays, raidUp, collected, raidFaults, i, smram, nvFaults, crashes>>

\* DownloadBiosCfgFromBMC has found a file.
DownloadBiosCfgFromBMC(f) ==
  /\ pc = "download"
  /\ pc' = "driver"
  /\ Arrive(f)

NoDownload ==
  /\ pc = "download"
  /\ pc' = "driver"
  /\ UNCHANGED <<nvVars, romVars, raidVars, i, smram, fileVars, faultVars>>

\* A tool of the OS hands a file over; nothing is checked but its size.
DownloadDataFromRAM(f) ==
  /\ pc = "os"
  /\ Arrive(f)
  /\ UNCHANGED pc

\* Software of the OS creates a variable with a name of more than 255 characters.
CreateLongName ==
  /\ pc = "os"
  /\ longNames < MaxLong /\ longNames' = longNames + 1
  /\ UNCHANGED <<nv, loadDefault, romVars, raidVars, pc, i, smram, fileVars, faultVars>>

-----------------------------------------------------------------------------
(* The POST up to InBandUpdateBiosCfg.                                     *)

\* SmcResetConfig: the PEI phase loads the defaults while the variable exists.
SmcResetConfig ==
  /\ pc \in {"off", "reset"}
  /\ nv' = IF loadDefault = 1 THEN Default ELSE nv
  /\ pc' = "download"
  /\ UNCHANGED <<loadDefault, longNames, romVars, raidVars, i, smram, fileVars, faultVars>>

\* SmcInBandCallback calls Start and Download of the RAID driver, which may fail.
StartRaidDriver(up) ==
  /\ pc = "driver"
  /\ raidUp' = up /\ collected' = <<>>
  /\ pc' = "unflag"
  /\ UNCHANGED <<nvVars, romVars, arrays, runs, raidFaults, i, smram, fileVars, faultVars>>

-----------------------------------------------------------------------------
(* InBandUpdateBiosCfg.                                                    *)

DeleteLoadDefault ==
  /\ pc = "unflag"
  /\ \/ loadDefault' = 0 /\ UNCHANGED nvFaults
     \/ loadDefault = 1 /\ NvFault /\ UNCHANGED loadDefault
  /\ pc' = "update"
  /\ UNCHANGED <<nv, longNames, romVars, raidVars, i, smram, fileVars, romFaults, crashes>>

\* The region cannot be read, has no "_BIN", or BIT0 is clear.
NoUpdate ==
  /\ pc = "update"
  /\ inband.flag = "idle"
  /\ pc' = "combine"
  /\ UNCHANGED <<nvVars, romVars, raidVars, i, smram, fileVars, faultVars>>

StartUpdate ==
  /\ pc = "update"
  /\ inband.flag # "idle"
  /\ pc' = IF inband.flag = "default" THEN "setDefault" ELSE "record"
  /\ i' = 1
  /\ UNCHANGED <<nvVars, romVars, raidVars, smram, fileVars, faultVars>>

SetLoadDefault ==
  /\ pc = "setDefault"
  /\ \/ loadDefault' = 1 /\ UNCHANGED nvFaults
     \/ NvFault /\ UNCHANGED loadDefault
  /\ pc' = "preset"
  /\ UNCHANGED <<nv, longNames, romVars, raidVars, i, smram, fileVars, romFaults, crashes>>

\* The byte that restores the DMI is set only in a region without "$SMC": in a
\* region that holds a DMI file the function returns before it.
OobLoadDefaultPreSetting ==
  /\ pc = "preset"
  /\ IF bmcRegion.smc = 1 THEN UNCHANGED <<romVars, romFaults>>
     ELSE WriteRom(inband, [bmcRegion EXCEPT !.restore = 1])
  /\ pc' = "erase"
  /\ UNCHANGED <<nvVars, raidVars, i, smram, fileVars, nvFaults, crashes>>

-----------------------------------------------------------------------------
(* UpdateBiosCfgToSystem.                                                  *)

rec == inband.recs[i]

AtRecord == pc = "record" /\ i <= Len(inband.recs)

\* Mutant of Accepted: the sizes are not compared.
AcceptedAnySize(r) == r.var \in PlatformVar /\ nv[r.var] # None

\* UpdateVariable sets a variable of the platform's list that exists and has the
\* size of the record.
Accepted(r) == r.var \in PlatformVar /\ nv[r.var] # None /\ r.data # Misfit

\* SetVariable is called a second time, with the variable's own attributes, when
\* it fails: a fault is a failure of both calls. The call before it, of
\* Smc_UpdatePlatformVariable, does nothing: its list of variables is empty.
UpdateVariable ==
  /\ AtRecord /\ Accepted(rec)
  /\ \/ nv' = [nv EXCEPT ![rec.var] = rec.data] /\ UNCHANGED nvFaults
     \/ NvFault /\ UNCHANGED nv
  /\ i' = i + 1
  /\ UNCHANGED <<loadDefault, longNames, romVars, raidVars, pc, smram, fileVars,
                 romFaults, crashes>>

\* EFI_NOT_FOUND: the record is offered to the RAID driver.
CollectData ==
  /\ AtRecord /\ rec.var = RaidCmd
  /\ collected' = IF raidUp = 1 THEN Append(collected, rec.data) ELSE collected
  /\ i' = i + 1
  /\ UNCHANGED <<nvVars, romVars, arrays, raidUp, runs, raidFaults, pc, smram, fileVars,
                 faultVars>>

SkipRecord ==
  /\ AtRecord /\ ~Accepted(rec) /\ rec.var # RaidCmd
  /\ i' = i + 1
  /\ UNCHANGED <<nvVars, romVars, raidVars, pc, smram, fileVars, faultVars>>

EndOfRecords ==
  /\ pc = "record" /\ i > Len(inband.recs) /\ inband.torn = 0
  /\ pc' = "handle"
  /\ UNCHANGED <<nvVars, romVars, raidVars, i, smram, fileVars, faultVars>>

\* The checksum is not tested. Erased bytes give a name of 255 characters, which
\* overruns VariableName[50]: the POST hangs, restarts or goes on behind the file.
TornRecord ==
  /\ pc = "record" /\ i > Len(inband.recs) /\ inband.torn = 1
  /\ pc' \in {"dead", "reset", "handle"}
  /\ UNCHANGED <<nvVars, romVars, raidVars, i, smram, fileVars, faultVars>>

\* The drives that have the numbers ns in menu. The numbers are counted anew in
\* each POST, in the order of the menu.
Numbered(menu, ns) == {menu[n] : n \in ns \cap 1..Len(menu)}

\* The menu without these drives; rest[n] is what is left of its first n entries.
Without(menu, ns) ==
  LET rest[n \in 0..Len(menu)] ==
        IF n = 0 THEN <<>>
        ELSE IF menu[n] \in Numbered(menu, ns) THEN rest[n - 1]
        ELSE Append(rest[n - 1], menu[n])
  IN  rest[Len(menu)]

Named(cmds) == UNION {{cmds[c][n] : n \in 1..Len(cmds[c])} : c \in 1..Len(cmds)}

\* Of each command, the first number that is in the menu.
Firsts(menu, cmds) ==
  {m \in Named(cmds) :
     \E c \in 1..Len(cmds) : \E n \in 1..Len(cmds[c]) :
       /\ cmds[c][n] = m /\ m <= Len(menu)
       /\ \A j \in 1..(n - 1) : cmds[c][j] > Len(menu)}

\* Mutant of HandleDataStart: the numbers are resolved one by one, each against
\* the menu that the deletion before it has left.
HandleDataStartOneByOne ==
  /\ pc = "handle"
  /\ arrays' = IF collected = <<>> THEN arrays
               ELSE FoldLeft(LAMBDA a, c : IF c # <<>> /\ Head(c) <= Len(a)
                                           THEN RemoveAt(a, Head(c)) ELSE a,
                             arrays, Head(collected))
  /\ runs' = runs + IF collected = <<>> THEN 0 ELSE 1
  /\ collected' = <<>>
  /\ pc' = "erase"
  /\ UNCHANGED <<nvVars, romVars, raidUp, raidFaults, i, smram, fileVars, faultVars>>

\* EFI_NOT_FOUND when nothing was collected. Of the records of a variable the first
\* is used. The names of all drives are looked up before the first command is
\* handled. A command deletes its first drive; whether it deletes the others is
\* open, since it goes on over a list of items that the deletion has freed. When a
\* menu fails, any of the deletions may be missing.
HandleDataStart ==
  /\ pc = "handle"
  /\ IF collected = <<>> THEN UNCHANGED <<arrays, runs, raidFaults>>
     ELSE \E S \in SUBSET Named(Head(collected)) :
            /\ arrays' = Without(arrays, S)
            /\ runs' = runs + 1
            /\ \/ Firsts(arrays, Head(collected)) \subseteq S /\ UNCHANGED raidFaults
               \/ raidFaults < MaxRaidFault /\ raidFaults' = raidFaults + 1
  /\ collected' = <<>>
  /\ pc' = "erase"
  /\ UNCHANGED <<nvVars, romVars, raidUp, i, smram, fileVars, faultVars>>

\* Mutant of EraseRegion: the region is not erased.
EraseRegionDropped ==
  /\ pc = "erase"
  /\ pc' = "reset"
  /\ UNCHANGED <<nvVars, romVars, raidVars, i, smram, fileVars, faultVars>>

\* Mutant of EraseRegion: only an update erases the region.
EraseRegionAfterUpdate ==
  /\ pc = "erase"
  /\ WriteRom(IF inband.flag = "update" THEN Erased ELSE inband, bmcRegion)
  /\ pc' = "reset"
  /\ UNCHANGED <<nvVars, raidVars, i, smram, fileVars, nvFaults, crashes>>

\* The region is erased, then the system is reset through port 0xcf9.
EraseRegion ==
  /\ pc = "erase"
  /\ WriteRom(Erased, bmcRegion)
  /\ pc' = "reset"
  /\ UNCHANGED <<nvVars, raidVars, i, smram, fileVars, nvFaults, crashes>>

-----------------------------------------------------------------------------
(* Ready to boot, and the environment.                                     *)

\* Mutant of CombineBiosCfg: only variables of the platform's list are read anew.
CombineBiosCfgStale ==
  /\ pc = "combine" /\ longNames = 0
  /\ smram' = [v \in DOMAIN nv |-> IF v \in PlatformVar THEN smram[v] ELSE nv[v]]
  /\ pc' = "os"
  /\ UNCHANGED <<nvVars, romVars, raidVars, i, fileVars, faultVars>>

\* Every variable of at most 0x4000 bytes is combined; larger ones are not modelled.
CombineBiosCfg ==
  /\ pc = "combine" /\ longNames = 0
  /\ smram' = nv
  /\ pc' = "os"
  /\ UNCHANGED <<nvVars, romVars, raidVars, i, fileVars, faultVars>>

\* EFI_BUFFER_TOO_SMALL: the loop asks again for the same name with the same
\* buffer.
ScanAgain ==
  /\ pc = "combine" /\ longNames > 0
  /\ UNCHANGED vars

Shutdown ==
  /\ pc \in {"os", "dead"}
  /\ pc' = "off"
  /\ UNCHANGED <<nvVars, romVars, raidVars, i, smram, fileVars, faultVars>>

PowerLoss ==
  /\ pc \notin {"off", "os", "dead"}
  /\ crashes < MaxCrash /\ crashes' = crashes + 1
  /\ pc' = "off"
  /\ UNCHANGED <<nvVars, romVars, raidVars, i, smram, fileVars, nvFaults, romFaults>>

Bios ==
  \/ SmcResetConfig \/ NoDownload \/ (\E up \in {0, 1} : StartRaidDriver(up))
  \/ DeleteLoadDefault \/ NoUpdate \/ StartUpdate
  \/ SetLoadDefault \/ OobLoadDefaultPreSetting
  \/ UpdateVariable \/ CollectData \/ SkipRecord \/ EndOfRecords \/ TornRecord
  \/ HandleDataStart \/ EraseRegion \/ CombineBiosCfg \/ ScanAgain

Environment ==
  \/ \E f \in Files : DownloadBiosCfgFromBMC(f) \/ DownloadDataFromRAM(f)
  \/ CreateLongName \/ Shutdown \/ PowerLoss

Next == Bios \/ Environment

Spec == Init /\ [][Next]_vars

\* A POST goes on while it has the power. The system may stay off for ever.
FairSpec == Spec /\ WF_vars(pc # "off" /\ Bios)

-----------------------------------------------------------------------------
(* Properties.                                                             *)

Consumed == goal # None /\ inband.flag = "idle"

\* The records of file f that UpdateVariable accepts for variable v.
Sets(f, v) ==
  {n \in 1..Len(f.recs) : f.recs[n].var = v /\ f.recs[n].data # Misfit}

\* A file may be applied in several POSTs, interrupted anywhere. When its request
\* is gone and the OS runs, each listed variable has the value of its last record
\* in the file, and this is what a tool of the OS reads back; after a request
\* for the defaults it reads the defaults. A torn file may be applied again up to
\* any record, so after a ROM fault this holds of variables with one record.
FileTakesEffect ==
  (pc = "os" /\ Consumed /\ nvFaults = 0) =>
    /\ goal.flag = "update" =>
         \A v \in {u \in PlatformVar : Default[u] # None /\ Sets(goal, u) # {}} :
           LET last == CHOOSE n \in Sets(goal, v) : \A m \in Sets(goal, v) : m <= n
           IN  romFaults = 0 \/ Sets(goal, v) = {last} =>
                 smram[v] = goal.recs[last].data
    /\ goal.flag = "default" => smram = Default

\* The n-th record of f is its first one for the RAID driver.
FirstCommands(f, n) ==
  f.recs[n].var = RaidCmd /\ \A m \in 1..(n - 1) : f.recs[m].var # RaidCmd

\* Without a fault of the region or of the power the commands of a file delete only
\* drives that had one of their numbers when the file arrived, although handling a
\* command changes the numbers and the region outlives the handling. Only the first
\* record of the variable counts, and each of its commands has deleted at least the
\* first of its drives, unless a menu of the card failed.
ExactArrays ==
  (goal # None /\ romFaults = 0 /\ crashes = 0) =>
    \/ runs = 0 /\ arrays = seen
    \/ /\ runs > 0
       /\ \E n \in 1..Len(goal.recs) :
            /\ FirstCommands(goal, n)
            /\ \E S \in SUBSET Named(goal.recs[n].data) :
                 /\ arrays = Without(seen, S)
                 /\ raidFaults = 0 => Firsts(seen, goal.recs[n].data) \subseteq S

\* The commands of a file are handled once, and once more for each power loss or
\* failing erase that let the file outlive the handling.
RunsBounded == runs <= 1 + romFaults + crashes

\* A POST does not reset for ever: it reaches the OS, unless the file in the
\* region is torn or the scan meets a name that exceeds its buffer.
PostEnds ==
  pc \notin {"off", "os", "dead"} ~>
    (pc \in {"off", "os", "dead"} \/ inband.torn = 1 \/ longNames > 0)
=============================================================================
