---------------------------- MODULE OobDownload ----------------------------
(***************************************************************************)
(* DownloadFileFromBMC of SmcOutBand.c: in every POST the BIOS fetches     *)
(* from the BMC the BIOS configuration (BIN), the SMBIOS file (DMI) and    *)
(* the backup of the ROM hole (STORAGE), in this order, and writes them to *)
(* the ROM hole. SmcEDMIInit of SmcSmBios.c, notified of the same protocol *)
(* at a lower TPL, comes next: it restores the DMI variables from the      *)
(* backup when the user has asked for that, or saves them to the ROM hole. *)
(* The BMC, its IPMI transport and the power supply are the environment:   *)
(* every command may fail, its reply may be lost, the data may arrive      *)
(* corrupted and the power may fail between any two steps.                 *)
(***************************************************************************)
EXTENDS RomHole

CONSTANTS
  Image,          \* the files users hand to the BMC
  Backup,         \* the ROM hole backup a BMC may hold
  BackupSigned,   \* TRUE iff the backup's SMBIOS region starts with "$SMC"
  BackupCount,    \* the number of DMI variables in the backup's SMBIOS region
  Flagged,        \* the backup's SMBIOS region with Flags = 1: restore it
  Table,          \* a signed SMBIOS region that SmcEDMIInit saved
  Corrupt,        \* what a reader gets when its checksum does not match
  NoFile,         \* no file
  Smc,            \* a region cleared except for the signature "$SMC"
  MaxRetry,       \* attempts per file (5 in the code)
  MaxWait,        \* polls of DownloadOobDataReady per attempt (200)
  MaxFault,       \* bound: writes that fail in a behaviour
  Bakerville      \* TRUE iff PlatformId = OobBakerville

ASSUME ConstantsAssumption ==
  /\ MaxRetry \in Nat \ {0}
  /\ MaxWait \in Nat \ {0}
  /\ MaxFault \in Nat
  /\ BackupSigned \in BOOLEAN
  /\ BackupCount \in Nat
  /\ Bakerville \in BOOLEAN

ASSUME DistinctAssumption ==
  /\ Backup \notin Image /\ Corrupt \notin Image
  /\ NoFile \notin Image /\ Smc \notin Image /\ Blank \notin Image /\ Torn \notin Image
  /\ Corrupt # Backup /\ Corrupt # NoFile /\ NoFile # Backup
  /\ Flagged \notin Image /\ Table \notin Image
  /\ Flagged \notin {Backup, Smc, Table, Blank, Torn} /\ Table \notin {Backup, Smc, Blank, Torn}

VARIABLES
  bmc,                \* the file of each type that the BMC offers
  rom,                \* the ROM hole
  pc,                 \* the next step of the POST
  ft,                 \* the file type being downloaded
  DownloadFailRetry,  \* the attempt number
  WaitBmcLoop,        \* the poll number
  DownloadProcess,    \* the BMC offered the file in this attempt
  DownloadSuccess,    \* the file was read and its checksum matches
  buf,                \* TotalDataBuffer / DataBuffer
  FlashFlag,          \* the preserve flags read from the BMC
  dmi,                \* NVRAM: DmiVars of the backup, with their DmiArray, or others
  submitted,          \* history: the images handed to the BMC so far
  stored,             \* history: the images ever written to the ROM
  fresh,              \* history: the image of each type stored in this POST
  postFaults,         \* history: the writes that failed in this POST
  faults              \* history: the writes that failed so far

bmcVars   == <<bmc, submitted>>
faultVars == <<postFaults, faults>>
romVars   == <<rom, stored, fresh, faultVars>>
loopVars  == <<DownloadFailRetry, WaitBmcLoop>>
flagVars  == <<DownloadProcess, DownloadSuccess>>
localVars == <<loopVars, flagVars, buf, FlashFlag>>
vars      == <<bmcVars, romVars, pc, ft, localVars, dmi>>

UserFile == {"BIN", "DMI"}
FileType == UserFile \cup {"STORAGE"}

\* The region DownloadBiosCfgFromBMC and DownloadSmbiosFileFromBmc write.
Target(t) == IF t = "BIN" THEN "INBAND" ELSE "CURRENT_SMBIOS"

\* The answer of SmibiosPreservation(0): which of Preserve_SMBIOS and
\* Preserve_OA the user chose; "error" when the command failed.
Flags == {"none", "smbios", "oa", "both"}

Content == Image \cup {Backup, Flagged, Table, Smc, Blank, Torn}

StorageSteps == {"flags", "writeSmbios", "writeOA3", "writeOA2", "clear", "full"}

Step == {"off", "enter", "start", "wait", "read", "report", "store", "finished"}
          \cup StorageSteps \cup {"edmiArray", "edmiClear", "ready"}

TypeOK ==
  /\ bmc \in [FileType -> Image \cup {Backup, NoFile}]
  /\ rom \in [Region -> Content]
  /\ pc \in Step
  /\ ft \in FileType
  /\ DownloadFailRetry \in 0..MaxRetry
  /\ WaitBmcLoop \in 0..MaxWait
  /\ DownloadProcess \in {0, 1}
  /\ DownloadSuccess \in {0, 1}
  /\ buf \in Image \cup {Backup, Corrupt, NoFile}
  /\ FlashFlag \in Flags \cup {"error"}
  /\ dmi \in {"other", "vars", "backup"}
  /\ submitted \in SUBSET Image
  /\ stored \in SUBSET Image
  /\ fresh \in [UserFile -> Image \cup {NoFile}]
  /\ postFaults \in Nat
  /\ faults \in 0..MaxFault

Init ==
  /\ bmc = [t \in FileType |-> NoFile]
  /\ rom = Erased
  /\ pc = "off" /\ ft = "BIN"
  /\ DownloadFailRetry = 0 /\ WaitBmcLoop = 0
  /\ DownloadProcess = 0 /\ DownloadSuccess = 0
  /\ buf = NoFile /\ FlashFlag = "error" /\ dmi = "other"
  /\ submitted = {} /\ stored = {}
  /\ fresh = [t \in UserFile |-> NoFile] /\ postFaults = 0 /\ faults = 0

-----------------------------------------------------------------------------
(* Control flow shared by the three download functions.                    *)

ClearLocals ==
  /\ DownloadFailRetry' = 0 /\ WaitBmcLoop' = 0
  /\ DownloadProcess' = 0 /\ DownloadSuccess' = 0
  /\ buf' = NoFile /\ FlashFlag' = "error"

\* The function returns; DownloadFileFromBMC calls the next one or ends.
Leave ==
  /\ pc' = IF ft = "STORAGE" THEN "finished" ELSE "enter"
  /\ ft' = IF ft = "BIN" THEN "DMI" ELSE "STORAGE"
  /\ ClearLocals

\* Mutant of EndAttempt: one attempt too many.
EndAttemptOffByOne ==
  /\ DownloadFailRetry' = DownloadFailRetry + 1
  /\ pc' = IF DownloadFailRetry + 1 <= MaxRetry THEN "start" ELSE "report"

\* Mutant of EndAttempt: a `continue' that skips the increment.
EndAttemptUncounted ==
  /\ pc' = IF DownloadFailRetry < MaxRetry THEN "start" ELSE "report"
  /\ UNCHANGED DownloadFailRetry

\* The attempt failed: the loop counts it and starts over or gives up.
EndAttempt ==
  /\ DownloadFailRetry' = DownloadFailRetry + 1
  /\ pc' = IF DownloadFailRetry + 1 < MaxRetry THEN "start" ELSE "report"

\* BDS signals that all drivers are connected.
Boot ==
  /\ pc = "off"
  /\ pc' = "enter" /\ ft' = "BIN"
  /\ fresh' = [t \in UserFile |-> NoFile] /\ postFaults' = 0
  /\ UNCHANGED <<bmcVars, rom, stored, faults, localVars, dmi>>

HasSmc(content) == content \in {Smc, Table} \/ (content \in {Backup, Flagged} /\ BackupSigned)

\* "$SMC signature exist. Don't need to restore from IPMI." A torn region may
\* have the signature or not: EnterSkips is enabled for it too. The read of
\* the region is a memory copy that can only fail while the flash is
\* write-enabled, which a failed write leaves behind; then nothing is compared.
NeedsDownload(t) ==
  t = "STORAGE" => ~HasSmc(rom["SMBIOS_FOR_BMC"]) \/ postFaults > 0

\* The buffer is allocated and the attempts begin.
Enter ==
  /\ pc = "enter"
  /\ NeedsDownload(ft)
  /\ pc' = "start"
  /\ UNCHANGED <<bmcVars, romVars, ft, localVars, dmi>>

\* AllocatePool fails, or nothing is to be restored.
EnterSkips ==
  /\ pc = "enter"
  /\ Leave
  /\ UNCHANGED <<bmcVars, romVars, dmi>>

-----------------------------------------------------------------------------
(* One attempt: DownloadOobDataStart, DownloadOobDataReady until the file  *)
(* is in VRAM, ReadDataToBios, checksum.                                   *)

\* The command fails, answers an unknown status, or (STORAGE) a wrong size.
StartError ==
  /\ pc = "start"
  /\ DownloadProcess' = 0 /\ DownloadSuccess' = 0
  /\ EndAttempt
  /\ UNCHANGED <<bmcVars, romVars, ft, WaitBmcLoop, buf, FlashFlag, dmi>>

\* RspStatus = 0: the loop is left at once.
StartNotAvailable ==
  /\ pc = "start"
  /\ DownloadProcess' = 0 /\ DownloadSuccess' = 0
  /\ pc' = "report"
  /\ UNCHANGED <<bmcVars, romVars, ft, loopVars, buf, FlashFlag, dmi>>

\* RspStatus = 1.
StartAvailable ==
  /\ pc = "start"
  /\ bmc[ft] # NoFile
  /\ DownloadProcess' = 1 /\ DownloadSuccess' = 0
  /\ WaitBmcLoop' = 0
  /\ pc' = "wait"
  /\ UNCHANGED <<bmcVars, romVars, ft, DownloadFailRetry, buf, FlashFlag, dmi>>

\* WaitRspStatus = 2.
WaitReady ==
  /\ pc = "wait"
  /\ pc' = "read"
  /\ UNCHANGED <<bmcVars, romVars, ft, localVars, dmi>>

\* WaitRspStatus = 0.
WaitNotAvailable ==
  /\ pc = "wait"
  /\ EndAttempt
  /\ UNCHANGED <<bmcVars, romVars, ft, WaitBmcLoop, flagVars, buf, FlashFlag, dmi>>

\* The file is being prepared, the status is unknown or the poll failed.
WaitBusy ==
  /\ pc = "wait"
  /\ WaitBmcLoop' = WaitBmcLoop + 1
  /\ IF WaitBmcLoop + 1 < MaxWait THEN UNCHANGED <<pc, DownloadFailRetry>>
                                  ELSE EndAttempt
  /\ UNCHANGED <<bmcVars, romVars, ft, flagVars, buf, FlashFlag, dmi>>

ReadError ==
  /\ pc = "read"
  /\ EndAttempt
  /\ UNCHANGED <<bmcVars, romVars, ft, WaitBmcLoop, flagVars, buf, FlashFlag, dmi>>

\* Mutant of ChecksumOk: the sum is not compared.
ChecksumIgnored(content) == TRUE

\* The 8-bit sum, and for DMI the bound on the header's FileSize. The model
\* calls Corrupt exactly the data that this test rejects.
ChecksumOk(content) == content # Corrupt

\* The data read is what the BMC staged, or damaged.
Read ==
  /\ pc = "read"
  /\ buf' \in {bmc[ft], Corrupt}
  /\ IF ChecksumOk(buf')
       THEN /\ DownloadSuccess' = 1
            /\ pc' = IF ft = "STORAGE" THEN "flags" ELSE "report"
            /\ UNCHANGED DownloadFailRetry
       ELSE EndAttempt /\ UNCHANGED DownloadSuccess
  /\ UNCHANGED <<bmcVars, romVars, ft, WaitBmcLoop, DownloadProcess, FlashFlag, dmi>>

-----------------------------------------------------------------------------
(* DownloadOobDataDone and the ROM write.                                  *)

\* Nothing was offered in the last attempt: no result is sent.
ReportNothing ==
  /\ pc = "report"
  /\ DownloadProcess = 0
  /\ Leave
  /\ UNCHANGED <<bmcVars, romVars, dmi>>

\* DownloadOobDataDone(1). The BMC keeps the file or discards it.
ReportFailure ==
  /\ pc = "report"
  /\ DownloadProcess = 1 /\ DownloadSuccess = 0
  /\ bmc' \in {bmc, [bmc EXCEPT ![ft] = NoFile]}
  /\ Leave
  /\ UNCHANGED <<submitted, romVars, dmi>>

\* Mutant of ReportSuccess: the file is stored and the BMC is not told.
ReportSuccessUnsent ==
  /\ pc = "report" /\ ft \in UserFile
  /\ DownloadProcess = 1 /\ DownloadSuccess = 1
  /\ pc' = "store"
  /\ UNCHANGED <<bmcVars, romVars, ft, localVars, dmi>>

\* DownloadOobDataDone(0) succeeds: the BMC gives the user's file up.
ReportSuccess ==
  /\ pc = "report" /\ ft \in UserFile
  /\ DownloadProcess = 1 /\ DownloadSuccess = 1
  /\ bmc' = [bmc EXCEPT ![ft] = NoFile]
  /\ pc' = "store"
  /\ UNCHANGED <<submitted, romVars, ft, localVars, dmi>>

\* DownloadOobDataDone(0) fails, before or after the BMC has acted on it: the
\* file is not stored. STORAGE ends here whatever the answer.
ReportSuccessLeaves ==
  /\ pc = "report"
  /\ DownloadProcess = 1 /\ DownloadSuccess = 1
  /\ bmc' \in {bmc, [bmc EXCEPT ![ft] = NoFile]}
  /\ Leave
  /\ UNCHANGED <<submitted, romVars, dmi>>

\* A flash operation fails in SmcRomHoleWriteRegion, or SetVariable does.
Fault ==
  /\ faults < MaxFault
  /\ postFaults' = postFaults + 1
  /\ faults' = faults + 1

Store ==
  /\ pc = "store"
  /\ rom' = WriteRegion(rom, Target(ft), buf)
  /\ stored' = stored \cup {buf}
  /\ fresh' = [fresh EXCEPT ![ft] = buf]
  /\ Leave
  /\ UNCHANGED <<bmcVars, faultVars, dmi>>

\* The status of SmcRomHoleWriteRegion is not looked at.
StoreError ==
  /\ pc = "store"
  /\ rom' \in FailedWrites(rom, WriteRegion(rom, Target(ft), buf))
  /\ stored' = IF rom'[Target(ft)] = buf THEN stored \cup {buf} ELSE stored
  /\ Fault
  /\ Leave
  /\ UNCHANGED <<bmcVars, fresh, dmi>>

-----------------------------------------------------------------------------
(* DownloadBiosStorageFromBmc: the regions restored from the backup.       *)

\* The buffer after the user's choices are applied to it: "SMBIOS not
\* preserved" leaves only "$SMC", "SMBIOS preserved" sets the flag of the region,
\* "OA not preserved" blanks both OA regions.
Restored(content, flags) ==
  [r \in Region |->
     IF r = "SMBIOS_FOR_BMC" /\ flags \in {"none", "oa"} THEN Smc
     ELSE IF r = "SMBIOS_FOR_BMC" /\ flags \in {"smbios", "both"} THEN Flagged
     ELSE IF r \in {"OA3", "OA2"} /\ flags \in {"none", "smbios"} THEN Blank
     ELSE content]

GetFlags ==
  /\ pc = "flags"
  /\ FlashFlag' \in Flags
  /\ pc' = "writeSmbios"
  /\ UNCHANGED <<bmcVars, romVars, ft, loopVars, flagVars, buf, dmi>>

\* Nothing is restored, yet the download still counts as a success.
GetFlagsError ==
  /\ pc = "flags"
  /\ pc' = "clear"
  /\ UNCHANGED <<bmcVars, romVars, ft, localVars, dmi>>

\* One of the three region writes; its status is not looked at.
Restore(at, r, next) ==
  /\ pc = at
  /\ LET new == WriteRegion(rom, r, Restored(buf, FlashFlag)[r])
     IN  \/ rom' = new /\ UNCHANGED faultVars
         \/ rom' \in FailedWrites(rom, new) /\ Fault
  /\ pc' = next
  /\ UNCHANGED <<bmcVars, stored, fresh, ft, localVars, dmi>>

RestoreSmbios == Restore("writeSmbios", "SMBIOS_FOR_BMC", "writeOA3")
\* Mutant of RestoreOA3: the second OA region is forgotten.
RestoreOA3Only == Restore("writeOA3", "OA3", "clear")

RestoreOA3    == Restore("writeOA3", "OA3", "writeOA2")
RestoreOA2    == Restore("writeOA2", "OA2", "clear")

\* Mutant of ClearFlags: PlatformId is not tested.
ClearFlagsThenFull ==
  /\ pc = "clear"
  /\ pc' = "full"
  /\ UNCHANGED <<bmcVars, romVars, ft, localVars, dmi>>

\* SmibiosPreservation(1); its status is not looked at.
ClearFlags ==
  /\ pc = "clear"
  /\ pc' = IF Bakerville THEN "full" ELSE "report"
  /\ UNCHANGED <<bmcVars, romVars, ft, localVars, dmi>>

\* Mutant of WriteFull: the backup is written as it was read.
WriteFullUnfiltered ==
  /\ pc = "full"
  /\ rom' = [r \in Region |-> buf]
  /\ pc' = "report"
  /\ UNCHANGED <<bmcVars, stored, fresh, faultVars, ft, localVars, dmi>>

\* "Patch for Bakerville update BIOS issue": FULL_REGION is written.
WriteFull ==
  /\ pc = "full"
  /\ \/ rom' = Restored(buf, FlashFlag) /\ UNCHANGED faultVars
     \/ rom' \in FailedWrites(rom, Restored(buf, FlashFlag)) /\ Fault
  /\ pc' = "report"
  /\ UNCHANGED <<bmcVars, stored, fresh, ft, localVars, dmi>>

-----------------------------------------------------------------------------
(* SmcEDMIInit.                                                            *)

smbios == rom["SMBIOS_FOR_BMC"]

\* The region is signed and its flag is set; one that is torn may be so or not.
RestoreAsked == (smbios = Flagged /\ BackupSigned) \/ smbios = Torn

\* Count is 0 or 0xff.
NoneToRestore == BackupCount \in {0, 255} \/ smbios = Torn
SomeToRestore == BackupCount \notin {0, 255} \/ smbios = Torn

\* The region is written; the status is not looked at.
WriteSmbios(content) ==
  LET new == WriteRegion(rom, "SMBIOS_FOR_BMC", content)
  IN  \/ rom' = new /\ UNCHANGED faultVars
      \/ rom' \in FailedWrites(rom, new) /\ Fault

\* Flags = 0.
Unflagged == IF smbios = Flagged THEN Backup ELSE smbios

\* No protocol, no memory, the region cannot be read, or the variables are not to be
\* saved.
EdmiSkips ==
  /\ pc = "finished"
  /\ pc' = "ready"
  /\ UNCHANGED <<bmcVars, romVars, ft, localVars, dmi>>

EdmiEmpty ==
  /\ pc = "finished" /\ RestoreAsked /\ NoneToRestore
  /\ WriteSmbios(Unflagged)
  /\ pc' = "ready"
  /\ UNCHANGED <<bmcVars, stored, fresh, ft, localVars, dmi>>

\* Mutant of EdmiVars: the flag is cleared first.
EdmiVarsUnflag ==
  /\ pc = "finished" /\ RestoreAsked /\ SomeToRestore
  /\ WriteSmbios(Unflagged)
  /\ dmi' = "vars"
  /\ pc' = "edmiArray"
  /\ UNCHANGED <<bmcVars, stored, fresh, ft, localVars>>

\* The loop over the DmiVars ends at the first that cannot be set.
EdmiVars ==
  /\ pc = "finished" /\ RestoreAsked /\ SomeToRestore
  /\ \/ dmi' = (IF smbios = Flagged THEN "vars" ELSE "other") /\ UNCHANGED faultVars
     \/ dmi' = "other" /\ Fault
  /\ pc' = "edmiArray"
  /\ UNCHANGED <<bmcVars, rom, stored, fresh, ft, localVars>>

\* DmiArray is set whatever has become of the loop.
EdmiArray ==
  /\ pc = "edmiArray"
  /\ \/ dmi' = (IF dmi = "vars" THEN "backup" ELSE "other") /\ UNCHANGED faultVars
     \/ dmi' = "other" /\ Fault
  /\ pc' = "edmiClear"
  /\ UNCHANGED <<bmcVars, rom, stored, fresh, ft, localVars>>

\* The flag is cleared and the system is reset, whatever the writes returned.
EdmiClear ==
  /\ pc = "edmiClear"
  /\ WriteSmbios(Unflagged)
  /\ pc' = "off" /\ ft' = "BIN"
  /\ UNCHANGED <<bmcVars, stored, fresh, localVars, dmi>>

\* "Save system DMI to SMCROMHOLE", when its checksum differs from that of the region:
\* a table of the DmiVars, or a region with nothing but "$SMC".
EdmiSave ==
  /\ pc = "finished" /\ (RestoreAsked => smbios = Torn)
  /\ \E content \in {Smc, Table} : WriteSmbios(content)
  /\ pc' = "ready"
  /\ UNCHANGED <<bmcVars, stored, fresh, ft, localVars, dmi>>

-----------------------------------------------------------------------------
(* The environment.                                                        *)

\* A user hands a file to the BMC.
Submit(t, i) ==
  /\ i \notin submitted
  /\ bmc[t] = NoFile
  /\ bmc' = [bmc EXCEPT ![t] = i]
  /\ submitted' = submitted \cup {i}
  /\ UNCHANGED <<romVars, pc, ft, localVars, dmi>>

\* The BMC has a backup of the ROM hole from an earlier upload.
SubmitBackup ==
  /\ pc = "off"
  /\ bmc["STORAGE"] = NoFile
  /\ bmc' = [bmc EXCEPT !["STORAGE"] = Backup]
  /\ UNCHANGED <<submitted, romVars, pc, ft, localVars, dmi>>

\* The rest of the POST: SmcInBandCallback, which comes after SmcEDMIInit, consumes
\* what it finds in the two regions and may change the DMI variables. Blank stands for
\* whatever it leaves there that no user submitted.
FinishPost ==
  /\ pc = "ready"
  /\ \E S \in SUBSET {"INBAND", "CURRENT_SMBIOS"} :
       rom' = [r \in Region |-> IF r \in S THEN Blank ELSE rom[r]]
  /\ dmi' \in {dmi, "other"}
  /\ pc' = "off" /\ ft' = "BIN"
  /\ UNCHANGED <<bmcVars, stored, fresh, faultVars, localVars>>

\* The power fails or the system is reset.
Crash ==
  /\ pc # "off"
  /\ pc' = "off" /\ ft' = "BIN"
  /\ ClearLocals
  /\ UNCHANGED <<bmcVars, romVars, dmi>>

\* The BIOS ROM is reflashed by a programmer or by the BMC, with or without its NVRAM.
Reflash ==
  /\ pc = "off"
  /\ rom' = Erased
  /\ dmi' \in {dmi, "other"}
  /\ UNCHANGED <<bmcVars, stored, fresh, faultVars, pc, ft, localVars>>

-----------------------------------------------------------------------------
Bios ==
  \/ Enter \/ EnterSkips
  \/ StartError \/ StartNotAvailable \/ StartAvailable
  \/ WaitReady \/ WaitNotAvailable \/ WaitBusy
  \/ ReadError \/ Read
  \/ ReportNothing \/ ReportFailure \/ ReportSuccess \/ ReportSuccessLeaves
  \/ Store \/ StoreError
  \/ GetFlags \/ GetFlagsError
  \/ RestoreSmbios \/ RestoreOA3 \/ RestoreOA2
  \/ ClearFlags \/ WriteFull

Edmi == EdmiSkips \/ EdmiEmpty \/ EdmiVars \/ EdmiArray \/ EdmiClear \/ EdmiSave

Environment ==
  \/ Boot \/ FinishPost \/ Crash \/ Reflash \/ SubmitBackup
  \/ \E t \in UserFile, i \in Image : Submit(t, i)

Next == Bios \/ Edmi \/ Environment

Spec == Init /\ [][Next]_vars

\* The BIOS runs the POST to its end unless it is stopped from outside.
FairSpec == Spec /\ WF_vars(Bios)

-----------------------------------------------------------------------------
(* Properties.                                                             *)

\* Success is reported to the BMC only for data that is, byte for byte, the
\* file the BMC still offers: no retry, poll or read error of the download
\* loops lets damaged or stale data through to DownloadOobDataDone(0).
SuccessReportIsTruthful ==
  (pc = "report" /\ DownloadSuccess = 1) => (DownloadProcess = 1 /\ buf = bmc[ft])

\* A file stored in this POST is still in its region when DownloadFileFromBMC
\* returns and when SmcInBandCallback looks for it, unless a flash write failed: the
\* restore of the backup and the writes of SmcEDMIInit that run in between do not touch
\* the two regions.
StoredAwaitsInBand ==
  (pc \in {"finished", "ready"} /\ postFaults = 0) =>
    \A t \in UserFile : fresh[t] # NoFile => rom[Target(t)] = fresh[t]

\* When the backup is acknowledged, all three regions hold what the user's
\* preserve flags ask for, across the three separate writes, unless a write
\* failed or the flags could not be read.
PreserveHonoured ==
  (pc = "report" /\ ft = "STORAGE" /\ DownloadSuccess = 1 /\ postFaults = 0 /\ FlashFlag # "error")
    => \A r \in {"SMBIOS_FOR_BMC", "OA3", "OA2"} :
         rom[r] = Restored(bmc["STORAGE"], FlashFlag)[r]

\* SMBIOS data that the user chose to preserve passes from the backup through the ROM
\* hole into NVRAM, in one POST or, after a power loss between any two writes, in later
\* ones: no step of a POST without a failed write takes the flag that
\* DownloadBiosStorageFromBmc has set off the region, replaces the region by a backup,
\* or saves the variables over it, before SmcEDMIInit has set the DmiVars and their
\* DmiArray from it. (A region without a variable has nothing to pass on.)
PreservedReachesNvram ==
  [][smbios = Flagged /\ BackupSigned /\ BackupCount \notin {0, 255}
       /\ pc # "off" /\ postFaults' = 0 /\ smbios' # Flagged => dmi' = "backup"]_vars

\* Every POST gets through the downloads, however the BMC answers: the retry
\* and poll loops are bounded.
DownloadTerminates == (pc = "enter") ~> (pc \in {"finished", "off"})

\* What has become of a user's file, as FileDelivery counts it.
FateOf(i) ==
  IF pc = "store" /\ buf = i THEN "taken"
  ELSE IF \E t \in UserFile : bmc[t] = i THEN "offered"
  ELSE IF i \in stored THEN "stored"
  ELSE IF i \in submitted THEN "lost"
  ELSE "new"

fates == [i \in Image |-> FateOf(i)]

Delivery == INSTANCE FileDelivery WITH fate <- fates

\* The downloads implement at-most-once delivery: DownloadOobDataDone(0) takes
\* the file from the BMC before the ROM write, and no retry, lost reply, failed
\* write or power loss makes a file reach the ROM twice.
DeliversAtMostOnce == Delivery!Spec
=============================================================================
