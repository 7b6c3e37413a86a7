# A TLA+ model of the out-of-band management of this BIOS

The repository is a complete server BIOS tree. Almost all of it is AMI and Intel
code; its own core logic is `src/SmcPkg/Module/SmcOOB` with the drivers it rests on
(`SmcRomHole`, `SmcSwSmiFlash`, `SmcLib`, part of `SmBios`): the exchange of configuration files
between the BIOS, the BMC and OS tools. This directory models that part.

## The system

In every POST the BIOS

1. asks the BMC (PEI) which files it holds (`OobFileStatus0`);
2. **downloads** from the BMC a BIOS configuration (BIN), an SMBIOS file (DMI) and, if
   the ROM lost its `$SMC` signature, a backup of the ROM hole (STORAGE), and writes
   them to the ROM hole (`SmcOutBand.c`, `DownloadFileFromBMC`);
3. **restores** the DMI variables from a backup that the user chose to preserve and
   resets, or **saves** them to the ROM hole (`SmcSmBios.c`, `SmcEDMIInit`);
4. **applies** what it finds there (`SmcInBandCallback`): the configuration to NVRAM
   variables, the SMBIOS file to `DmiVar*`/`DmiArray`; each resets the system;
5. **combines** (`SmcInBandReadyToBoot`) the settings now in force into files;
6. **uploads** these files to the BMC when they changed (`UploadOobDataToBmc`).

While the OS runs, a tool (SUM) hands files to the SMI handlers of `SmcInBandSmm.c`,
which write them to the ROM hole for the next POST.

The order of 2 to 4 is fixed: `DownloadFileFromBMC` (TPL_NOTIFY) and `SmcEDMIInit`
(TPL_CALLBACK) are notified of the same protocol, and `OobLibrary.sdl` links the event of
`SmcInBandCallback` behind the one that installs it.

| Component | State | Operations | Talks to | Hard behaviour | Correct when |
|---|---|---|---|---|---|
| `SmcOutBand` downloads | ROM hole, loop counters, buffer | start, poll, read, report, store, restore | BMC by IPMI, ROM hole | lost replies, retries, power loss between report and store, failing writes | only intact files are acknowledged, a file arrives at most once, the user's preserve flags are honoured, the POST goes on |
| `SmcOutBand`, `SmcAssetInfo` uploads | saved digests, the BMC's files | compare, prepare, start, done, save digest | BMC, NVRAM | digest saved after the upload, stale file status, lost replies | the BMC is current when the end is signalled |
| `SmcSmBios` (`SmcEDMIInit`) | SMBIOS_FOR_BMC with its flag byte, `DmiArray`, `DmiVar` | restore, clear the flag, reset; save | ROM hole, NVRAM | power loss between variables and flag, ignored statuses | data to preserve reaches NVRAM before its flag goes |
| `SmcRomHole`, `SmcSwSmiFlash` | flash, write-enable counters | read-merge-erase-program of the whole hole, in DXE, by SMI or in SMM | flash driver | power loss or error in a pass, ignored statuses | one region changes, the others stay |
| `SmcInBand` SMBIOS | `DmiArray`, `DmiVar`, CURRENT and PREVIOUS regions | compare, set, delete, clear Source, combine | ROM hole, NVRAM, SMBIOS driver | power loss between two NVRAM writes, repeated application, reset loop | the last file takes effect, once |
| `SmcInBand` BIOS configuration | INBAND region, variables, `SmcInBandLoadDefault` | apply records, load defaults, erase, reset, combine | ROM hole, NVRAM, PEI, RAID driver | reset loop, failing erase, power loss between RAID commands and erase | a file takes effect, its RAID commands delete what was meant, the loop ends |
| `SmcInBand` ready to boot, SMI handlers, CMOS cells | `pBuffer`, SMRAM copies, four CMOS bytes | combine three files, E8 copies, E6 answers, uploads read | OS tools, ROM writes, uploads | one mailbox shared by several users, areas that overlap | a reader gets the complete file of this POST |
| `SmcLsiRaidOOB` driver | hook, hash tables, `Process`, lists per card | start, download, collect, handle, export | HII browser, cards, in-band configuration | same names on all cards, global pointers, hook toggling, a card that fails | every value reaches its card, hook balanced |
| `SmcLsiRaidOOB` commands | command sets, menu position | parse, look up, examine, walk through menus | menus of one card | a row that fails in the middle, state left over from an earlier command | a drive is built as its command says or not at all |
| HII conversion, feature flags, compression, encryption | buffers | conversions | | none | (not modelled: pure data) |

## Modules

| Module | Models |
|---|---|
| `RomHole` | the ROM hole as callers see it: the regions, a successful write, and every image that a failing or interrupted one can leave |
| `SmcRomHole` | the same call block by block: `SmcRomHole.c`, `SmcRomHoleSmm.c`, the handler of SMI 0xE9, the flash driver's counter |
| `RomHoleCalls` | the abstract specification that `SmcRomHole` implements |
| `OobDownload` | `DownloadFileFromBMC` with its three download functions, `SmcEDMIInit`, the BMC, power losses |
| `FileDelivery` | the abstract specification that `OobDownload` implements: at-most-once delivery |
| `OobUpload` | `UploadOobDataToBmc` and the asset upload, as one sequence over a list of files |
| `InBandSmbios` | `InBandUpdateSmbios`, `UpdateToNVRAM`, `CombineSmbios`, the arrival of files |
| `InBandBiosCfg` | the life of INBAND_REGION: `InBandUpdateBiosCfg`, `UpdateBiosCfgToSystem`, `UpdateVariable`, the request for the defaults with its PEI half, `CombineBiosCfg` |
| `InBandData` | `SmcInBandReadyToBoot`: three files in `pBuffer`, the CMOS cells, SMI 0xE8, SMI 0xE6, what the uploads read |
| `RaidDriver` | one POST of `SmcLsiRaidOOBSetup.c`/`SmcLsiRaidOOB.c` for several cards: Start, Download, CollectData, HandleData, ParseNvData |
| `RaidCommands` | `SmcLsiRaidOOBCmd.c`: parsing with what the parsers reject, look-up, examination and execution of the RAID commands of one card |
| `OobDownloadProofs`, `OobUploadProofs`, `SmcRomHoleProofs`, `InBandSmbiosProofs`, `InBandBiosCfgProofs`, `InBandDataProofs`, `RaidDriverProofs`, `RaidCommandsProofs` | theorems |
| `MC*` | the instances for TLC |

`OobDownload` uses `RomHole` for its writes. `SmcRomHole` shows, by refinement of
`RomHoleCalls`, that the outcomes `RomHole` allows cover what the code does.
`InBandSmbios` keeps only the two SMBIOS regions and lets a failed write leave each
of them old, new or damaged, a superset of `FailedWrites`; `InBandBiosCfg` does the same
for its two regions. A call of `SmcRomHole` names one region: FULL_REGION
(`SmcRomHole.c:100`) has one caller, on Bakerville, and is `WriteFull` of `OobDownload`.
The error return of `DeviceWriteEnable` (:132) is `EnableFails`.

State and actions keep the code's names (`DownloadProcess`, `WaitBmcLoop`,
`FileRetry`, `WriteEnableCounter`, ...). The program counter `pc` names the next
statement with an effect. One action is one such statement with its error handling;
every interleaving with power losses, the BMC's user and OS tools is allowed
between two of them. The three download functions differ in the region they write
and in the STORAGE-only steps; the model has one set of actions with the file type
`ft`. The upload functions are treated in the same way.

In `OobDownload` the SMBIOS_FOR_BMC region is blank, torn, signed without variables
(`Smc`), a table that `SmcEDMIInit` saved (`Table`), the backup (`Backup`) or the backup
with the flag byte set (`Flagged`). `dmi` is what NVRAM has: the backup's `DmiVar`s, these
and their `DmiArray`, or anything else. The backup's own flag is taken to be clear: it was
uploaded after `SmcEDMIInit` had cleared it. `FinishPost` is the rest of the POST as far as
this module can see it; writes of the in-band drivers that fail are in their own modules.

In `InBandSmbios` a list `DmiArray` stands for the 8-bit count and the records behind it.
At the largest count an 8-bit index never passes it: the search for a record that is not
listed (`SmcInBandSmbios.c:571`) goes on for ever (`UnlistHangs`, `Spin`); when the record
is found, the loop that closes the gap (:578) goes on at index 0, where it takes the type
of the first record for the count, and so ends (`Overrun`); and a record behind the last
one lands at index 0 too (`With`). `SmcEDMIInit`, which writes the same variables, runs
before and is modelled in `OobDownload` only.

In `InBandBiosCfg` a file is a sequence of records with a flag; the loop over the
records is one action per record, with the way each is taken: set, offered to the RAID
driver, skipped. A torn file has kept a prefix of its records; what the code does with
the erased bytes behind it is undefined, so the POST dies, resets or goes on. The virtual
drives are a sequence, because a command names them by their place in a menu. The command
variable is a list of commands with numbers of drives each; of several records of the
variable the first counts (`SmcLsiRaidOOBCmd.c:187`). A command deletes its first drive,
and any or none of the others, as in `RaidCommands`; when a menu fails, any deletion may be
missing. `Smc_UpdatePlatformVariable` (`SmcInBandBiosCfg.c:528`) calls the functions of a
list that is empty in this tree, so it does nothing.

In `InBandData` memory is counted in blocks and the first block of a file is its
header. Blocks behind `pBuffer` and the SMRAM exist, so that a file larger than its area
has somewhere to go. `pc` is an index into `Steps`, the order of the calls in
`SmcInBandReadyToBoot` and `UploadOobDataToBmc`.

In `RaidDriver` the tables of functions, `DownFunc` and `ChangeFunc`, are data as in the
code, `fn` is `RaidIndex`, `curr` is `SmcLsiCurrHiiHandleTable` and `hash` the card whose
hash tables the global pointers show. A card answers only if the hook is in place and the
store is in the current tables. `RaidCommands` keeps the tables of menu rows as data
too; `list` and `alive` are the item list of the choosing row and whether the form
package it points into was freed: what is looked up in a freed package is open.

A `Text` is a command as it is written, with `Bad` for what is not a number, a size or a
known letter. `Analysed` is what the parsers leave of it: `ParseCmdRaidType` drops a level
of 255 or more or with a wrong character, `ParseCmdRaidSize` a size that does not end in a
known unit, `ParseCmdRaidJbod` an unknown letter, and `ParseCmdGroup` ends before the first group
that is empty or has a wrong character or a number of 255 or more. The command then goes
on without that section.

`OobDownload` and `SmcInBand*` share regions of the ROM hole; each of the in-band modules
lets a download of its own file happen in the POST (`DownloadBiosCfgFromBMC`, the arrival
in `InBandSmbios`). `InBandBiosCfg` sees the RAID driver as collected commands that are
handled at `HandleDataStart`; `RaidDriver` and `RaidCommands` show what lies behind it.

Abstractions: a file is a value; `Corrupt` stands for any data the checksum rejects
(an undetected 8-bit collision is the BMC's file for this purpose); a torn region is
`Torn`, which may have a signature or a flag or not; regions are the unit of erasing,
although OA3 and OA2 share a 4K block. A missing flash or ROM hole protocol, which
disables a whole POST, is not modelled.

## Runs

| Run | Instance | Shows |
|---|---|---|
| `download` | 2 files, 2 attempts, 2 polls, no failing write, a backup without variables | `SuccessReportIsTruthful`, `StoredAwaitsInBand`, `PreserveHonoured`, `DownloadTerminates`, refinement of `FileDelivery` |
| `download_fault` | 2 files, 1 attempt, 1 poll, one failing write anywhere, Bakerville, a backup with 2 variables | `PreserveHonoured`, `PreservedReachesNvram`, refinement of `FileDelivery` with torn regions and the FULL_REGION write |
| `download_full` | Bakerville | **violation**, finding 1 |
| `upload` | BIN and FEATURE, 3 contents, 2 attempts | `CurrentWhenSignalled`, `DigestVouchesForBmc`, `UploadTerminates` |
| `upload_skip` | the same, 1 attempt | **violation**, finding 2 |
| `rom_hole` | 2 regions, 2 contents, one leaked enable | `WritesOneRegion` (refinement), `DirectSuccessIsWritten`, `EnabledOnlyByErrors` |
| `in_band_smbios` | a string and a number, 2 files, one power loss, two failing NVRAM and ROM writes, a count of at most 4 | `ListedWhenSet`, `FileTakesEffect`, `UpdateSettles` |
| `in_band_overlap` | the same without failures | **violation**, finding 3 |
| `bios_cfg` | 2 files out of 5, 3 virtual drives, one failing NVRAM write, one failing ROM write, one failing menu, one power loss, one long name | `FileTakesEffect`, `ExactArrays`, `RunsBounded`, `PostEnds` |
| `in_band_data` | areas of 3, 2 and 3 blocks, a tool's buffer of 2, files of 0 to 6 blocks, 2 POSTs | `RepliesIntact`, `UploadsIntact` |
| `raid_driver` | 3 cards, one without variables, 5 files, 2 POSTs, 2 failures | `HookBalanced`, `ChangesReachTheirCard`, `ExportedOnce`, `PostEnds` |
| `raid_commands` | all pairs of 58 commands, 6 drives, 2 failing rows | `BuildExact`, `DeletesOnlyNamed`, `CommandsMeaning`, `HandlingEnds` |

Bounds. Two attempts and two polls are enough to tell the last iteration from the
others, and the proofs lift both bounds. Two files per type let a second file arrive
while the first is anywhere in the pipeline; files are submitted once each, so that
a second delivery can be recognised. Three contents with two of them sharing a
header make the feature file collide. In `InBandSmbios` the 8-bit count of `DmiArray` is
0..4 instead of 0..255, so that both its wraps happen: when the deletion of a variable
fails twice, the second pass finds no record to remove, the count goes from 0 to its
largest value, and the third pass hangs in its search. The images of `download_fault` are
symmetric.

The five files of `bios_cfg` have a variable that is set twice, records of each kind that
is refused, commands whose drives get other numbers when the first is deleted and a second
record of them, a request for the
defaults and a file without a request; one fault of each kind reaches every place, and
two files let one arrive while the other is anywhere. In `in_band_data` each file can be
absent, smaller than the tool's buffer, smaller than its area, and so large that it
covers both areas behind it; the second POST finds what the first has left in memory. Three cards
in `raid_driver` are the fewest with a first, a middle and a last one; the middle one has
no variables, so that the walks have to skip it. In `raid_commands` two commands are
enough for one to leave something behind for the next, and two faults for one in each or
for a failing way back from a failure.

Deadlock is checked in every run but `in_band_data` and `raid_driver`, where the bound
on POSTs leaves the OS running with nothing more to do.

Fairness. The BIOS is single-threaded and its steps are bounded waits, so `WF(Bios)`:
a POST that is not stopped from outside continues. Nothing is assumed of the BMC, of
its answers or of power. In `InBandSmbios` the machine is also assumed to be switched
on again and the OS to be shut down some day, and power losses and failing writes are
bounded; without that no update could ever end. In `InBandBiosCfg` the fairness is that
of a POST that has power, `WF(pc # "off" /\ Bios)`: the machine may stay off. In
`RaidDriver` and `RaidCommands` it is that of the driver's own steps, `WF(Driver)` and
`WF(Handle)`; a call-back of a card returns, with or without an error.

## Findings

1. `download_full`: on Bakerville boards the FULL_REGION write
   (`SmcOutBand.c:1213`) overwrites the BIN and DMI files stored in the same POST,
   which the BMC no longer has; the comments at :508 and :1351 say they wait there
   for the in-band driver. All other platforms satisfy the property.
2. `upload_skip`: a digest that is not saved after an upload (power loss, failed
   `SetVariable`) makes a later POST skip an upload although the BMC holds another
   file, while the log says that both are the same (`SmcOutBand.c:346`, :604).
   `CurrentWhenSignalled` shows that this is the only way beside giving up and a
   BMC that loses files.
3. `in_band_overlap`: two SMBIOS files in consecutive POSTs: the second is compared
   with the table from before the first (`SmcInBandSmbios.c:740`), and a field that it
   changes back is skipped.

Some properties hold only with an exception for what the code does not do, and TLC finds
them violated without it; two more disagreements have no property:

- `PostEnds` of `InBandBiosCfg` excepts a variable with a name longer than the 512-byte
  buffer: on EFI_BUFFER_TOO_SMALL the scan of `CombineBiosCfg` asks again for the same
  name with the same buffer (`SmcInBandBiosCfg.c:327`), although the comment at :315
  says "Scan all variables in system.". It also excepts a torn file, whose checksum
  nobody tests. `ScanAgain` is that loop.
- `ExactArrays` excepts power losses and ROM faults: the commands are carried out before
  the region is erased, and a second run counts the drives anew. `RunsBounded` says how often.
- `UpdateSettles` excepts the POST that hangs at `SmcInBandSmbios.c:571`, and shows that it
  takes a failed NVRAM write, or power losses that fill the list (`RecordsSuffice`).
- `PreservedReachesNvram` and `PreserveHonoured` except a POST with a failed write: no status
  of a ROM or NVRAM write is looked at, and `SmcEDMIInit` clears the flag even when it could
  not set the variables (`SmcSmBios.c:218`-`230`).
- `BuildExact` and `CommandsMeaning` promise the command as written only when the parsers
  take every part of it: a rejected level, size or group is left out and the drive is
  built without it (`SmcLsiRaidOOBCmd.c:763`-`775`), of the default level, of the full size
  or with fewer spans.
- No property: `OobLoadDefaultPreSetting` sets its byte only in a region without a DMI file
  (`SmcOobLibraryProtocol.c:110`), the reverse of what the comment at :99 asks for; in such a
  region `SmcEDMIInit` does not look at it.
- No property: `ReadMe.txt:13` says that `CombineBiosCfg` updates INBAND_REGION; it does not touch it.
- `ChangesReachTheirCard` requires `Process` to be DRIVER_DOWNLOAD: one card that fails in
  Download keeps the file from all cards (`SmcLsiRaidOOB.c:1538`), although
  `SmcLsiRaidOOBCmd.c:2144` says "even if one RAID CARD have problem, other RAID CARD
  still need to handle".
- `CommandsMeaning` promises only the first drive of a delete command: the loop goes on
  with items of a form package that was freed (`SmcLsiRaidOOBCmd.c:1549`).
- `RepliesIntact` and `UploadsIntact` except the sizes at which one file lies over another;
  TLC finds both violated if a bound in them is one block larger.

## Proofs

`LessLeft`, in the proof module of each component with loops, is a ranking: a tuple of
naturals of which, with each step, the first number that changes gets smaller. It is the
part of the liveness properties that does not depend on fairness. TLC checks that the
loops end on instances with 2 attempts and 2 polls; the theorems below have the ranking
for every bound, so also for the 5 and 200 of the code. In the downloads, the uploads and
both RAID modules it is asked of every step of the POST; in the two in-band modules,
which reset the machine on purpose, of every step with the file still in its region, and
there the files, power losses and failing ROM writes that are left come first, so that
each round of resets has to be paid for by one of them.

`OobDownloadProofs`, for any set of files, any retry and poll bounds, any number of
failing writes and both kinds of platform:

- `TypeCorrect`: `Spec => []TypeOK`;
- `LoopsEnd`: `LessLeft`, for the files, the phases of a file, the attempts, the steps
  of an attempt and the polls;
- `ReportsAreTruthful`: `Spec => []SuccessReportIsTruthful`;
- `AtMostOnce`: `Spec => Delivery!Spec`, step simulation of `FileDelivery`;
- `FlagsAreHonoured` (`PreserveHonoured`) and `PreservedIsRestored`
  (`PreservedReachesNvram`, an action property);
- `StoredFilesAwait`: `StoredAwaitsInBand` on platforms other than Bakerville. The
  hypothesis is needed: finding 1 is the counterexample on Bakerville.

The inductive invariant (theorem `Invariance`) is `TypeOK` with three parts:

- `LoopInv`: what the counters and flags are at each step (while an attempt is
  started, waited for or read there are retries left and no success is recorded;
  while it is waited for there are polls left);
- `OfferInv`: only submitted files are stored, the BMC offers a user's file under one
  type only and never one that is already stored, and the storage type offers only the
  backup;
- `HandInv`: which file the BIOS holds at each step (the offered one while it waits
  and reads; the buffer equals the BMC's file when a success is to be reported or a
  region is restored; the file about to be stored was submitted, is not stored and is
  no longer offered).

The last two are needed because the refinement mapping reads the fate of a file off
the BMC, the BIOS's hands and the ROM hole together. The restore needs four more parts:
`FlagInv` (the preserve flags are the ones that were read, and only held during the
restore), `RestoreInv` (which of the three regions are restored at each step),
`FreshInv` (a file stored in this POST is in its region) and `UnsignedInv` (the backup is
only restored over a region without `$SMC`). `NvramInv` says what NVRAM holds between the
writes of `SmcEDMIInit`; together with `UnsignedInv` it gives `PreservedReachesNvram`.

`SmcRomHoleProofs`, for any contents, any target regions, both drivers and all three ways
of a call, and any number of failed calls:

- `TypeCorrect`, `EnabledByErrors` (`EnabledOnlyByErrors`), `DirectSuccess`
  (`DirectSuccessIsWritten`);
- `OneRegion` (`WritesOneRegion`): step simulation of `RomHoleCalls`.

The invariant says what the flash holds block by block (`PassInv`: behind the pass the
merged image, before it the old one, in between perhaps a torn block), what the locals
of a call are (`CallInv`) and that the driver's counter is the leaked enables plus the
call at hand (`CounterInv`). The caller's image stays the old one until the call ends,
so the refinement needs that every intermediate image is one of `FailedWrites`.

`OobUploadProofs`, for any list of files, contents and digests with MD5 injective:

- `TypeCorrect`, `SignalledIsCurrent` (`CurrentWhenSignalled`), `DigestsVouch`
  (`DigestVouchesForBmc`) and `LoopsEnd` (`LessLeft`).

`CurrentWhenSignalled` is not inductive: the invariant adds that a saved digest
vouches for the BMC's file unless the file is in `unsaved` (`VouchStep`), that a file
listed in `OobFileStatus0` is still there unless lost (`StatusStep`), that at the save
step the BMC has the data (`SaveStep`) and that all earlier files of the list are
settled (`SettledStep`).

`InBandSmbiosProofs`, for any list of fields, any values, files and failed writes:

- `TypeCorrect`;
- `SetIsListed` (`ListedWhenSet`) and `FilesTakeEffect` (`FileTakesEffect`), both under
  `RecordsSuffice`: `Len(Fields) + MaxCrash < MaxRecords`;
- `ResetsEnd`: `LessLeft`, without that hypothesis, from `TypeOK` and `FileInv`; and under it,
  from `ListInv`, that the POST never hangs as long as no NVRAM write has failed.

A power loss between the two NVRAM writes of a field leaves a record without a variable
in `DmiArray`, and the 8-bit count wraps when enough of them pile up, so no bound on the
records means no theorem; the instance of `in_band_smbios` has the smallest `MaxRecords` that
satisfies the hypothesis.
`ListInv` counts the records (at most one per set variable, per power loss and for the
field at hand), `GoalInv` says that a field is either as it was when the file arrived or
as the file asks, and as the file asks once the loop has passed it, `VarInv` that a
string is never set to the value that stands for the default, and `FileInv` which file
is at hand.

`InBandDataProofs`, for any sizes of the three areas, of the tool's buffer (not larger
than the HII area) and of the files, and any number of POSTs:

- `TypeCorrect`, `AnswersAreComplete` (`RepliesIntact`), `UploadsAreComplete`
  (`UploadsIntact`).

Neither property says anything about the steps before, so the invariant (theorem
`Invariance`) says what memory holds at each of them: `BufferInv` gives every block of
`pBuffer` as a function of the step and the sizes, `CellsInv` that the cells are right
whenever they are read, `SmramCfg`, `SmramHii` and `SmramFull` what each SMI has
copied and the later ones have left, and `FoundInv` that a finished upload has its file.

`RaidDriverProofs`, for any number of cards, variables, files and failures:

- `TypeCorrect`, `HooksAreBalanced` (`HookBalanced`), `ChangesReach`
  (`ChangesReachTheirCard`), `ExportsOnce` (`ExportedOnce`), `LoopsEnd` (`LessLeft`).

The hook is toggled, so the invariant ties it to the place in the tables: `HookInv`
(hooked exactly between the calls, the current hash tables are those of the card at hand
behind the first function), `ProcessInv` (HandleData runs only after a complete
Download) and `BrowserInv` (the browser is located by then, so a toggle cannot fail).
For the values, `DataInv` says function by function what each card holds: cards behind
the one at hand are done and cards before it untouched, in `Download` (`DownInv`) and in
`HandleData` (`ChangeInv`), and the first record of the file for a store is the first
that was collected for its card (`CollectInv`). `ExportedOnce` compares what was
exported with the lists of all cards put together; `WalkInv` and `ExportInv` say that it
is the lists of the cards behind the global pointer and the part of the current list
before it. For `LessLeft`, `RecordInv` keeps the loop over the records within the file.

`InBandBiosCfgProofs`, for any files, drives and failures:

- `TypeCorrect`, `CommandsNotRepeated` (`RunsBounded`), `ArraysAreExact` (`ExactArrays`),
  `FilesTakeEffect` (`FileTakesEffect`), `ResetsEnd` (`LessLeft`).

The bound alone is not inductive: `BudgetInv` adds that the last run is spent only between
the handling and the erase or when the request is gone, and `RequestInv` that commands are
handled only while there is a request. For the effect of a file `EInv` adds: the region holds
the last file, a prefix of it or nothing (`RegionInv`); the records that the loop has
passed have taken effect, and all have before the erase (`EffectInv`); a request for the
defaults is erased only when the PEI phase has carried it out or will (`DefaultInv`); no
variable comes or goes (`ExistsInv`); the RAID driver has collected the commands of the
records so far, those of the first record first, and the drives are the ones before the
handling or behind it (`CollectedInv`, `ExactArrays`).

`RaidCommandsProofs`, for any program of commands, malformed ones included, any menu of drives, any levels and
sizes and any number of failing rows:

- `TypeCorrect`, `DeletesAreNamed` (`DeletesOnlyNamed`), `BuildsAreExact` (`BuildExact`),
  `CommandsMean` (`CommandsMeaning`), `LoopsEnd` (`LessLeft`).

The properties speak of the text, the card and nothing in between, so the invariants say
what the driver has done at each row of each of the twelve tables. `FlowInv`: which
tables belong to the command at hand, that an enabled command was examined (its status is
that of its own examination), and where the loops over groups and drives are.
`ParsedInv`: the commands stay the parsed sections of the text with the drives of their
numbers; for a text that the parsers take as a whole these sections are the text.
`DeleteInv`: the drive in the delete form is one that a delete command names; the freed
item list does not matter, because the form is entered with the command's own name.
`FormInv`, `SpansInv`, `SelInv`: the level, size and warning entered so far, the spans
applied so far as the drives of the first groups, the drives chosen so far as those of
the first numbers, all of them unused. `UseInv`: no drive is both unused and in use.
That no two spans share a drive and that a span has as many drives as numbers follows
from the examination and from names being unique in the menu.

`CommandsMeaning` compares the card with the effect of the whole text, so it also needs
that a command that can be carried out does not fail without a fault. `FillInv` (theorem
`FillInvariance`) says what the menus hold while they are filled in: a build only
drives that were unconfigured at the start (`HdgInv`), the form at a choice the list it
began with (`ListInv`), a JBOD command the listed drives of its group (`JbodInv`), and a
warning is confirmed before it is answered (`ConfirmInv`). `MeaningInv` (theorem `MeaningInvariance`) says that without a
fault the drives are `Effect` of the commands so far (`EffectInv`), that a command which
is disabled before its turn is one that cannot be carried out (`RejectInv`), and that the first drive
of every delete command so far is gone and stays gone (`GoneInv`). Only the first one:
the loop goes on over a freed item list.

`LessLeft` of the commands counts the passes before the first command, the commands, the
tables of the command (a build goes back to its second table once per group), the drives
of the choice at hand, each with the table that is run within its turn, and the rows.

Recursive functions (`Written`, `Effect`, `Without`, `FlattenSeq`, the walk of `ExportedOnce`) are
handled without an induction rule: the set of places at which a claim fails has a
smallest element (`WFMin` on the naturals), which cannot be 0 and cannot have a
predecessor at which the claim holds.

Assumptions are those of the `ASSUME`s of the modules, which TLC evaluates in the
runs: bounds are positive naturals, the special values differ from files, MD5 is
injective on the contents of a file type, the drives of a menu have different names, the
value for no type of drive is not a type, and level 0, which the build form shows at
first, is a level of the card.

Only model-checked: liveness (`DownloadTerminates`, `UploadTerminates`, `UpdateSettles`,
`PostEnds`, `HandlingEnds`), because the prover handles neither fairness nor `ENABLED`.
What is missing from `LessLeft` to these is that a step is always possible until the end,
which TLC's deadlock and liveness checks show on the instances. The properties of the
three violation runs are false and so have no proof.

## Plan

Done: the ROM hole, downloads with `SmcEDMIInit`, uploads, in-band SMBIOS, the BIOS configuration, ready to
boot with the SMIs and the cells, the RAID driver and its commands; theorems about all of
them, for every safety and action property of a passing run. Left: one boot, that is
downloads, both in-band updates and uploads over one ROM hole with the order of the
call-backs and both resets.

## Not modelled

- The AMI, Intel and MDE packages, which are almost all lines of the tree: third-party
  code. Only what the modelled drivers use of the flash driver, the SMBIOS driver, the
  variable services, the form browser and the PEI IPMI initialisation is modelled, from
  its use.
- `EnumerateHpkList`, `GenFormLayout` and `SmcStack` (HII export), the contents of the
  SMBIOS tables, the generation of the feature file, `TianoCompress`, `CBlowfish`: conversions of
  large data without a state that lasts.
- `UpdateStdDefaults`, which copies the defaults for AMI's set-up; the set-up pages that
  `AddDynamicItems` builds; the chains of the hash tables, which are maps in the model;
  `SmcLsiRaidOOBLib_SupGray.c`, which nothing calls.
- `SmcSmBiosInit`, which passes the SMBIOS structures through the platform's functions, and
  the bytes of the table that `SmcEDMIInit` saves: its one-byte read of an eight-byte size
  (`SmcSmBios.c:205`), its 8-bit checksum loop (:279) and its count when a variable cannot
  be read (:267).
- How `SmcAssetInfo` collects its data, and the IPMI commands that no transfer uses.
- Memory outside a buffer: tables of fixed length that a long name, a long command or a
  large file overruns (`SmcInBandBiosCfg.c:516`, `SmcLsiRaidOOBCmd.c:520`,
  `SmcInBandSmbios.c:740`), and pool memory that is not freed (`SmcOutBand.c:1103`).
