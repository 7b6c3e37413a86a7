---------------------------- MODULE InBandSmbios ----------------------------
(***************************************************************************)
(* SmcInBandSmbios.c: an SMBIOS file in CURRENT_SMBIOS, stored there by    *)
(* DownloadSmbiosFileFromBmc in the POST or by an OS tool through the SMI  *)
(* handlers of SmcInBandSmm.c, is compared field by field with             *)
(* PREVIOUS_SMBIOS. Every field that differs is written to the NVRAM: its  *)
(* value to a DmiVar variable, its name to the list DmiArray. The system   *)
(* resets, the SMBIOS driver builds the table from the NVRAM, and          *)
(* CombineSmbios saves the new table to both regions. The power may fail   *)
(* between any two writes, and any write may fail.                         *)
(***************************************************************************)
EXTENDS Naturals, Sequences, SequencesExt

CONSTANTS
  Fields,         \* the editable fields, in the order of the file
  StringField,    \* the fields that are strings (DataSize = 0)
  Text,           \* the values of fields
  Factory,        \* the value of each field without a DmiVar
  Type,           \* the number of the SMBIOS structure that each field belongs to
  LoadDefault,    \* the value 0xFE
  None,           \* no variable; no file
  Damaged,        \* unreadable
  MaxRecords,     \* the largest 8-bit count of DmiArray (255 in the code)
  MaxFiles,       \* bound: files that arrive
  MaxFault,       \* bound: NVRAM writes, and ROM writes, that fail
  MaxCrash        \* bound: power losses in the POST

Field == {Fields[k] : k \in 1..Len(Fields)}

Value == Text \cup {LoadDefault}

ASSUME SmbiosAssumption ==
  /\ Fields \in Seq(Field) /\ Len(Fields) > 0 /\ Len(Fields) < MaxRecords
  /\ \A j, k \in 1..Len(Fields) : Fields[j] = Fields[k] => j = k
  /\ StringField \subseteq Field
  /\ Factory \in [Field -> Text]
  /\ Type \in [Field -> 0..(MaxRecords - 1)]
  /\ LoadDefault \notin Text /\ None \notin Value \cup Field /\ Damaged \notin Value

ASSUME SmbiosBoundsAssumption ==
  /\ MaxRecords \in Nat \ {0} /\ MaxFiles \in Nat
  /\ MaxFault \in Nat /\ MaxCrash \in Nat

VARIABLES
  DmiArray,       \* NVRAM: the list of the fields that have a DmiVar
  DmiVar,         \* NVRAM: the value of each field, or None
  current,        \* ROM: CURRENT_SMBIOS
  previous,       \* ROM: PREVIOUS_SMBIOS
  table,          \* the SMBIOS table of this boot
  pc,             \* the next step of the POST
  k,              \* SmbiosDataIndex: the field at hand
  files,          \* history: the files that have arrived
  goal,           \* history: the last file that arrived undamaged
  stale,          \* history: when it arrived, previous was not what the NVRAM held
  nvFaults,       \* history: the NVRAM writes that failed
  romFaults,      \* history: the ROM writes that failed
  crashes         \* history: the power losses in the POST

nvVars    == <<DmiArray, DmiVar>>
romVars   == <<current, previous>>
fileVars  == <<files, goal, stale>>
faultVars == <<nvFaults, romFaults, crashes>>
vars      == <<nvVars, romVars, table, pc, k, fileVars, faultVars>>

\* A region: "user" when Source is 1, "bios" when it is 0, "damaged" when the
\* signature or the checksum is wrong.
Origin == {"bios", "user", "damaged"}

Step == {"off", "download", "update", "field", "unlist", "hung", "set", "clear",
         "combine", "combineCurrent", "os"}

TypeOK ==
  /\ DmiArray \in Seq(Field \cup {None}) /\ Len(DmiArray) <= MaxRecords
  /\ DmiVar \in [Field -> Value \cup {None}]
  /\ current \in [origin : Origin, data : [Field -> Value]]
  /\ previous \in [Field -> Value \cup {Damaged}]
  /\ table \in [Field -> Value]
  /\ pc \in Step
  /\ k \in 1..Len(Fields)
  /\ files \in 0..MaxFiles
  /\ goal \in [Field -> Value] \cup {None}
  /\ stale \in {0, 1}
  /\ nvFaults \in 0..MaxFault
  /\ romFaults \in 0..MaxFault
  /\ crashes \in 0..MaxCrash

Listed(f) == \E i \in 1..Len(DmiArray) : DmiArray[i] = f

\* The SMBIOS driver overwrites every listed field that has a variable.
Effective ==
  [f \in Field |-> IF Listed(f) /\ DmiVar[f] # None THEN DmiVar[f] ELSE Factory[f]]

\* A system that has booted once: CombineSmbios has saved its table.
Init ==
  /\ DmiArray = <<>> /\ DmiVar = [f \in Field |-> None]
  /\ current = [origin |-> "bios", data |-> Factory]
  /\ previous = Factory /\ table = Factory
  /\ pc = "os" /\ k = 1
  /\ files = 0 /\ goal = None /\ stale = 0
  /\ nvFaults = 0 /\ romFaults = 0 /\ crashes = 0

-----------------------------------------------------------------------------
(* Writes.                                                                 *)

NvFault  == nvFaults < MaxFault /\ nvFaults' = nvFaults + 1
RomFault == romFaults < MaxFault /\ romFaults' = romFaults + 1

NoCurrent  == [origin |-> "damaged", data |-> Factory]
NoPrevious == [f \in Field |-> Damaged]

\* One call of SmcRomHoleWriteRegion, whose status no caller looks at. It
\* rewrites the whole hole: when it fails, each region is old, new or damaged.
WriteRom(c, p) ==
  \/ current' = c /\ previous' = p /\ UNCHANGED romFaults
  \/ /\ RomFault
     /\ current' \in {current, c, NoCurrent}
     /\ previous' \in {previous, p, NoPrevious}

-----------------------------------------------------------------------------
(* A file arrives.                                                         *)

Arrive(file) ==
  /\ files < MaxFiles /\ files' = files + 1
  /\ WriteRom(file, previous)
  /\ goal' = IF current'.origin = "user" THEN current'.data ELSE None
  /\ stale' = IF previous' = Effective THEN 0 ELSE 1
  /\ UNCHANGED <<nvVars, table, k, nvFaults, crashes>>

Boot ==
  /\ pc = "off"
  /\ pc' = "download"
  /\ table' = Effective
  /\ UNCHANGED <<nvVars, romVars, k, fileVars, faultVars>>

\* DownloadSmbiosFileFromBmc has checked the checksum of the file.
Download(d) ==
  /\ pc = "download"
  /\ pc' = "update"
  /\ Arrive([origin |-> "user", data |-> d])

\* The BMC has no file.
NoDownload ==
  /\ pc = "download"
  /\ pc' = "update"
  /\ UNCHANGED <<nvVars, romVars, table, k, fileVars, faultVars>>

\* A tool of the OS hands a file over; nothing is checked but its size.
DownloadDataFromRAM(file) ==
  /\ pc = "os"
  /\ Arrive(file)
  /\ UNCHANGED pc

-----------------------------------------------------------------------------
(* InBandUpdateSmbios.                                                     *)

\* No "_SMB", Source is 0 or the checksum is wrong.
NoUpdate ==
  /\ pc = "update"
  /\ current.origin # "user"
  /\ pc' = "combine"
  /\ UNCHANGED <<nvVars, romVars, table, k, fileVars, faultVars>>

StartUpdate ==
  /\ pc = "update"
  /\ current.origin = "user"
  /\ pc' = "field" /\ k' = 1
  /\ UNCHANGED <<nvVars, romVars, table, fileVars, faultVars>>

cur == Fields[k]
new == current.data[cur]

\* Mutant of NextField: one field too many.
NextFieldOffByOne ==
  /\ k' = k + 1
  /\ pc' = IF k <= Len(Fields) THEN "field" ELSE "clear"

NextField ==
  /\ k' = IF k < Len(Fields) THEN k + 1 ELSE 1
  /\ pc' = IF k < Len(Fields) THEN "field" ELSE "clear"

\* The comparison with a damaged PREVIOUS_SMBIOS may end either way.
Same    == previous[cur] \in {new, Damaged}
Differs == previous[cur] # new

\* Mutant of LoadsDefault: DataSize is not tested.
LoadsDefaultAnyField(f, v) == v = LoadDefault

LoadsDefault(f, v) == f \in StringField /\ v = LoadDefault

SkipSame ==
  /\ pc = "field" /\ Same
  /\ NextField
  /\ UNCHANGED <<nvVars, romVars, table, fileVars, faultVars>>

\* The variable of a field to be reset is not found.
DefaultAbsent ==
  /\ pc = "field" /\ Differs
  /\ LoadsDefault(cur, new) /\ DmiVar[cur] = None
  /\ NextField
  /\ UNCHANGED <<nvVars, romVars, table, fileVars, faultVars>>

\* The variable is deleted. The status is not looked at: the record is removed
\* in any case.
DeleteVar ==
  /\ pc = "field" /\ Differs
  /\ LoadsDefault(cur, new) /\ DmiVar[cur] # None
  /\ \/ DmiVar' = [DmiVar EXCEPT ![cur] = None] /\ UNCHANGED nvFaults
     \/ NvFault /\ UNCHANGED DmiVar
  /\ pc' = "unlist"
  /\ UNCHANGED <<DmiArray, romVars, table, k, fileVars, romFaults, crashes>>

Full == Len(DmiArray) = MaxRecords

\* No count of 8 bits is passed by an index of 8 bits: at the largest count the
\* loop that closes the gap goes on at index 0, takes the type of the first
\* record for the count and moves as many records once more.
Overrun(list) ==
  LET count == IF list = <<>> \/ Head(list) = None THEN 0 ELSE Type[Head(list)]
  IN  IF count = 0 THEN Append(list, None) ELSE SubSeq(list, 2, count)

Removed(f) == RemoveAt(DmiArray, SelectInSeq(DmiArray, LAMBDA g : g = f))

\* DmiArray without the first record of f. When there is none, the count is
\* decremented all the same: the last record is lost, and an 8-bit count of 0
\* becomes the largest one, over whatever earlier records left in the buffer.
Without(f) ==
  IF Listed(f) THEN {IF Full THEN Overrun(Removed(f)) ELSE Removed(f)}
  ELSE IF DmiArray # <<>> THEN {Front(DmiArray)}
  ELSE [1..MaxRecords -> Field \cup {None}]

\* Mutant of Unlist: the record is not looked for.
UnlistLast ==
  /\ pc = "unlist"
  /\ DmiArray' = Front(DmiArray)
  /\ NextField
  /\ UNCHANGED <<DmiVar, romVars, table, fileVars, faultVars>>

Unlist ==
  /\ pc = "unlist"
  /\ ~Full \/ Listed(cur)
  /\ \/ DmiArray' \in Without(cur) /\ UNCHANGED nvFaults
     \/ NvFault /\ UNCHANGED DmiArray
  /\ NextField
  /\ UNCHANGED <<DmiVar, romVars, table, fileVars, romFaults, crashes>>

\* The loop that looks for the record has no other end at the largest count.
UnlistHangs ==
  /\ pc = "unlist"
  /\ Full /\ ~Listed(cur)
  /\ pc' = "hung"
  /\ UNCHANGED <<nvVars, romVars, table, k, fileVars, faultVars>>

Spin ==
  /\ pc = "hung"
  /\ UNCHANGED vars

\* The record of a field is put behind the last one and counted. Behind record
\* MaxRecords the 8-bit index is 0: the type of the record is taken for the
\* count, which is then incremented.
With(f) ==
  IF Full THEN SubSeq(DmiArray, 1, Type[f] + 1) ELSE Append(DmiArray, f)

\* "Record not present, increment record count".
AddRecord ==
  /\ pc = "field" /\ Differs
  /\ ~LoadsDefault(cur, new) /\ DmiVar[cur] = None
  /\ DmiArray' = With(cur)
  /\ pc' = "set"
  /\ UNCHANGED <<DmiVar, romVars, table, k, fileVars, faultVars>>

\* The variable is not set when the list could not be written.
AddRecordFails ==
  /\ pc = "field" /\ Differs
  /\ ~LoadsDefault(cur, new) /\ DmiVar[cur] = None
  /\ NvFault
  /\ NextField
  /\ UNCHANGED <<nvVars, romVars, table, fileVars, romFaults, crashes>>

\* The variable exists: the list is left alone.
HasRecord ==
  /\ pc = "field" /\ Differs
  /\ ~LoadsDefault(cur, new) /\ DmiVar[cur] # None
  /\ pc' = "set"
  /\ UNCHANGED <<nvVars, romVars, table, k, fileVars, faultVars>>

SetVar ==
  /\ pc = "set"
  /\ \/ DmiVar' = [DmiVar EXCEPT ![cur] = new] /\ UNCHANGED nvFaults
     \/ NvFault /\ UNCHANGED DmiVar
  /\ NextField
  /\ UNCHANGED <<DmiArray, romVars, table, fileVars, romFaults, crashes>>

\* Mutant of ClearSource: Source keeps its value.
ClearSourceKept ==
  /\ pc = "clear"
  /\ WriteRom(current, previous)
  /\ pc' = "off"
  /\ UNCHANGED <<nvVars, table, k, fileVars, nvFaults, crashes>>

\* Source := 0, then the system is reset through port 0xcf9. When the write
\* fails, the next POST applies the whole file again.
ClearSource ==
  /\ pc = "clear"
  /\ WriteRom([current EXCEPT !.origin = "bios"], previous)
  /\ pc' = "off"
  /\ UNCHANGED <<nvVars, table, k, fileVars, nvFaults, crashes>>

-----------------------------------------------------------------------------
(* CombineSmbios, at ready to boot.                                        *)

CombinePrevious ==
  /\ pc = "combine"
  /\ WriteRom(current, table)
  /\ pc' = "combineCurrent"
  /\ UNCHANGED <<nvVars, table, k, fileVars, nvFaults, crashes>>

CombineCurrent ==
  /\ pc = "combineCurrent"
  /\ WriteRom([origin |-> "bios", data |-> table], previous)
  /\ pc' = "os"
  /\ UNCHANGED <<nvVars, table, k, fileVars, nvFaults, crashes>>

\* There is no data, or more than the region holds.
CombineReturns ==
  /\ pc = "combine"
  /\ pc' = "os"
  /\ UNCHANGED <<nvVars, romVars, table, k, fileVars, faultVars>>

-----------------------------------------------------------------------------
Shutdown ==
  /\ pc = "os"
  /\ pc' = "off"
  /\ UNCHANGED <<nvVars, romVars, table, k, fileVars, faultVars>>

PowerLoss ==
  /\ pc \notin {"off", "os"}
  /\ crashes < MaxCrash /\ crashes' = crashes + 1
  /\ pc' = "off" /\ k' = 1
  /\ UNCHANGED <<nvVars, romVars, table, fileVars, nvFaults, romFaults>>

Bios ==
  \/ Boot \/ NoDownload \/ NoUpdate \/ StartUpdate
  \/ SkipSame \/ DefaultAbsent \/ DeleteVar
  \/ Unlist \/ UnlistHangs \/ Spin
  \/ AddRecord \/ AddRecordFails \/ HasRecord \/ SetVar
  \/ ClearSource \/ CombinePrevious \/ CombineCurrent \/ CombineReturns

Environment ==
  \/ \E d \in [Field -> Value] : Download(d)
  \/ \E d \in [Field -> Value], o \in {"user", "damaged"} :
       (o = "damaged" => d = Factory) /\ DownloadDataFromRAM([origin |-> o, data |-> d])
  \/ Shutdown \/ PowerLoss

Next == Bios \/ Environment

Spec == Init /\ [][Next]_vars

\* A machine that is switched on runs its POST, and an OS is shut down some day.
FairSpec == Spec /\ WF_vars(Bios) /\ WF_vars(Shutdown)

-----------------------------------------------------------------------------
(* Properties.                                                             *)

\* A field whose DmiVar is set is listed in DmiArray, so that the SMBIOS driver
\* finds it: the two NVRAM writes of an update or of a load default, a power
\* loss between them and the second application of the file after it never
\* leave a setting behind that has no effect, as long as no NVRAM write fails.
ListedWhenSet == nvFaults = 0 => \A f \in Field : DmiVar[f] # None => Listed(f)

\* What the user's file asks for: only a string can ask for its default.
Wanted(d) ==
  [f \in Field |-> IF f \in StringField /\ d[f] = LoadDefault THEN Factory[f] ELSE d[f]]

Applied == pc = "combine" /\ goal # None /\ nvFaults = 0

\* When a POST gets to CombineSmbios, the table has every field as the last file
\* asked for it, across the resets, power losses and failed ROM writes since it
\* arrived, provided that PREVIOUS_SMBIOS was the table of the system then.
FileTakesEffect == (Applied /\ stale = 0) => table = Wanted(goal)

\* InBandUpdateSmbios promises to "update changed data to NVRAM": whatever
\* PREVIOUS_SMBIOS holds, the last file to arrive determines the table.
LastFileWins == Applied => table = Wanted(goal)

\* Every power loss in a POST leaves at most one record without a variable.
RecordsSuffice == Len(Fields) + MaxCrash < MaxRecords

\* A file is applied a finite number of times: Source is cleared in the end and
\* the machine does not reset itself for ever. The one exception is the POST that
\* hangs: it looks for a record that is missing in a list of 255, where no index
\* of 8 bits ever passes the count. No number of files gets there: an NVRAM write
\* must have failed, or power losses have filled the list.
UpdateSettles ==
  (current.origin = "user") ~>
    \/ current.origin # "user"
    \/ pc = "hung" /\ (nvFaults > 0 \/ ~RecordsSuffice)
=============================================================================
