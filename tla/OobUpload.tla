----------------------------- MODULE OobUpload -----------------------------
(***************************************************************************)
(* UploadOobDataToBmc of SmcOutBand.c and the upload of SmcAssetInfo.c: in *)
(* every POST each file is compared with the digest of the copy that was   *)
(* last uploaded and sent to the BMC if it differs, or if the BMC did not  *)
(* list the file when PEI asked for its status. A file is sent in three    *)
(* IPMI steps, with retries, and its digest is saved to NVRAM last. The    *)
(* power may fail, a reply may be lost, SetVariable may fail and the BMC   *)
(* may lose its files at any time.                                         *)
(***************************************************************************)
EXTENDS Naturals, Sequences

CONSTANTS
  Uploads,        \* the file types in upload order
  Content,        \* what a file can contain
  Fingerprint,          \* digests
  Digest,         \* Digest[t][c]: the digest of content c of a file of type t
  NoFile,         \* no file
  NoDigest,       \* no variable
  Md5Support,     \* OobConfigurations.Md5Support
  Retry           \* OOB_IPMI_FILE_RETRY (3)

FileType == {Uploads[k] : k \in 1..Len(Uploads)}

\* The files whose last digest is the header of the file itself, not its MD5:
\* UploadFeatureSupportFlagsFileToBmc compares and saves a PlatInfo_H.
HeaderType == {"FEATURE"}

\* The functions that allocate a buffer, or read the ROM, before they compare.
BufferType == {"ASSET", "DMI", "FEATURE", "STORAGE"}

ASSUME UploadsAssumption ==
  /\ Uploads \in Seq(STRING) /\ Len(Uploads) > 0
  /\ \A j, k \in 1..Len(Uploads) : Uploads[j] = Uploads[k] => j = k

ASSUME DigestAssumption ==
  /\ Digest \in [FileType -> [Content -> Fingerprint]]
  /\ NoFile \notin Content /\ NoDigest \notin Fingerprint

\* MD5 tells the contents of a file apart; a header need not.
ASSUME Md5Assumption ==
  \A t \in FileType \ HeaderType : \A c, d \in Content :
    Digest[t][c] = Digest[t][d] => c = d

ASSUME UploadConstantsAssumption == Retry \in Nat \ {0} /\ Md5Support \in BOOLEAN

VARIABLES
  data,           \* the files this POST produced
  digest,         \* the NVRAM variables SMCBIOSBIN, SMCSMBIOS, SMCOOBHII, ...
  bmcFile,        \* the files the BMC holds
  OobFileStatus0, \* the files the BMC listed when PEI asked
  pc,             \* the next step of the POST
  n,              \* the position in Uploads
  FileRetry,      \* the attempts left for the file
  gaveUp,         \* history: the files this POST failed to upload
  lost,           \* history: the files the BMC has lost since PEI asked
  unsaved         \* history: the files the BMC took without the digest being saved

nvVars   == <<digest, unsaved>>
bmcVars  == <<bmcFile, lost>>
postVars == <<data, OobFileStatus0>>
vars     == <<nvVars, bmcVars, postVars, pc, n, FileRetry, gaveUp>>

Step == {"off", "check", "prepare", "start", "done", "save", "signal", "os"}

TypeOK ==
  /\ data \in [FileType -> Content \cup {NoFile}]
  /\ digest \in [FileType -> Fingerprint \cup {NoDigest}]
  /\ bmcFile \in [FileType -> Content \cup {NoFile}]
  /\ OobFileStatus0 \subseteq FileType
  /\ pc \in Step
  /\ n \in 1..Len(Uploads)
  /\ FileRetry \in 1..Retry
  /\ gaveUp \subseteq FileType
  /\ lost \subseteq FileType
  /\ unsaved \subseteq FileType

Init ==
  /\ data = [t \in FileType |-> NoFile]
  /\ digest = [t \in FileType |-> NoDigest]
  /\ bmcFile = [t \in FileType |-> NoFile]
  /\ OobFileStatus0 = {}
  /\ pc = "off" /\ n = 1 /\ FileRetry = Retry
  /\ gaveUp = {} /\ lost = {} /\ unsaved = {}

\* The file being uploaded.
cur == Uploads[n]

UsesDigest(t) == Md5Support \/ t \in HeaderType

-----------------------------------------------------------------------------
(* Control flow.                                                           *)

\* The upload function returns and the next one is called.
Advance ==
  /\ n' = IF n < Len(Uploads) THEN n + 1 ELSE 1
  /\ pc' = IF n < Len(Uploads) THEN "check" ELSE "signal"
  /\ FileRetry' = Retry

\* Mutant of AttemptFails: one attempt too many.
AttemptFailsOffByOne ==
  IF FileRetry >= 1
    THEN FileRetry' = FileRetry - 1 /\ pc' = "prepare" /\ UNCHANGED <<n, gaveUp>>
    ELSE Advance /\ gaveUp' = gaveUp \cup {cur}

\* Mutant of AttemptFails: a `continue' that skips the decrement.
AttemptFailsUncounted == pc' = "prepare" /\ UNCHANGED <<n, FileRetry, gaveUp>>

\* The attempt failed: FileRetry is counted down.
AttemptFails ==
  IF FileRetry > 1
    THEN FileRetry' = FileRetry - 1 /\ pc' = "prepare" /\ UNCHANGED <<n, gaveUp>>
    ELSE Advance /\ gaveUp' = gaveUp \cup {cur}

\* PEI asks the BMC for its files (it records none when the command fails) and
\* the POST collects the files to upload.
Boot ==
  /\ pc = "off"
  /\ data' \in [FileType -> Content \cup {NoFile}]
  /\ OobFileStatus0' \in {{}, {t \in FileType : bmcFile[t] # NoFile}}
  /\ pc' = "check" /\ n' = 1 /\ FileRetry' = Retry
  /\ gaveUp' = {} /\ lost' = {}
  /\ UNCHANGED <<nvVars, bmcFile>>

-----------------------------------------------------------------------------
(* One file.                                                               *)

\* The file's signature is missing: nothing to upload.
SkipAbsent ==
  /\ pc = "check"
  /\ data[cur] = NoFile
  /\ Advance
  /\ UNCHANGED <<nvVars, bmcVars, postVars, gaveUp>>

\* AllocatePool, SmcRomHoleReadRegion or (ASSET) LocateProtocol fails.
SkipNoBuffer ==
  /\ pc = "check"
  /\ cur \in BufferType
  /\ Advance
  /\ gaveUp' = gaveUp \cup {cur}
  /\ UNCHANGED <<nvVars, bmcVars, postVars>>

\* Mutant of Unchanged: the status of the BMC's files is not looked at.
UnchangedDigestOnly(t) == UsesDigest(t) /\ digest[t] = Digest[t][data[t]]

\* The BMC has the file, and the saved digest is the digest of the data.
Unchanged(t) ==
  /\ UsesDigest(t)
  /\ t \in OobFileStatus0
  /\ digest[t] = Digest[t][data[t]]

\* "MD5 Matches since Last time."
SkipUnchanged ==
  /\ pc = "check"
  /\ data[cur] # NoFile /\ Unchanged(cur)
  /\ Advance
  /\ UNCHANGED <<nvVars, bmcVars, postVars, gaveUp>>

\* The file is new, or GetVariable fails and nothing is compared.
BeginUpload ==
  /\ pc = "check"
  /\ data[cur] # NoFile
  /\ pc' = "prepare"
  /\ UNCHANGED <<nvVars, bmcVars, postVars, n, FileRetry, gaveUp>>

\* PrepareDataToBmc copies the data to VRAM.
Prepare ==
  /\ pc = "prepare"
  /\ pc' = "start"
  /\ UNCHANGED <<nvVars, bmcVars, postVars, n, FileRetry, gaveUp>>

PrepareFails ==
  /\ pc = "prepare"
  /\ AttemptFails
  /\ UNCHANGED <<nvVars, bmcVars, postVars>>

\* UploadOobDataStart: the BMC begins to fetch the data.
Start ==
  /\ pc = "start"
  /\ pc' = "done"
  /\ UNCHANGED <<nvVars, bmcVars, postVars, n, FileRetry, gaveUp>>

\* The BMC has file f of type t from now on.
Accept(t, f) ==
  /\ bmcFile' = [bmcFile EXCEPT ![t] = f]
  /\ unsaved' = IF UsesDigest(t) /\ f # bmcFile[t] /\ f # NoFile
                  THEN unsaved \cup {t} ELSE unsaved

\* The command failed, or its answer was lost and the BMC fetches the data.
StartFails ==
  /\ pc = "start"
  /\ \E f \in {bmcFile[cur], data[cur], NoFile} : Accept(cur, f)
  /\ AttemptFails
  /\ UNCHANGED <<digest, lost, postVars>>

\* UploadOobDataDone: the BMC's checksum matches.
Done ==
  /\ pc = "done"
  /\ Accept(cur, data[cur])
  /\ IF UsesDigest(cur) THEN pc' = "save" /\ UNCHANGED <<n, FileRetry>> ELSE Advance
  /\ UNCHANGED <<digest, lost, postVars, gaveUp>>

\* Mutant of DoneFails: the status of UploadOobDataDone is not looked at.
DoneFailsUnnoticed ==
  /\ pc = "done"
  /\ \E f \in {bmcFile[cur], data[cur], NoFile} : Accept(cur, f)
  /\ pc' = "save"
  /\ UNCHANGED <<digest, lost, postVars, n, FileRetry, gaveUp>>

\* The checksum does not match, or no answer came in time: the BMC kept its old
\* file, dropped it, or took the new one.
DoneFails ==
  /\ pc = "done"
  /\ \E f \in {bmcFile[cur], data[cur], NoFile} : Accept(cur, f)
  /\ AttemptFails
  /\ UNCHANGED <<digest, lost, postVars>>

\* SetVariable.
Save ==
  /\ pc = "save"
  /\ digest' = [digest EXCEPT ![cur] = Digest[cur][data[cur]]]
  /\ unsaved' = unsaved \ {cur}
  /\ Advance
  /\ UNCHANGED <<bmcVars, postVars, gaveUp>>

\* SetVariable fails; its status is not looked at.
SaveFails ==
  /\ pc = "save"
  /\ Advance
  /\ UNCHANGED <<nvVars, bmcVars, postVars, gaveUp>>

\* SignalOOBUploadDone.
Signal ==
  /\ pc = "signal"
  /\ pc' = "os"
  /\ UNCHANGED <<nvVars, bmcVars, postVars, n, FileRetry, gaveUp>>

-----------------------------------------------------------------------------
(* The environment.                                                        *)

\* The system is shut down, reset or loses power.
PowerOff ==
  /\ pc # "off"
  /\ pc' = "off" /\ n' = 1 /\ FileRetry' = Retry
  /\ UNCHANGED <<nvVars, bmcVars, postVars, gaveUp>>

\* The BMC is reflashed or reset to its defaults.
BmcLoses(t) ==
  /\ bmcFile[t] # NoFile
  /\ bmcFile' = [bmcFile EXCEPT ![t] = NoFile]
  /\ lost' = lost \cup {t}
  /\ UNCHANGED <<nvVars, postVars, pc, n, FileRetry, gaveUp>>

\* Updating the BIOS clears the NVRAM.
ClearNvram ==
  /\ pc = "off"
  /\ digest' = [t \in FileType |-> NoDigest]
  /\ unsaved' = {}
  /\ UNCHANGED <<bmcVars, postVars, pc, n, FileRetry, gaveUp>>

-----------------------------------------------------------------------------
Bios ==
  \/ SkipAbsent \/ SkipNoBuffer \/ SkipUnchanged \/ BeginUpload
  \/ Prepare \/ PrepareFails \/ Start \/ StartFails
  \/ Done \/ DoneFails \/ Save \/ SaveFails \/ Signal

Environment == Boot \/ PowerOff \/ ClearNvram \/ \E t \in FileType : BmcLoses(t)

Next == Bios \/ Environment

Spec == Init /\ [][Next]_vars

\* The BIOS runs the POST to its end unless it is stopped from outside.
FairSpec == Spec /\ WF_vars(Bios)

-----------------------------------------------------------------------------
(* Properties.                                                             *)

\* The BMC holds the file of type t that this POST produced (for the feature
\* flags: a file with the same header).
Current(t) ==
  /\ bmcFile[t] # NoFile
  /\ IF t \in HeaderType THEN Digest[t][bmcFile[t]] = Digest[t][data[t]]
                         ELSE bmcFile[t] = data[t]

\* The upload of t is over: there was nothing to upload, the BMC is current, or
\* one of the three exceptions applies.
Settled(t) ==
  \/ data[t] = NoFile
  \/ t \in gaveUp \cup lost \cup unsaved
  \/ Current(t)

\* When gSmcOobDataUploadBmcDoneGuid is signalled, the BMC has the current copy
\* of every file, with exactly three exceptions: the upload was given up, the
\* BMC lost the file after PEI asked for it, or the BMC once took a file whose
\* digest never reached the NVRAM. No combination of retries, skipped uploads
\* and power losses adds another.
CurrentWhenSignalled == pc \in {"signal", "os"} => \A t \in FileType : Settled(t)

\* A digest is only saved for a file the BMC has acknowledged in this POST and
\* has not lost since: a digest never vouches for an upload that failed.
DigestVouchesForBmc ==
  [][\A t \in FileType : digest'[t] \notin {digest[t], NoDigest} =>
       Current(t) \/ t \in lost]_vars

\* The log says of a file that is not uploaded again that "the OOB HII MD5 in
\* BMC and BIOS are same": the file the BMC holds is the current one.
SkippedIsCurrent ==
  [][SkipUnchanged => bmcFile[cur] = NoFile \/ Current(cur)]_vars

\* Every POST gets through the uploads, whatever the BMC answers.
UploadTerminates == (pc = "check") ~> (pc \in {"os", "off"})
=============================================================================
